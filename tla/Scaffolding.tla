------------------------------ MODULE Scaffolding ------------------------------
(***************************************************************************)
(* create-dolittle-app and create-dolittle-microservice, in one target     *)
(* directory: application.json with the microservices it lists, the        *)
(* package.json they share, and the files of each microservice.            *)
(*                                                                         *)
(* A command is a process of its own, installed from the registry of       *)
(* Workspaces.  The application command makes the microservice of the      *)
(* portal itself, by the code of the microservice command.  Other commands *)
(* may run meanwhile, and each may be stopped between any two steps.       *)
(*                                                                         *)
(* A name is what toPascalCase makes of the answer, and is what is listed, *)
(* as ./Source/<name>.  The templates are written to the directory that    *)
(* plop's own pascalCase makes of the name: `My-Shop' and `My Shop' are    *)
(* two names, and both are written to Source/MyShop.  A GUID is the        *)
(* command that created it, with its purpose.                              *)
(***************************************************************************)
EXTENDS Workspaces

CONSTANTS
  Commands,
  MicroserviceNames,    \* after toPascalCase
  Portal,               \* the name of the portal
  Directories,          \* of microservices
  Directory,            \* Directory[name]: the one the templates of a name go to
  AppPackage,           \* create-dolittle-app
  MicroservicePackage,  \* create-dolittle-microservice
  Nothing

ASSUME ScaffoldingAssumption ==
  /\ Portal \in MicroserviceNames
  /\ Directory \in [MicroserviceNames -> Directories]

VARIABLES
  command,      \* command[c]: what it is asked, what it has read, and its step
  application,  \* application.json, or Nothing
  shared,       \* the package.json that the microservices share is there
  files,        \* files[directory][file]: the ids in it, or Nothing
  crossed       \* commands application.json was written under (history)

scaffoldVars == <<command, application, shared, files, crossed>>
scaffoldingVars == <<workspaceVars, scaffoldVars>>

Files == {"microservice.json", "configmap.yml", "App.tsx"}
Backend == {"microservice.json", "configmap.yml"}
AppFiles == {"application.json", "package.json"}
Ids == Commands \X {"id", "portalId"}
Contents == [id : Ids, application : Ids, template : {"backend", "web", "portal"}]
Applications == [id : Ids, portal : BOOLEAN, microservices : SUBSET MicroserviceNames]
CommandSteps ==
  {"new", "application", "microservice", "appending", "saving", "backend", "web", "portal",
   "done", "refused", "stopped"}

ASSUME NothingAssumption ==
  Nothing \notin MicroserviceNames \cup Ids \cup Contents \cup Applications

\* The whole of an application's or a microservice's answers.
Answers ==
  [step : CommandSteps, forced : BOOLEAN, ui : BOOLEAN, portal : BOOLEAN,
   name : MicroserviceNames \cup {Nothing}, id : Ids,
   application : Ids \cup {Nothing}, read : Applications \cup {Nothing},
   left : SUBSET (Files \cup AppFiles)]

ScaffoldingTypeOK ==
  /\ command \in [Commands -> Answers]
  /\ application \in Applications \cup {Nothing}
  /\ shared \in BOOLEAN
  /\ files \in [Directories -> [Files -> Contents \cup {Nothing}]]
  /\ crossed \subseteq Commands

ScaffoldingInit ==
  /\ WorkspacesInit
  /\ command = [c \in Commands |->
       [step |-> "new", forced |-> FALSE, ui |-> FALSE, portal |-> FALSE,
        name |-> Nothing, id |-> <<c, "id">>, application |-> Nothing, read |-> Nothing,
        left |-> {}]]
  /\ application = Nothing
  /\ shared = FALSE
  /\ files = [d \in Directories |-> [f \in Files |-> Nothing]]
  /\ crossed = {}

-----------------------------------------------------------------------------
(* What is installed.                                                      *)

\* A package of the registry installs with packages for all it needs.
Installable(name, version) ==
  \E closed \in SUBSET registry :
    /\ \E p \in closed : p.name = name /\ p.version = version
    /\ \A p \in closed : \A need \in Dependencies[p.name] :
         \E q \in closed : q.name = need /\ q.version = p.needs

\* A version of a tool is installed.
Installed(tool) == \E version \in Versions : Installable(tool, version)

Step(c, step) == command' = [command EXCEPT ![c].step = step]

Writing == {"backend", "web", "portal"}

-----------------------------------------------------------------------------
(* create-dolittle-app.                                                    *)

LaunchApplication(c, portal, forced) ==
  /\ command[c].step = "new"
  /\ Installed(AppPackage)
  /\ command' = [command EXCEPT ![c].step = "application", ![c].portal = portal,
                                ![c].forced = forced, ![c].left = AppFiles]
  /\ UNCHANGED <<application, shared, files, crossed>>

\* The wizard, and createApplication, which forces plop to write over files.
LaunchWizard(c, portal) == LaunchApplication(c, portal, FALSE)
CreateApplication(c, portal) == LaunchApplication(c, portal, TRUE)

Exists(file) == IF file = "application.json" THEN application # Nothing ELSE shared

\* The portal gets an id as every microservice does.
PortalWithNewId(c) ==
  [command[c] EXCEPT !.step = "microservice", !.name = Portal, !.ui = TRUE,
                     !.forced = FALSE, !.left = {}]

\* The microservice of the portal is a command within the command.
PortalFor(c) ==
  [command[c] EXCEPT !.step = "microservice", !.name = Portal, !.ui = TRUE,
                     !.id = <<c, "portalId">>, !.forced = FALSE, !.left = {}]

AfterTemplates(c, left) ==
  IF left # {} THEN [command[c] EXCEPT !.left = left]
  ELSE IF command[c].portal THEN PortalFor(c)
  ELSE [command[c] EXCEPT !.step = "done", !.forced = FALSE, !.left = {}]

\* A file of the templates.  Without force, one that exists ends the command.
WriteTemplate(c, file) ==
  /\ command[c].step = "application"
  /\ file \in command[c].left
  /\ IF Exists(file) /\ ~command[c].forced
     THEN /\ command' = [command EXCEPT ![c].step = "refused", ![c].forced = FALSE]
          /\ UNCHANGED <<application, shared, crossed>>
     ELSE /\ command' = [command EXCEPT ![c] = AfterTemplates(c, command[c].left \ {file})]
          /\ IF file = "application.json"
             THEN /\ application' = [id |-> <<c, "id">>, portal |-> command[c].portal,
                                     microservices |-> {}]
                  /\ crossed' = crossed \cup
                       {d \in Commands : command[d].step \in {"appending", "saving"} \cup Writing}
                  /\ UNCHANGED shared
             ELSE /\ shared' = TRUE
                  /\ UNCHANGED <<application, crossed>>
  /\ UNCHANGED files

-----------------------------------------------------------------------------
(* create-dolittle-microservice.                                           *)

\* The wizard; createMicroservice is called for the portal alone.
LaunchMicroservice(c, name, ui) ==
  /\ command[c].step = "new"
  /\ Installed(MicroservicePackage)
  /\ command' = [command EXCEPT ![c].step = "microservice", ![c].name = name, ![c].ui = ui]
  /\ UNCHANGED <<application, shared, files, crossed>>

\* The generator reads what the templates need of application.json.
ReadApplication(c) ==
  /\ command[c].step = "microservice"
  /\ command' = [command EXCEPT
       ![c].step = IF application = Nothing THEN "refused" ELSE "appending",
       ![c].application = IF application = Nothing THEN Nothing ELSE application.id]
  /\ UNCHANGED <<application, shared, files, crossed>>

\* A microservice of the name may be there.
ReadListedAnyway(c) ==
  /\ command[c].step = "appending"
  /\ command' = [command EXCEPT ![c].step = "saving", ![c].read = application]
  /\ UNCHANGED <<application, shared, files, crossed>>

\* appendMicroserviceToApplication: the whole file is read.  When the portal is
\* refused, the command it is part of does not tell.
ReadListed(c) ==
  /\ command[c].step = "appending"
  /\ command' = IF command[c].name \in application.microservices
                THEN [command EXCEPT ![c].step = "refused"]
                ELSE [command EXCEPT ![c].step = "saving", ![c].read = application]
  /\ UNCHANGED <<application, shared, files, crossed>>

\* The list is made anew.
SaveAlone(c) ==
  /\ command[c].step = "saving"
  /\ application' = [command[c].read EXCEPT !.microservices = {command[c].name}]
  /\ command' = [command EXCEPT ![c].step = "backend", ![c].read = Nothing, ![c].left = Backend]
  /\ crossed' = crossed \cup
       {d \in Commands \ {c} : command[d].step \in {"appending", "saving"}}
  /\ UNCHANGED <<shared, files>>

\* ... and the whole file is saved, with the name in its list.
Save(c) ==
  /\ command[c].step = "saving"
  /\ application' = [command[c].read EXCEPT !.microservices = @ \cup {command[c].name}]
  /\ command' = [command EXCEPT ![c].step = "backend", ![c].read = Nothing, ![c].left = Backend]
  /\ crossed' = crossed \cup
       {d \in Commands \ {c} : command[d].step \in {"appending", "saving"}}
  /\ UNCHANGED <<shared, files>>

\* A file of the templates, over one that is there.
DirectoryOf(c) == Directory[command[c].name]

Write(c, file, template) ==
  files' = [files EXCEPT ![DirectoryOf(c)][file] =
              [id |-> command[c].id, application |-> command[c].application,
               template |-> template]]

\* The templates of a backend, in the order they are found in.
WriteBackend(c, file) ==
  /\ command[c].step = "backend"
  /\ file \in command[c].left
  /\ Write(c, file, "backend")
  /\ LET left == command[c].left \ {file}
     IN  command' = [command EXCEPT ![c].left = left,
           ![c].step = IF left # {} THEN "backend" ELSE IF command[c].ui THEN "web" ELSE "done"]
  /\ UNCHANGED <<application, shared, crossed>>

\* Those of its page, and those of the portal in their place.
WriteWeb(c) ==
  /\ command[c].step = "web"
  /\ Write(c, "App.tsx", "web")
  /\ Step(c, IF command[c].portal THEN "portal" ELSE "done")
  /\ UNCHANGED <<application, shared, crossed>>

WritePortal(c) ==
  /\ command[c].step = "portal"
  /\ Write(c, "App.tsx", "portal")
  /\ Step(c, "done")
  /\ UNCHANGED <<application, shared, crossed>>

\* A file cannot be written, or the user stops the command.
Stop(c) ==
  /\ command[c].step \notin {"new", "done", "refused", "stopped"}
  /\ Step(c, "stopped")
  /\ UNCHANGED <<application, shared, files, crossed>>

ScaffoldNext ==
  \E c \in Commands :
    \/ \E portal \in BOOLEAN : LaunchWizard(c, portal) \/ CreateApplication(c, portal)
    \/ \E file \in AppFiles : WriteTemplate(c, file)
    \/ \E name \in MicroserviceNames, ui \in BOOLEAN : LaunchMicroservice(c, name, ui)
    \/ ReadApplication(c) \/ ReadListed(c) \/ Save(c)
    \/ \E file \in Backend : WriteBackend(c, file)
    \/ WriteWeb(c) \/ WritePortal(c) \/ Stop(c)

ScaffoldingNext ==
  \/ WorkspacesNext /\ UNCHANGED scaffoldVars
  \/ ScaffoldNext /\ UNCHANGED workspaceVars

ScaffoldingSpec == ScaffoldingInit /\ [][ScaffoldingNext]_scaffoldingVars

-----------------------------------------------------------------------------
(* Properties.                                                             *)

\* Files that name the application are in a directory of a microservice it lists,
\* unless application.json was written while another command had read it: the
\* entry precedes the files and is never lost otherwise (plopfile.ts:21-36).
FilesAreListed ==
  application # Nothing /\ crossed = {} =>
    \A d \in Directories, f \in Files :
      files[d][f] # Nothing /\ files[d][f].application = application.id
        => \E n \in application.microservices : Directory[n] = d

\* A command has written all files of its microservice, and they are its own.
Whole(c) ==
  /\ \A f \in Backend \cup (IF command[c].ui THEN {"App.tsx"} ELSE {}) :
       /\ files[DirectoryOf(c)][f] # Nothing
       /\ files[DirectoryOf(c)][f].id = command[c].id
       /\ files[DirectoryOf(c)][f].application = application.id
  /\ command[c].portal => files[DirectoryOf(c)]["App.tsx"].template = "portal"

\* Another name that is listed has the same directory, which the check for a
\* name that is listed does not see.
SharesDirectory(n) ==
  \E m \in application.microservices \ {n} : Directory[m] = Directory[n]

\* A microservice that is listed has all its files from one command, with the id
\* of the application, unless this command is at it or was stopped, or another
\* one that is listed has its directory (plopfile.ts:27, 72).
ListedIsWhole ==
  application # Nothing /\ crossed = {} =>
    \A n \in application.microservices :
      \E c \in Commands :
        /\ command[c].name = n
        /\ \/ command[c].step \in Writing \cup {"stopped"}
           \/ command[c].step = "done" /\ (Whole(c) \/ SharesDirectory(n))

\* The portal that application.json announces is there under the id announced,
\* unless the command that made the application is at it or was stopped, or
\* another command was given a name with the directory of the portal
\* (addPortalMicroservice, which does not look at what the inner command says).
PortalIsAnnounced ==
  application # Nothing /\ application.portal /\ crossed = {} =>
    LET c == application.id[1]
    IN  \/ command[c].step = "done" /\ Whole(c) /\ command[c].id = <<c, "portalId">>
        \/ command[c].step \notin {"done", "refused"}
        \/ \E d \in Commands \ {c} : /\ command[d].name # Nothing
                                      /\ DirectoryOf(d) = Directory[Portal]
        \/ command[c].step = "refused" /\ command[c].left # {}
=============================================================================
