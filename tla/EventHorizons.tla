--------------------------- MODULE EventHorizons ---------------------------
(***************************************************************************)
(* Connecting microservices: the consents of a producer, the event         *)
(* horizons of a consumer and the tenants of the application are three     *)
(* JSON files.  The CLI (Connect.cs, AddTenant.cs, RemoveTenant.cs,        *)
(* Init.cs) and the editor of application.json                             *)
(* (ApplicationEditorProvider.ts) read them, and write each one back as a  *)
(* whole, one after the other, and nothing keeps two of them apart.        *)
(*                                                                         *)
(* A consent of a producer is a tenant and the consumer, an event horizon  *)
(* of a consumer a tenant and the producer: stream and scope are the       *)
(* producer's id and the partition is always empty.                        *)
(***************************************************************************)
CONSTANTS
  Microservices,
  Tenants,
  Development,     \* TenantId.development
  Connects,        \* runs of `connect`
  TenantCommands,  \* runs of the commands that change tenants
  Editor,          \* the extension host of Visual Studio Code
  FirstTenants,    \* tenants.json at first
  Bare,            \* microservices that have no files yet, as the templates make them
  NoFile

Processes == Connects \cup {Editor}
Entries == SUBSET (Tenants \X Microservices)

ASSUME FilesAssumption ==
  /\ Development \in Tenants
  /\ Editor \notin Connects
  /\ NoFile \notin Microservices
  /\ Bare \subseteq Microservices
  /\ FirstTenants \in {NoFile} \cup SUBSET Tenants
  /\ \A S \in Entries \cup SUBSET Tenants : S # NoFile

VARIABLES
  tenants,      \* tenants.json of the application
  consents,     \* consents[p]: event-horizon-consents.json of p
  horizons,     \* horizons[c]: event-horizons.json of c
  process,      \* process[k]: where a connect is, and the files as it has them
  edit,         \* edit[k]: where a tenant command is, and the tenants it saves
  overlapped,   \* connects that had read a file another one saved (history)
  interrupted,  \* pairs whose connect ended between its two saves (history)
  disturbed     \* pairs that an overlapped connect saved, or that a save
                \* dropped from a file (history)

files == <<tenants, consents, horizons>>
connectVars == <<process, overlapped, interrupted, disturbed>>
horizonVars == <<files, connectVars, edit>>

Steps == {"new", "reading", "granting", "subscribing", "saving", "saved",
          "drawing", "done", "refused", "crashed"}

HorizonsTypeOK ==
  /\ tenants \in {NoFile} \cup SUBSET Tenants
  /\ consents \in [Microservices -> {NoFile} \cup Entries]
  /\ horizons \in [Microservices -> {NoFile} \cup Entries]
  /\ process \in [Processes -> [step : Steps, producer : {NoFile} \cup Microservices,
                                consumer : {NoFile} \cup Microservices, overwrite : BOOLEAN,
                                consents : {NoFile} \cup Entries,
                                horizons : {NoFile} \cup Entries]]
  /\ edit \in [TenantCommands -> [step : {"new", "saving", "done"}, tenants : SUBSET Tenants]]
  /\ overlapped \subseteq Processes
  /\ interrupted \subseteq Microservices \X Microservices
  /\ disturbed \subseteq Microservices \X Microservices

\* A connect that has not begun, or has come to its end.
At(step) ==
  [step |-> step, producer |-> NoFile, consumer |-> NoFile, overwrite |-> FALSE,
   consents |-> {}, horizons |-> {}]

HorizonsInit ==
  /\ tenants = FirstTenants
  /\ consents = [m \in Microservices |-> IF m \in Bare THEN NoFile ELSE {}]
  /\ horizons = consents
  /\ process = [k \in Processes |-> At("new")]
  /\ edit = [k \in TenantCommands |-> [step |-> "new", tenants |-> {}]]
  /\ overlapped = {}
  /\ interrupted = {}
  /\ disturbed = {}

-----------------------------------------------------------------------------
Contents(file) == IF file = NoFile THEN {} ELSE file

\* The CLI takes a missing file for an empty one, and so does a backend.  The editor does as well,
\* but then has no path to save it to, which NoFile stands for.
Loaded(k, file) == IF k = Editor THEN file ELSE Contents(file)

Added(file, entries) == IF file = NoFile THEN NoFile ELSE file \cup entries

\* The tenants a connect is for: the editor reads a file `tenants` that
\* nothing writes (the CLI has tenants.json) and falls back to development.
TenantsFor(k) == IF k = Editor THEN {Development} ELSE Contents(tenants)

Granted(k) == TenantsFor(k) \X {process[k].consumer}
Subscribed(k) == TenantsFor(k) \X {process[k].producer}
Pair(k) == <<process[k].producer, process[k].consumer>>

\* The steps after a connect has read the file, until it saves it.
HasConsents == {"reading", "granting", "subscribing", "saving"}
HasHorizons == {"granting", "subscribing", "saving", "saved"}

-----------------------------------------------------------------------------
(* Connecting a producer to a consumer, by the CLI or by the editor.       *)

\* The producer's consents are read, or with --overwrite left aside.
Begin(k, p, c, overwrite) ==
  /\ process[k].step = "new"
  /\ p # c
  /\ process' = [process EXCEPT ![k] =
       [step |-> "reading", producer |-> p, consumer |-> c, overwrite |-> overwrite,
        consents |-> IF overwrite THEN {} ELSE Loaded(k, consents[p]), horizons |-> {}]]
  /\ overlapped' = overlapped \ {k}
  /\ UNCHANGED <<files, edit, interrupted, disturbed>>

ReadHorizons(k) ==
  /\ process[k].step = "reading"
  /\ process' = [process EXCEPT
       ![k].step = "granting",
       ![k].horizons = IF process[k].overwrite THEN {} ELSE Loaded(k, horizons[process[k].consumer])]
  /\ UNCHANGED <<files, edit, overlapped, interrupted, disturbed>>

\* A command has something it was told to add already, and ends; the editor
\* skips it.
Refused(k, file, entries) == k # Editor /\ file \cap entries # {}

\* The two Setup functions start from nothing instead of what was read.
GrantAfresh(k) ==
  /\ process[k].step = "granting"
  /\ ~Refused(k, process[k].consents, Granted(k))
  /\ process' = [process EXCEPT ![k].step = "subscribing",
                                ![k].consents = Added({}, Granted(k))]
  /\ UNCHANGED <<files, edit, overlapped, interrupted, disturbed>>

\* SetupConsentsForAllTenants and SetupEventHorizonsForAllTenants, each of
\* which reads the tenants anew.
Grant(k) ==
  /\ process[k].step = "granting"
  /\ ~Refused(k, process[k].consents, Granted(k))
  /\ process' = [process EXCEPT ![k].step = "subscribing",
                                ![k].consents = Added(@, Granted(k))]
  /\ UNCHANGED <<files, edit, overlapped, interrupted, disturbed>>

Subscribe(k) ==
  /\ process[k].step = "subscribing"
  /\ ~Refused(k, process[k].horizons, Subscribed(k))
  /\ process' = [process EXCEPT ![k].step = "saving",
                                ![k].horizons = Added(@, Subscribed(k))]
  /\ UNCHANGED <<files, edit, overlapped, interrupted, disturbed>>

\* The others that work with a file this connect saves.
Others(k, steps) == {j \in Processes \ {k} : process[j].step \in steps}

\* The connections a save of the producer's consents drops ...
DropsConsents(k) ==
  {<<process[k].producer, c>> : c \in
     {m \in Microservices : \E t \in Tenants :
        <<t, m>> \in Contents(consents[process[k].producer]) \ process[k].consents}}

\* ... and a save of the consumer's horizons.
DropsHorizons(k) ==
  {<<p, process[k].consumer>> : p \in
     {m \in Microservices : \E t \in Tenants :
        <<t, m>> \in Contents(horizons[process[k].consumer]) \ process[k].horizons}}

Disturb(k, dropped) ==
  disturbed' = disturbed \cup dropped \cup (IF k \in overlapped THEN {Pair(k)} ELSE {})

\* The file could not be written, and the command goes on.
SaveConsentsFails(k) ==
  /\ process[k].consents # NoFile
  /\ process[k].step = "saving"
  /\ process' = [process EXCEPT ![k].step = "saved"]
  /\ UNCHANGED <<files, edit, overlapped, interrupted, disturbed>>

SaveConsents(k) ==
  /\ process[k].consents # NoFile
  /\ process[k].step = "saving"
  /\ process' = [process EXCEPT ![k].step = "saved"]
  /\ consents' = [consents EXCEPT ![process[k].producer] = process[k].consents]
  /\ overlapped' = overlapped \cup
       {j \in Others(k, HasConsents) : process[j].producer = process[k].producer}
  /\ Disturb(k, DropsConsents(k))
  /\ UNCHANGED <<tenants, horizons, edit, interrupted>>

\* The horizons go to the wrong one of the two microservices.
SaveHorizonsOfProducer(k) ==
  /\ process[k].horizons # NoFile
  /\ process[k].step = "saved"
  /\ process' = [process EXCEPT ![k] = IF k = Editor THEN [@ EXCEPT !.step = "drawing"] ELSE At("done")]
  /\ horizons' = [horizons EXCEPT ![process[k].producer] = process[k].horizons]
  /\ UNCHANGED <<tenants, consents, edit, overlapped, interrupted, disturbed>>

SaveHorizons(k) ==
  /\ process[k].horizons # NoFile
  /\ process[k].step = "saved"
  /\ process' = [process EXCEPT ![k] = IF k = Editor THEN [@ EXCEPT !.step = "drawing"] ELSE At("done")]
  /\ horizons' = [horizons EXCEPT ![process[k].consumer] = process[k].horizons]
  /\ overlapped' = overlapped \cup
       {j \in Others(k, HasHorizons) : process[j].consumer = process[k].consumer}
  /\ Disturb(k, DropsHorizons(k))
  /\ UNCHANGED <<tenants, consents, edit, interrupted>>

\* A duplicate ends the command before it has saved anything.
Refuse(k) ==
  /\ \/ process[k].step = "granting" /\ Refused(k, process[k].consents, Granted(k))
     \/ process[k].step = "subscribing" /\ Refused(k, process[k].horizons, Subscribed(k))
  /\ process' = [process EXCEPT ![k] = At("refused")]
  /\ UNCHANGED <<files, edit, overlapped, interrupted, disturbed>>

Interrupt(k) ==
  interrupted' = IF process[k].step = "saved" THEN interrupted \cup {Pair(k)} ELSE interrupted

\* A command is stopped, or a file cannot be read or written.
Crash(k) ==
  /\ k # Editor
  /\ process[k].step \in {"reading", "granting", "subscribing", "saving", "saved"}
  /\ process' = [process EXCEPT ![k] = At("crashed")]
  /\ Interrupt(k)
  /\ UNCHANGED <<files, edit, overlapped, disturbed>>

\* The editor has no path to write to: the handler of the message throws.
Throw ==
  /\ \/ process[Editor].step = "saving" /\ process[Editor].consents = NoFile
     \/ process[Editor].step = "saved" /\ process[Editor].horizons = NoFile
  /\ process' = [process EXCEPT ![Editor] = At("new")]
  /\ Interrupt(Editor)
  /\ UNCHANGED <<files, edit, overlapped, disturbed>>

-----------------------------------------------------------------------------
(* The commands that change the tenants.                                   *)

\* To add development to no tenants at all ends in an exception, as it is in
\* the list twice then.
AddTenant(before, after) ==
  \E t \in Tenants \ before :
    IF before = {} THEN t # Development /\ after = {Development, t} ELSE after = before \cup {t}

RemoveTenant(before, after) == \E t \in before : after = before \ {t}

InitTenants(after) == after = {Development}

\* What a command makes of the tenants it has read.
ReadTenants(k) ==
  /\ edit[k].step = "new"
  /\ \E after \in SUBSET Tenants :
       /\ \/ AddTenant(Contents(tenants), after)
          \/ RemoveTenant(Contents(tenants), after)
          \/ InitTenants(after)
       /\ edit' = [edit EXCEPT ![k] = [step |-> "saving", tenants |-> after]]
  /\ UNCHANGED <<files, connectVars>>

SaveTenants(k) ==
  /\ edit[k].step = "saving"
  /\ edit' = [edit EXCEPT ![k] = [step |-> "done", tenants |-> {}]]
  /\ tenants' = edit[k].tenants
  /\ overlapped' = overlapped \cup Others(Editor, {"subscribing"})
  /\ UNCHANGED <<consents, horizons, process, interrupted, disturbed>>

-----------------------------------------------------------------------------
\* The steps of a connect that has begun.
Continue(k) ==
  \/ ReadHorizons(k) \/ Grant(k) \/ Subscribe(k) \/ SaveConsents(k) \/ SaveHorizons(k)
  \/ Refuse(k) \/ Crash(k)

\* What the CLI does in an application that has the given microservices.
CommandNext(microservices) ==
  \/ \E k \in Connects, p, c \in microservices, overwrite \in BOOLEAN : Begin(k, p, c, overwrite)
  \/ \E k \in Processes : Continue(k)
  \/ \E k \in TenantCommands : ReadTenants(k) \/ SaveTenants(k)

-----------------------------------------------------------------------------
(* Properties.                                                             *)

\* EventHorizons.load: a backend without the file has none.
Load(c) == Contents(horizons[c])

\* What a backend subscribes to when it is started: the producer's tenant is
\* its own, and the producer's id is the stream and the scope.
Subscriptions(c) == {[tenant |-> h[1], producer |-> h[2]] : h \in Load(c)}

\* Whenever a backend is started, it is let read from all it subscribes to: an
\* event horizon has the consent of its producer, also when commands are
\* stopped between their saves, unless the connection was disturbed by a
\* command that worked at the same time or by one that overwrites.
HorizonsConsented ==
  \A c \in Microservices : \A s \in Subscriptions(c) :
    <<s.producer, c>> \notin disturbed => <<s.tenant, c>> \in Contents(consents[s.producer])

\* A consent without its event horizon is left only by a connect that is
\* under way, or that was interrupted between its saves, or disturbed.
ConsentsHaveHorizons ==
  \A p, c \in Microservices, t \in Tenants :
    <<t, c>> \in Contents(consents[p]) /\ <<p, c>> \notin disturbed \cup interrupted
      => \/ <<t, p>> \in Contents(horizons[c])
         \/ \E k \in Processes : process[k].step = "saved" /\ Pair(k) = <<p, c>>

\* Connecting two microservices keeps what others are connected to: a save
\* removes something from a file only if its connect overwrites, or another
\* one has saved that file since it was read.
Keeps(file) == \A m \in Microservices : Contents(file[m]) \subseteq Contents(file'[m])

MayDrop(k) == process[k] # process'[k] /\ (process[k].overwrite \/ k \in overlapped)

KeepsConnections ==
  [][\/ Keeps(consents) /\ Keeps(horizons)
     \/ \E k \in Processes : MayDrop(k)]_horizonVars

\* The inductive invariant behind them: a connect that neither overwrites nor
\* is overlapped has at least what is in the files it has read.
HasAll(mine, file) ==
  \/ mine = NoFile /\ Contents(file) = {}
  \/ mine # NoFile /\ Contents(file) \subseteq mine

HasWhatIsThere(k) ==
  k \notin overlapped /\ ~process[k].overwrite =>
    /\ process[k].step \in HasConsents =>
         HasAll(process[k].consents, consents[process[k].producer])
    /\ process[k].step \in HasHorizons =>
         HasAll(process[k].horizons, horizons[process[k].consumer])
=============================================================================
