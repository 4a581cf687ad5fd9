--------------------------- MODULE ScaffoldingProofs ---------------------------
(***************************************************************************)
(* What holds of every number of packages, runs, versions and commands.    *)
(*                                                                         *)
(* The registry takes a version of a package once, and a run publishes the *)
(* packages in one order; so the run that published the first package of a *)
(* version is the only one that gets to the second.  The inductive         *)
(* invariant says which packages a run has published at the place it is    *)
(* at.                                                                     *)
(*                                                                         *)
(* Of the commands in a directory it says, as long as application.json has *)
(* not been written under one of them, that what a command has read is     *)
(* still so, that a name has one maker, and that the id of an application  *)
(* that is not made yet is nowhere; nothing less is kept by every step.    *)
(***************************************************************************)
EXTENDS Scaffolding, TLAPS

\* A run has published what it has passed, needing its own version.
HasDone(r) ==
  job[r].version # NoVersion /\ job[r].step # "new" =>
    \A i \in DOMAIN Found : i < job[r].at /\ Public(i) =>
      \E p \in registry : p.name = Found[i] /\ p.version = job[r].version /\ p.by = r
                            /\ p.needs = job[r].version

JobInv ==
  \A r \in Runs :
    /\ HasDone(r)
    /\ job[r].step = "publishing" =>
         /\ job[r].version # NoVersion
         /\ job[r].at \in DOMAIN Found
         /\ Public(job[r].at)
         /\ manifest[r][Found[job[r].at]] = job[r].version
    /\ job[r].step = "done" => job[r].at > Len(Found)

\* A package was published by a run that got there, in the version of the run.
RegistryInv ==
  \A p \in registry :
    /\ job[p.by].version = p.version
    /\ job[p.by].step # "new"
    /\ p.needs = p.version
    /\ \E i \in DOMAIN Found : Found[i] = p.name /\ Public(i) /\ i <= job[p.by].at

Unique == \A p, q \in registry : p.name = q.name /\ p.version = q.version => p = q

WInv == WorkspacesTypeOK /\ JobInv /\ RegistryInv /\ Unique

-----------------------------------------------------------------------------
LEMMA FoundFacts ==
  /\ Len(Found) \in Nat
  /\ DOMAIN Found = 1..Len(Found)
  /\ \A i \in DOMAIN Found : Found[i] \in Names
BY WorkspacesAssumption DEF Names

LEMMA WInit == WorkspacesInit => WInv
<1> SUFFICES ASSUME WorkspacesInit PROVE WInv
  OBVIOUS
<1>1. WorkspacesTypeOK
  BY FoundFacts DEF WorkspacesInit, WorkspacesTypeOK, JobSteps
<1>2. JobInv /\ RegistryInv /\ Unique
  BY DEF WorkspacesInit, JobInv, HasDone, RegistryInv, Unique
<1> QED BY <1>1, <1>2 DEF WInv

\* A step that publishes nothing and moves one run, to a place it may be at.
LEMMA MovedJob ==
  ASSUME WInv,
         NEW r \in Runs, NEW i \in 1..Len(Found) + 1, NEW step \in JobSteps \ {"new"},
         i = job[r].at \/ i = job[r].at + 1,
         job[r].step # "new",
         i = job[r].at + 1 => job[r].version = NoVersion \/ ~Public(job[r].at),
         job' = [job EXCEPT ![r].at = i, ![r].step = step],
         registry' = registry,
         manifest' \in [Runs -> [Names -> Versions \cup {NoVersion}]],
         \A s \in Runs \ {r} : manifest'[s] = manifest[s],
         step = "publishing" =>
           /\ job[r].version # NoVersion
           /\ i \in DOMAIN Found
           /\ Public(i)
           /\ manifest'[r][Found[i]] = job[r].version,
         step = "done" => i > Len(Found)
  PROVE  WInv'
<1>1. /\ job \in [Runs -> [version : Versions \cup {NoVersion}, at : 1..Len(Found) + 1,
                           step : JobSteps]]
      /\ registry \subseteq Published
  BY DEF WInv, WorkspacesTypeOK
<1>2. WorkspacesTypeOK'
  BY <1>1 DEF WorkspacesTypeOK
<1>3. /\ job'[r].at = i /\ job'[r].step = step /\ job'[r].version = job[r].version
      /\ \A s \in Runs \ {r} : job'[s] = job[s]
  BY <1>1
<1>4. job[r].at \in Nat /\ i \in Nat
  BY <1>1, FoundFacts
<1>5. JobInv'
  <2> SUFFICES ASSUME NEW s \in Runs
               PROVE  /\ HasDone(s)'
                      /\ job'[s].step = "publishing" =>
                           /\ job'[s].version # NoVersion
                           /\ job'[s].at \in DOMAIN Found
                           /\ Public(job'[s].at)
                           /\ manifest'[s][Found[job'[s].at]] = job'[s].version
                      /\ job'[s].step = "done" => job'[s].at > Len(Found)
    BY DEF JobInv, Public
  <2>1. CASE s # r
    <3>1. job'[s] = job[s] /\ manifest'[s] = manifest[s]
      BY <2>1, <1>3
    <3>2. /\ HasDone(s)
          /\ job[s].step = "publishing" =>
               /\ job[s].version # NoVersion
               /\ job[s].at \in DOMAIN Found
               /\ Public(job[s].at)
               /\ manifest[s][Found[job[s].at]] = job[s].version
          /\ job[s].step = "done" => job[s].at > Len(Found)
      BY DEF WInv, JobInv
    <3>3. HasDone(s)'
      BY ONLY <3>1, <3>2, registry' = registry DEF HasDone, Public
    <3> QED BY <3>1, <3>2, <3>3
  <2>2. CASE s = r
    <3>1. HasDone(r)
      BY DEF WInv, JobInv
    <3>2. HasDone(r)'
      <4> SUFFICES ASSUME job[r].version # NoVersion,
                          NEW j \in DOMAIN Found, j < i, Public(j)
                   PROVE  \E p \in registry : p.name = Found[j] /\ p.version = job[r].version
                            /\ p.by = r /\ p.needs = job[r].version
        BY <1>3 DEF HasDone, Public
      <4>1. j < job[r].at
        BY <1>4, FoundFacts
      <4> QED BY <3>1, <4>1 DEF HasDone
    <3> QED BY <2>2, <1>3, <3>2
  <2> QED BY <2>1, <2>2
<1>6. RegistryInv'
  <2> SUFFICES ASSUME NEW p \in registry
               PROVE  /\ job'[p.by].version = p.version
                      /\ job'[p.by].step # "new"
                      /\ p.needs = p.version
                      /\ \E j \in DOMAIN Found : Found[j] = p.name /\ Public(j)
                                                   /\ j <= job'[p.by].at
    BY DEF RegistryInv, Public
  <2>1. p.by \in Runs
    BY <1>1 DEF Published
  <2>2. /\ job[p.by].version = p.version
        /\ job[p.by].step # "new"
        /\ p.needs = p.version
    BY DEF WInv, RegistryInv
  <2>3. PICK j \in DOMAIN Found : Found[j] = p.name /\ Public(j) /\ j <= job[p.by].at
    BY DEF WInv, RegistryInv
  <2>4. j <= job'[p.by].at
    <3>1. j \in Nat
      BY FoundFacts
    <3>2. CASE p.by = r
      BY <2>3, <1>3, <1>4, <3>1, <3>2
    <3>3. CASE p.by # r
      BY <2>1, <2>3, <1>3, <3>3
    <3> QED BY <3>2, <3>3
  <2> QED BY <2>1, <2>2, <2>3, <2>4, <1>3
<1>7. Unique'
  BY DEF WInv, Unique
<1> QED BY <1>2, <1>5, <1>6, <1>7 DEF WInv

\* A package is published at the place a run is at, and the run goes on or fails.
LEMMA PublishedPackage ==
  ASSUME WInv,
         NEW r \in Runs, NEW i, NEW step,
         \/ i = job[r].at + 1 /\ step = "looking"
         \/ i = job[r].at /\ step = "failed",
         job[r].step = "publishing",
         ~Taken(Package(r).name, job[r].version),
         job' = [job EXCEPT ![r].at = i, ![r].step = step],
         registry' = registry \cup {Package(r)},
         manifest' = manifest
  PROVE  WInv'
<1>1. /\ job \in [Runs -> [version : Versions \cup {NoVersion}, at : 1..Len(Found) + 1,
                           step : JobSteps]]
      /\ manifest \in [Runs -> [Names -> Versions \cup {NoVersion}]]
      /\ registry \subseteq Published
  BY DEF WInv, WorkspacesTypeOK
<1>2. /\ job[r].version # NoVersion
      /\ job[r].at \in DOMAIN Found
      /\ Public(job[r].at)
      /\ manifest[r][Found[job[r].at]] = job[r].version
  BY DEF WInv, JobInv
<1>3. /\ job'[r].at = i /\ job'[r].step = step /\ job'[r].version = job[r].version
      /\ \A s \in Runs \ {r} : job'[s] = job[s]
  BY <1>1
<1>4. job[r].at \in Nat /\ i \in 1..Len(Found) + 1
  BY <1>1, <1>2, FoundFacts
<1> DEFINE new == Package(r)
<1>5. /\ new.name = Found[job[r].at] /\ new.version = job[r].version
      /\ new.by = r /\ new.needs = job[r].version
      /\ new \in Published
  BY <1>1, <1>2, FoundFacts DEF Package, Published
<1> HIDE DEF new
<1>6. registry' = registry \cup {new}
  BY DEF new
<1>7. WorkspacesTypeOK'
  BY <1>1, <1>4, <1>5, <1>6 DEF WorkspacesTypeOK, JobSteps
<1>8. JobInv'
  <2> SUFFICES ASSUME NEW s \in Runs
               PROVE  /\ HasDone(s)'
                      /\ job'[s].step = "publishing" =>
                           /\ job'[s].version # NoVersion
                           /\ job'[s].at \in DOMAIN Found
                           /\ Public(job'[s].at)
                           /\ manifest'[s][Found[job'[s].at]] = job'[s].version
                      /\ job'[s].step = "done" => job'[s].at > Len(Found)
    BY DEF JobInv, Public
  <2>0. HasDone(s)
    BY DEF WInv, JobInv
  <2>1. CASE s # r
    <3>1. job'[s] = job[s]
      BY <2>1, <1>3
    <3>2. HasDone(s)'
      BY <2>0, <3>1, <1>6 DEF HasDone, Public
    <3> QED BY <3>1, <3>2 DEF WInv, JobInv
  <2>2. CASE s = r
    <3>1. HasDone(r)'
      <4> SUFFICES ASSUME NEW j \in DOMAIN Found, j < i, Public(j)
                   PROVE  \E p \in registry' : p.name = Found[j] /\ p.version = job[r].version
                            /\ p.by = r /\ p.needs = job[r].version
        BY <1>3 DEF HasDone, Public
      <4>1. j < job[r].at \/ j = job[r].at
        BY <1>4, FoundFacts
      <4>2. CASE j < job[r].at
        BY <2>0, <2>2, <4>2, <1>2, <1>6 DEF HasDone
      <4>3. CASE j = job[r].at
        BY <4>3, <1>5, <1>6
      <4> QED BY <4>1, <4>2, <4>3
    <3> QED BY <2>2, <1>3, <3>1
  <2> QED BY <2>1, <2>2
<1>9. RegistryInv'
  <2> SUFFICES ASSUME NEW p \in registry'
               PROVE  /\ job'[p.by].version = p.version
                      /\ job'[p.by].step # "new"
                      /\ p.needs = p.version
                      /\ \E j \in DOMAIN Found : Found[j] = p.name /\ Public(j)
                                                   /\ j <= job'[p.by].at
    BY DEF RegistryInv, Public
  <2>1. CASE p \in registry
    <3>1. p.by \in Runs
      BY <1>1, <2>1 DEF Published
    <3>2. /\ job[p.by].version = p.version
          /\ job[p.by].step # "new"
          /\ p.needs = p.version
      BY <2>1 DEF WInv, RegistryInv
    <3>3. PICK j \in DOMAIN Found : Found[j] = p.name /\ Public(j) /\ j <= job[p.by].at
      BY <2>1 DEF WInv, RegistryInv
    <3>4. j <= job'[p.by].at
      <4>1. j \in Nat
        BY FoundFacts
      <4>2. CASE p.by = r
        BY <3>3, <1>3, <1>4, <4>1, <4>2
      <4>3. CASE p.by # r
        BY <3>1, <3>3, <1>3, <4>3
      <4> QED BY <4>2, <4>3
    <3>5. job'[p.by].version = job[p.by].version /\ job'[p.by].step # "new"
      BY <3>1, <3>2, <1>3
    <3> QED BY <3>2, <3>3, <3>4, <3>5
  <2>2. CASE p = new
    <3>1. p.by = r /\ p.name = Found[job[r].at] /\ p.version = job[r].version
          /\ p.needs = job[r].version
      BY <2>2, <1>5
    <3>2. job[r].at <= job'[r].at /\ job'[r].step # "new"
      BY <1>3, <1>4
    <3> QED BY <3>1, <3>2, <1>2, <1>3
  <2> QED BY <2>1, <2>2, <1>6
<1>10. Unique'
  <2>1. \A p \in registry : ~(p.name = new.name /\ p.version = new.version)
    BY <1>5 DEF Taken, new
  <2> QED BY <2>1, <1>6 DEF WInv, Unique
<1> QED BY <1>7, <1>8, <1>9, <1>10 DEF WInv

LEMMA WNext == WInv /\ [WorkspacesNext]_workspaceVars => WInv'
<1> SUFFICES ASSUME WInv, [WorkspacesNext]_workspaceVars PROVE WInv'
  OBVIOUS
<1>0. /\ job \in [Runs -> [version : Versions \cup {NoVersion}, at : 1..Len(Found) + 1,
                           step : JobSteps]]
      /\ manifest \in [Runs -> [Names -> Versions \cup {NoVersion}]]
      /\ registry \subseteq Published
  BY DEF WInv, WorkspacesTypeOK
<1>1. ASSUME NEW r \in Runs, NEW version \in Versions \cup {NoVersion}, StartJob(r, version)
      PROVE  WInv'
  <2>1. /\ job[r].step = "new"
        /\ job' = [job EXCEPT ![r] = [version |-> version, at |-> 1, step |-> "looking"]]
        /\ manifest' = manifest /\ registry' = registry
    BY <1>1 DEF StartJob
  <2>2. /\ job'[r] = [version |-> version, at |-> 1, step |-> "looking"]
        /\ \A s \in Runs \ {r} : job'[s] = job[s]
    BY <1>0, <2>1
  <2>3. WorkspacesTypeOK'
    BY <1>0, <2>1, FoundFacts DEF WorkspacesTypeOK, JobSteps
  <2>4. \A s \in Runs \ {r} : HasDone(s)'
    <3> SUFFICES ASSUME NEW s \in Runs \ {r} PROVE HasDone(s)'
      OBVIOUS
    <3>1. HasDone(s) /\ job'[s] = job[s] /\ registry' = registry
      BY <2>1, <2>2 DEF WInv, JobInv
    <3> QED BY <3>1 DEF HasDone, Public
  <2>5. HasDone(r)'
    BY <2>2, FoundFacts DEF HasDone, Public
  <2>6. JobInv'
    <3> SUFFICES ASSUME NEW s \in Runs
                 PROVE  /\ HasDone(s)'
                        /\ job'[s].step = "publishing" =>
                             /\ job'[s].version # NoVersion
                             /\ job'[s].at \in DOMAIN Found
                             /\ Public(job'[s].at)
                             /\ manifest'[s][Found[job'[s].at]] = job'[s].version
                        /\ job'[s].step = "done" => job'[s].at > Len(Found)
      BY DEF JobInv, Public
    <3>1. CASE s = r
      BY <3>1, <2>2, <2>5
    <3>2. CASE s # r
      <4>1. job'[s] = job[s] /\ manifest' = manifest
        BY <3>2, <2>1, <2>2
      <4> QED BY <3>2, <4>1, <2>4 DEF WInv, JobInv
    <3> QED BY <3>1, <3>2
  <2>7. RegistryInv'
    <3> SUFFICES ASSUME NEW p \in registry
                 PROVE  /\ job'[p.by].version = p.version
                        /\ job'[p.by].step # "new"
                        /\ p.needs = p.version
                        /\ \E i \in DOMAIN Found : Found[i] = p.name /\ Public(i)
                                                     /\ i <= job'[p.by].at
      BY <2>1 DEF RegistryInv, Public
    <3>1. p.by \in Runs \ {r}
      BY <1>0, <2>1 DEF Published, WInv, RegistryInv
    <3> QED BY <3>1, <2>2 DEF WInv, RegistryInv
  <2>8. Unique'
    BY <2>1 DEF WInv, Unique
  <2> QED BY <2>3, <2>6, <2>7, <2>8 DEF WInv
<1>2. ASSUME NEW r \in Runs, Skip(r) PROVE WInv'
  <2>1. job[r].at + 1 \in 1..Len(Found) + 1
    BY <1>0, <1>2, FoundFacts DEF Skip
  <2>2. "looking" \in JobSteps \ {"new"}
    BY DEF JobSteps
  <2>3. /\ job[r].step = "looking"
        /\ job[r].version = NoVersion \/ ~Public(job[r].at)
        /\ job' = [job EXCEPT ![r].at = job[r].at + 1, ![r].step = "looking"]
        /\ manifest' = manifest /\ registry' = registry
    BY <1>2 DEF Skip, To
  <2> QED BY <2>1, <2>2, <2>3, <1>0, MovedJob
<1>3. ASSUME NEW r \in Runs, UpdateDependencies(r) PROVE WInv'
  <2>1. /\ job[r].step = "looking" /\ job[r].version # NoVersion
        /\ job[r].at <= Len(Found)
        /\ Public(job[r].at)
        /\ manifest' = [manifest EXCEPT ![r][Found[job[r].at]] = job[r].version]
        /\ job' = [job EXCEPT ![r].at = job[r].at, ![r].step = "publishing"]
        /\ registry' = registry
    BY <1>3 DEF UpdateDependencies, To
  <2>2. /\ job[r].at \in 1..Len(Found) + 1
        /\ job[r].at \in DOMAIN Found
        /\ Found[job[r].at] \in Names
        /\ job[r].at # job[r].at + 1
    BY <2>1, <1>0, FoundFacts
  <2>3. "publishing" \in JobSteps \ {"new"}
    BY DEF JobSteps
  <2>4. /\ manifest' \in [Runs -> [Names -> Versions \cup {NoVersion}]]
        /\ \A s \in Runs \ {r} : manifest'[s] = manifest[s]
        /\ manifest'[r][Found[job[r].at]] = job[r].version
    BY <2>1, <2>2, <1>0
  <2> QED BY <2>1, <2>2, <2>3, <2>4, MovedJob
<1>4. ASSUME NEW r \in Runs, Publish(r) PROVE WInv'
  BY <1>4, PublishedPackage DEF Publish, To
<1>5. ASSUME NEW r \in Runs, FailJob(r) PROVE WInv'
  <2>1. /\ job[r].step \in {"looking", "publishing"}
        /\ job' = [job EXCEPT ![r].at = job[r].at, ![r].step = "failed"]
        /\ manifest' = manifest
    BY <1>5 DEF FailJob, To
  <2>2. CASE registry' = registry
    <3>1. job[r].at \in 1..Len(Found) + 1 /\ job[r].at # job[r].at + 1
      BY <1>0, FoundFacts
    <3>2. "failed" \in JobSteps \ {"new"}
      BY DEF JobSteps
    <3> QED BY <2>1, <2>2, <3>1, <3>2, <1>0, MovedJob
  <2>3. CASE /\ job[r].step = "publishing"
             /\ ~Taken(Package(r).name, job[r].version)
             /\ registry' = registry \cup {Package(r)}
    BY <2>1, <2>3, PublishedPackage
  <2> QED BY <1>5, <2>2, <2>3 DEF FailJob
<1>6. ASSUME NEW r \in Runs, EndJob(r) PROVE WInv'
  <2>1. /\ job[r].step = "looking"
        /\ job[r].at > Len(Found)
        /\ job' = [job EXCEPT ![r].at = job[r].at, ![r].step = "done"]
        /\ manifest' = manifest /\ registry' = registry
    BY <1>6 DEF EndJob, To
  <2>2. job[r].at \in 1..Len(Found) + 1 /\ job[r].at # job[r].at + 1
    BY <1>0, FoundFacts
  <2>3. "done" \in JobSteps \ {"new"}
    BY DEF JobSteps
  <2> QED BY <2>1, <2>2, <2>3, <1>0, MovedJob
<1>7. CASE UNCHANGED workspaceVars
  BY <1>7 DEF workspaceVars, WInv, WorkspacesTypeOK, JobInv, HasDone, RegistryInv, Unique, Public
<1> QED BY <1>1, <1>2, <1>3, <1>4, <1>5, <1>6, <1>7 DEF WorkspacesNext

-----------------------------------------------------------------------------
(* The commands.                                                           *)

\* A command that has not written an application.json, but may.
Fresh(c) ==
  \/ command[c].step = "new"
  \/ command[c].step = "application" /\ "application.json" \in command[c].left

\* A command that has put its microservice into this application.json.
Made(c) ==
  \/ command[c].step \in Writing
  \/ /\ command[c].step = "done" /\ command[c].application # Nothing
     /\ application # Nothing /\ command[c].application = application.id

Shape(c) ==
  /\ command[c].step \in {"new", "application"} =>
       command[c].name = Nothing /\ command[c].application = Nothing /\ command[c].id = <<c, "id">>
  /\ command[c].step = "new" => ~command[c].portal
  /\ command[c].step = "microservice" => command[c].application = Nothing
  /\ command[c].step = "application" =>
       /\ command[c].left \in (SUBSET AppFiles) \ {{}}
       /\ "application.json" \notin command[c].left => application # Nothing
  /\ command[c].step \in {"microservice", "appending", "saving"} \cup Writing =>
       /\ command[c].name \in MicroserviceNames
       /\ command[c].portal => application # Nothing
  /\ command[c].step \in {"appending", "saving"} \cup Writing =>
       command[c].application # Nothing /\ application # Nothing
  /\ command[c].step = "saving" => command[c].read # Nothing
  /\ command[c].step = "backend" => command[c].left \in (SUBSET Backend) \ {{}}
  /\ command[c].step = "web" => command[c].ui
  /\ command[c].step = "portal" => command[c].ui /\ command[c].portal
  /\ command[c].step = "done" =>
       \/ command[c].name \in MicroserviceNames /\ command[c].application # Nothing
       \/ command[c].name = Nothing /\ command[c].application = Nothing /\ ~command[c].portal
  /\ command[c].portal /\ command[c].step \in {"microservice", "appending", "saving", "done"} \cup Writing
       => command[c].ui /\ command[c].name = Portal /\ command[c].id = <<c, "portalId">>

\* The id of an application that is not made yet is nowhere.
FreshIds ==
  \A c \in Commands : Fresh(c) =>
    /\ application # Nothing => application.id # <<c, "id">>
    /\ \A d \in Commands : command[d].application # <<c, "id">>
    /\ \A n \in Directories, f \in Files :
         files[n][f] # Nothing => files[n][f].application # <<c, "id">>

\* What a command has read is still so.
CopyIsCurrent ==
  \A c \in Commands :
    /\ command[c].step \in {"appending", "saving"} => command[c].application = application.id
    /\ command[c].step = "saving" =>
         command[c].read = application /\ command[c].name \notin application.microservices

MadeIsListed ==
  \A c \in Commands : Made(c) =>
    /\ application # Nothing
    /\ command[c].application = application.id
    /\ command[c].name \in application.microservices

OneMaker == \A c, d \in Commands : Made(c) /\ Made(d) /\ c # d => command[c].name # command[d].name

Listed ==
  application # Nothing =>
    \A d \in Directories, f \in Files :
      files[d][f] # Nothing /\ files[d][f].application = application.id
        => \E n \in application.microservices : Directory[n] = d

Mine(c, f) ==
  LET file == files[DirectoryOf(c)][f]
  IN  file # Nothing /\ file.id = command[c].id /\ file.application = command[c].application

\* Unless another microservice that is listed has its directory.
OwnFiles ==
  \A c \in Commands : Made(c) /\ ~SharesDirectory(command[c].name) =>
    /\ \A f \in Backend : (command[c].step = "backend" => f \notin command[c].left) => Mine(c, f)
    /\ (command[c].step = "done" => command[c].ui) /\ command[c].step \in {"portal", "done"}
         => Mine(c, "App.tsx")
    /\ command[c].step = "done" /\ command[c].portal =>
         files[DirectoryOf(c)]["App.tsx"].template = "portal"

ListedIsMade ==
  application # Nothing =>
    \A n \in application.microservices :
      \E c \in Commands : command[c].name = n /\ (Made(c) \/ command[c].step = "stopped")

ApplicationIsMade ==
  application # Nothing =>
    \E c \in Commands :
      /\ application.id = <<c, "id">>
      /\ ~Fresh(c)
      /\ application.portal = command[c].portal
      /\ command[c].application \in {Nothing, application.id}

RefusedPortals ==
  \A c \in Commands :
    command[c].step = "refused" /\ command[c].portal =>
      command[c].left # {} \/ \E d \in Commands \ {c} : command[d].name = Portal

Linked ==
  /\ FreshIds /\ CopyIsCurrent /\ MadeIsListed /\ OneMaker /\ Listed
  /\ OwnFiles /\ ListedIsMade /\ ApplicationIsMade /\ RefusedPortals

SInv ==
  /\ ScaffoldingTypeOK
  /\ \A c \in Commands : Shape(c)
  /\ crossed = {} => Linked

LEMMA SInit == ScaffoldingInit => SInv
<1> SUFFICES ASSUME ScaffoldingInit PROVE SInv
  OBVIOUS
<1>1. /\ command = [c \in Commands |->
            [step |-> "new", forced |-> FALSE, ui |-> FALSE, portal |-> FALSE,
             name |-> Nothing, id |-> <<c, "id">>, application |-> Nothing, read |-> Nothing,
             left |-> {}]]
      /\ application = Nothing /\ crossed = {} /\ shared = FALSE
      /\ files = [d \in Directories |-> [f \in Files |-> Nothing]]
  BY DEF ScaffoldingInit
<1>2. \A c \in Commands :
        /\ command[c].step = "new" /\ command[c].name = Nothing /\ ~command[c].portal
        /\ command[c].application = Nothing /\ command[c].id = <<c, "id">>
        /\ command[c] \in Answers
  BY <1>1 DEF Answers, CommandSteps, Ids
<1>3. ScaffoldingTypeOK
  BY <1>1, <1>2 DEF ScaffoldingTypeOK
<1>4. \A c \in Commands : Shape(c)
  BY <1>2 DEF Shape, Writing
<1>5. Linked
  <2>1. FreshIds
    BY <1>1, <1>2, NothingAssumption DEF FreshIds, Ids
  <2>2. \A c \in Commands : ~Made(c)
    BY <1>2 DEF Made, Writing
  <2>3. CopyIsCurrent /\ RefusedPortals
    BY <1>2 DEF CopyIsCurrent, RefusedPortals
  <2>4. MadeIsListed /\ OneMaker /\ OwnFiles
    BY <2>2 DEF MadeIsListed, OneMaker, OwnFiles
  <2>5. Listed /\ ListedIsMade /\ ApplicationIsMade
    BY <1>1 DEF Listed, ListedIsMade, ApplicationIsMade
  <2> QED BY <2>1, <2>3, <2>4, <2>5 DEF Linked
<1> QED BY <1>3, <1>4, <1>5 DEF SInv

\* A command goes on by itself: it neither writes a file nor puts its microservice
\* into application.json.
LEMMA QuietStep ==
  ASSUME SInv,
         NEW c \in Commands,
         NEW answers \in Answers,
         command' = [command EXCEPT ![c] = answers],
         application' = application, files' = files, crossed' = crossed,
         shared' \in BOOLEAN,
         Shape(c)',
         answers.step \notin Writing,
         answers.step = "done" => answers.application = Nothing,
         command[c].step # "stopped",
         Made(c) => answers.step = "stopped",
         command[c].name # Nothing => answers.name = command[c].name,
         command[c].step # "new" => answers.portal = command[c].portal,
         answers.step # "new",
         answers.step = "application" /\ "application.json" \in answers.left => Fresh(c),
         \/ answers.application = command[c].application
         \/ application # Nothing /\ answers.application = application.id,
         answers.step = "appending" => answers.application = application.id,
         crossed = {} /\ answers.step = "saving" =>
           /\ answers.application = application.id
           /\ answers.read = application /\ answers.name \notin application.microservices,
         crossed = {} /\ answers.step = "refused" /\ answers.portal =>
           answers.left # {} \/ \E d \in Commands \ {c} : command[d].name = Portal
  PROVE  SInv'
<1>1. /\ command \in [Commands -> Answers]
      /\ application \in Applications \cup {Nothing}
      /\ files \in [Directories -> [Files -> Contents \cup {Nothing}]]
      /\ crossed \subseteq Commands
  BY DEF SInv, ScaffoldingTypeOK
<1>2. command'[c] = answers /\ \A d \in Commands \ {c} : command'[d] = command[d]
  BY <1>1
<1>3. ScaffoldingTypeOK'
  BY <1>1 DEF ScaffoldingTypeOK
<1>4. \A d \in Commands : Shape(d)'
  <2> SUFFICES ASSUME NEW d \in Commands \ {c} PROVE Shape(d)'
    OBVIOUS
  <2>1. Shape(d) /\ command'[d] = command[d] /\ application' = application
    BY <1>2 DEF SInv
  <2> QED BY ONLY <2>1 DEF Shape, Writing, Backend, AppFiles
<1>5. ASSUME crossed = {} PROVE Linked'
  <2>0. /\ FreshIds /\ CopyIsCurrent /\ MadeIsListed /\ OneMaker /\ Listed
        /\ OwnFiles /\ ListedIsMade /\ ApplicationIsMade /\ RefusedPortals
    BY <1>5 DEF SInv, Linked
  <2>1. /\ \A d \in Commands \ {c} : Made(d)' <=> Made(d)
        /\ ~Made(c)'
    <3>1. ~Made(c)'
      BY <1>2 DEF Made, Writing
    <3>2. ASSUME NEW d \in Commands \ {c} PROVE Made(d)' <=> Made(d)
      <4>1. command'[d] = command[d] /\ application' = application
        BY <1>2
      <4> QED BY ONLY <4>1 DEF Made, Writing
    <3> QED BY <3>1, <3>2
  <2>2. \A d \in Commands : Fresh(d)' => Fresh(d)
    BY <1>2 DEF Fresh
  <2>3. FreshIds'
    <3> SUFFICES ASSUME NEW d \in Commands, Fresh(d)'
                 PROVE  /\ application # Nothing => application.id # <<d, "id">>
                        /\ \A e \in Commands : command'[e].application # <<d, "id">>
                        /\ \A n \in Directories, f \in Files :
                             files[n][f] # Nothing => files[n][f].application # <<d, "id">>
      BY DEF FreshIds
    <3>1. /\ application # Nothing => application.id # <<d, "id">>
          /\ \A e \in Commands : command[e].application # <<d, "id">>
          /\ \A n \in Directories, f \in Files :
               files[n][f] # Nothing => files[n][f].application # <<d, "id">>
      BY <2>0, <2>2 DEF FreshIds
    <3> QED BY <3>1, <1>2
  <2>4. CopyIsCurrent'
    <3> SUFFICES ASSUME NEW d \in Commands
                 PROVE  /\ command'[d].step \in {"appending", "saving"}
                              => command'[d].application = application.id
                        /\ command'[d].step = "saving" =>
                             /\ command'[d].read = application
                             /\ command'[d].name \notin application.microservices
      BY DEF CopyIsCurrent
    <3>1. CASE d = c
      BY <3>1, <1>2, <1>5
    <3>2. CASE d # c
      BY <3>2, <1>2, <2>0 DEF CopyIsCurrent
    <3> QED BY <3>1, <3>2
  <2>5. MadeIsListed'
    <3> SUFFICES ASSUME NEW d \in Commands, Made(d)'
                 PROVE  /\ application # Nothing
                        /\ command'[d].application = application.id
                        /\ command'[d].name \in application.microservices
      BY DEF MadeIsListed
    <3> QED BY <2>1, <1>2, <2>0 DEF MadeIsListed
  <2>6. OneMaker'
    BY <2>1, <1>2, <2>0 DEF OneMaker
  <2>7. Listed'
    BY <2>0 DEF Listed
  <2>8. OwnFiles'
    <3> SUFFICES ASSUME NEW d \in Commands, Made(d)', ~SharesDirectory(command[d].name)', d # c
                 PROVE  /\ \A f \in Backend :
                             (command'[d].step = "backend" => f \notin command'[d].left) => Mine(d, f)'
                        /\ (command'[d].step = "done" => command'[d].ui)
                              /\ command'[d].step \in {"portal", "done"} => Mine(d, "App.tsx")'
                        /\ command'[d].step = "done" /\ command'[d].portal =>
                             files[DirectoryOf(d)']["App.tsx"].template = "portal"
      BY <2>1 DEF OwnFiles
    <3>1. Made(d) /\ command'[d] = command[d] /\ ~SharesDirectory(command[d].name)
      BY <2>1, <1>2 DEF SharesDirectory
    <3>2. (\A f : Mine(d, f)' <=> Mine(d, f)) /\ DirectoryOf(d)' = DirectoryOf(d)
      BY <3>1 DEF Mine, DirectoryOf
    <3> QED BY <3>1, <3>2, <2>0 DEF OwnFiles
  <2>9. ListedIsMade'
    <3> SUFFICES ASSUME application # Nothing, NEW n \in application.microservices
                 PROVE  \E d \in Commands : command'[d].name = n /\ (Made(d)' \/ command'[d].step = "stopped")
      BY DEF ListedIsMade
    <3>1. PICK d \in Commands : command[d].name = n /\ (Made(d) \/ command[d].step = "stopped")
      BY <2>0 DEF ListedIsMade
    <3>2. CASE d # c
      BY <3>1, <3>2, <1>2, <2>1
    <3>3. CASE d = c
      <4>1. n \in MicroserviceNames
        BY <1>1 DEF Applications
      <4>2. answers.name = n /\ answers.step = "stopped"
        BY <3>1, <3>3, <4>1, NothingAssumption
      <4> QED BY <3>3, <4>2, <1>2
    <3> QED BY <3>2, <3>3
  <2>10. ApplicationIsMade'
    <3> SUFFICES ASSUME application # Nothing
                 PROVE  \E d \in Commands :
                          /\ application.id = <<d, "id">>
                          /\ ~Fresh(d)'
                          /\ application.portal = command'[d].portal
                          /\ command'[d].application \in {Nothing, application.id}
      BY DEF ApplicationIsMade
    <3>1. PICK d \in Commands :
            /\ application.id = <<d, "id">>
            /\ ~Fresh(d)
            /\ application.portal = command[d].portal
            /\ command[d].application \in {Nothing, application.id}
      BY <2>0 DEF ApplicationIsMade
    <3>2. command'[d].portal = command[d].portal
      BY <3>1, <1>2 DEF Fresh
    <3>3. command'[d].application \in {Nothing, application.id}
      BY <3>1, <1>2
    <3> QED BY <3>1, <3>2, <3>3, <2>2
  <2>11. RefusedPortals'
    <3> SUFFICES ASSUME NEW d \in Commands, command'[d].step = "refused", command'[d].portal
                 PROVE  command'[d].left # {} \/ \E e \in Commands \ {d} : command'[e].name = Portal
      BY DEF RefusedPortals
    <3>0. Portal # Nothing
      BY NothingAssumption, ScaffoldingAssumption
    <3>1. CASE d = c
      BY <3>1, <1>2, <1>5
    <3>2. CASE d # c
      <4>1. command[d].left # {} \/ \E e \in Commands \ {d} : command[e].name = Portal
        BY <3>2, <1>2, <2>0 DEF RefusedPortals
      <4> QED BY <3>0, <3>2, <4>1, <1>2
    <3> QED BY <3>1, <3>2
  <2> QED BY <2>3, <2>4, <2>5, <2>6, <2>7, <2>8, <2>9, <2>10, <2>11 DEF Linked
<1> QED BY <1>3, <1>4, <1>5 DEF SInv

\* A command that has put its microservice into application.json writes a file of it.
LEMMA FileStep ==
  ASSUME SInv,
         NEW c \in Commands, command[c].step \in Writing,
         NEW answers \in Answers, answers.step \in Writing \cup {"done"},
         command' = [command EXCEPT ![c] = answers],
         NEW file \in Files, NEW template \in {"backend", "web", "portal"},
         files' = [files EXCEPT ![DirectoryOf(c)][file] =
                     [id |-> command[c].id, application |-> command[c].application,
                      template |-> template]],
         application' = application, crossed' = crossed, shared' = shared,
         Shape(c)',
         answers.name = command[c].name, answers.application = command[c].application,
         answers.id = command[c].id, answers.ui = command[c].ui,
         answers.portal = command[c].portal,
         \A f \in Backend : (answers.step = "backend" => f \notin answers.left) =>
           f = file \/ (command[c].step = "backend" => f \notin command[c].left),
         (answers.step = "done" => answers.ui) /\ answers.step \in {"portal", "done"} => file = "App.tsx",
         answers.step = "done" /\ answers.portal => file = "App.tsx" /\ template = "portal"
  PROVE  SInv'
<1>1. /\ command \in [Commands -> Answers]
      /\ application \in Applications \cup {Nothing}
      /\ shared \in BOOLEAN
      /\ files \in [Directories -> [Files -> Contents \cup {Nothing}]]
      /\ crossed \subseteq Commands
  BY DEF SInv, ScaffoldingTypeOK
<1>2. command'[c] = answers /\ \A d \in Commands \ {c} : command'[d] = command[d]
  BY <1>1
<1>3. /\ command[c].name \in MicroserviceNames
      /\ command[c].application # Nothing /\ application # Nothing
  BY DEF SInv, Shape
<1> DEFINE new == [id |-> command[c].id, application |-> command[c].application,
                   template |-> template]
<1>4. new \in Contents /\ new # Nothing
  <2>1. command[c].id \in Ids /\ command[c].application \in Ids
    BY <1>1, <1>3 DEF Answers
  <2>2. new \in Contents
    BY <2>1 DEF Contents
  <2> QED BY <2>2, NothingAssumption
<1>5. /\ new.id = command[c].id /\ new.application = command[c].application
      /\ new.template = template
  OBVIOUS
<1>6. files' = [files EXCEPT ![DirectoryOf(c)][file] = new]
  OBVIOUS
<1>11. DirectoryOf(c) \in Directories
  BY <1>3, ScaffoldingAssumption DEF DirectoryOf
<1> HIDE DEF new
<1>7. /\ files'[DirectoryOf(c)][file] = new
      /\ \A n \in Directories, f \in Files :
           n # DirectoryOf(c) \/ f # file => files'[n][f] = files[n][f]
  BY <1>1, <1>6, <1>11
<1>8. ScaffoldingTypeOK'
  BY <1>1, <1>4, <1>6, <1>11 DEF ScaffoldingTypeOK
<1>9. \A d \in Commands : Shape(d)'
  <2> SUFFICES ASSUME NEW d \in Commands \ {c} PROVE Shape(d)'
    OBVIOUS
  <2>1. Shape(d) /\ command'[d] = command[d] /\ application' = application
    BY <1>2 DEF SInv
  <2> QED BY ONLY <2>1 DEF Shape, Writing, Backend, AppFiles
<1>10. ASSUME crossed = {} PROVE Linked'
  <2>0. /\ FreshIds /\ CopyIsCurrent /\ MadeIsListed /\ OneMaker /\ Listed
        /\ OwnFiles /\ ListedIsMade /\ ApplicationIsMade /\ RefusedPortals
    BY <1>10 DEF SInv, Linked
  <2>1. Made(c)
    BY DEF Made
  <2>2. command[c].application = application.id /\ command[c].name \in application.microservices
    BY <2>0, <2>1 DEF MadeIsListed
  <2>3. Made(c)'
    BY <1>2, <1>3, <2>2 DEF Made
  <2>4. \A d \in Commands : Made(d)' <=> Made(d)
    <3>1. ASSUME NEW d \in Commands \ {c} PROVE Made(d)' <=> Made(d)
      <4>1. command'[d] = command[d] /\ application' = application
        BY <1>2
      <4> QED BY ONLY <4>1 DEF Made, Writing
    <3> QED BY <3>1, <2>1, <2>3
  <2>5. \A d \in Commands : Fresh(d)' <=> Fresh(d)
    BY <1>2 DEF Fresh, Writing
  <2>6. FreshIds'
    <3> SUFFICES ASSUME NEW d \in Commands, Fresh(d)'
                 PROVE  /\ application # Nothing => application.id # <<d, "id">>
                        /\ \A e \in Commands : command'[e].application # <<d, "id">>
                        /\ \A n \in Directories, f \in Files :
                             files'[n][f] # Nothing => files'[n][f].application # <<d, "id">>
      BY DEF FreshIds
    <3>1. /\ application # Nothing => application.id # <<d, "id">>
          /\ \A e \in Commands : command[e].application # <<d, "id">>
          /\ \A n \in Directories, f \in Files :
               files[n][f] # Nothing => files[n][f].application # <<d, "id">>
      BY <2>0, <2>5 DEF FreshIds
    <3>2. new.application # <<d, "id">>
      BY <3>1, <1>5
    <3> QED BY <3>1, <3>2, <1>2, <1>7
  <2>7. CopyIsCurrent'
    <3> SUFFICES ASSUME NEW d \in Commands
                 PROVE  /\ command'[d].step \in {"appending", "saving"}
                              => command'[d].application = application.id
                        /\ command'[d].step = "saving" =>
                             /\ command'[d].read = application
                             /\ command'[d].name \notin application.microservices
      BY DEF CopyIsCurrent
    <3>1. CASE d = c
      BY <3>1, <1>2 DEF Writing
    <3>2. CASE d # c
      BY <3>2, <1>2, <2>0 DEF CopyIsCurrent
    <3> QED BY <3>1, <3>2
  <2>8. \A d \in Commands : /\ command'[d].name = command[d].name
                            /\ command'[d].application = command[d].application
                            /\ command'[d].portal = command[d].portal
                            /\ command'[d].id = command[d].id
    BY <1>2
  <2>9. MadeIsListed' /\ OneMaker'
    BY <2>0, <2>4, <2>8 DEF MadeIsListed, OneMaker
  <2>10. Listed'
    <3> SUFFICES ASSUME NEW d \in Directories, NEW f \in Files,
                        files'[d][f] # Nothing, files'[d][f].application = application.id
                 PROVE  \E n \in application.microservices : Directory[n] = d
      BY DEF Listed
    <3>1. CASE d = DirectoryOf(c) /\ f = file
      BY <3>1, <2>2 DEF DirectoryOf
    <3>2. CASE ~(d = DirectoryOf(c) /\ f = file)
      BY <3>2, <1>3, <1>7, <2>0 DEF Listed
    <3> QED BY <3>1, <3>2
  <2>11. OwnFiles'
    <3> SUFFICES ASSUME NEW d \in Commands, Made(d), ~SharesDirectory(command[d].name)
                 PROVE  /\ \A f \in Backend :
                             (command'[d].step = "backend" => f \notin command'[d].left) => Mine(d, f)'
                        /\ (command'[d].step = "done" => command'[d].ui)
                              /\ command'[d].step \in {"portal", "done"} => Mine(d, "App.tsx")'
                        /\ command'[d].step = "done" /\ command'[d].portal =>
                             files'[DirectoryOf(d)']["App.tsx"].template = "portal"
      <4>1. \A d \in Commands : SharesDirectory(command[d].name)' <=> SharesDirectory(command[d].name)
        BY <2>8 DEF SharesDirectory
      <4> QED BY <2>4, <4>1 DEF OwnFiles
    <3>0. \A e \in Commands : DirectoryOf(e)' = DirectoryOf(e)
      BY <2>8 DEF DirectoryOf
    <3>1. DirectoryOf(d) \in Directories
      <4>1. command[d].name \in MicroserviceNames
        BY <2>0, <1>1, <1>3 DEF MadeIsListed, Applications
      <4> QED BY <4>1, ScaffoldingAssumption DEF DirectoryOf
    <3>2. "App.tsx" \in Files /\ Backend \subseteq Files
      BY DEF Files, Backend
    <3>3. /\ \A f \in Backend :
               (command[d].step = "backend" => f \notin command[d].left) => Mine(d, f)
          /\ (command[d].step = "done" => command[d].ui)
                /\ command[d].step \in {"portal", "done"} => Mine(d, "App.tsx")
          /\ command[d].step = "done" /\ command[d].portal =>
               files[DirectoryOf(d)]["App.tsx"].template = "portal"
      BY <2>0 DEF OwnFiles
    <3>4. CASE d # c
      <4>0. command[d].name # command[c].name
        BY <3>4, <2>0, <2>1 DEF OneMaker
      <4>1. DirectoryOf(d) # DirectoryOf(c)
        BY <4>0, <2>2 DEF SharesDirectory, DirectoryOf
      <4>2. command'[d] = command[d]
        BY <3>4, <1>2
      <4>3. \A f \in Files : files'[DirectoryOf(d)][f] = files[DirectoryOf(d)][f]
        BY <4>1, <3>1, <1>7
      <4>4. \A f \in Files : Mine(d, f)' <=> Mine(d, f)
        BY <4>2, <4>3, <3>0 DEF Mine
      <4> QED BY <3>0, <3>2, <3>3, <4>2, <4>3, <4>4
    <3>5. CASE d = c
      <4>1. Mine(c, file)'
        BY <1>2, <1>4, <1>5, <1>7, <3>0 DEF Mine
      <4>2. \A f \in Files : Mine(c, f) => Mine(c, f)'
        <5> SUFFICES ASSUME NEW f \in Files, f # file, Mine(c, f) PROVE Mine(c, f)'
          BY <4>1
        <5>1. files'[DirectoryOf(c)][f] = files[DirectoryOf(c)][f]
          BY <1>7, <1>11
        <5>2. command'[c].name = command[c].name /\ command'[c].id = command[c].id
              /\ command'[c].application = command[c].application
          BY <2>8
        <5> QED BY <5>1, <5>2, <3>0 DEF Mine
      <4>3. \A f \in Backend :
              (command'[c].step = "backend" => f \notin command'[c].left) => Mine(c, f)'
        BY <1>2, <3>2, <3>3, <3>5, <4>1, <4>2
      <4>4. (command'[c].step = "done" => command'[c].ui)
                /\ command'[c].step \in {"portal", "done"} => Mine(c, "App.tsx")'
        BY <1>2, <4>1
      <4>5. command'[c].step = "done" /\ command'[c].portal =>
               files'[DirectoryOf(c)']["App.tsx"].template = "portal"
        BY <1>2, <1>5, <1>7, <3>0
      <4> QED BY <3>5, <4>3, <4>4, <4>5
    <3> QED BY <3>4, <3>5
  <2>12. ListedIsMade'
    <3>1. \A d \in Commands : command[d].step = "stopped" => command'[d].step = "stopped"
      BY <1>2 DEF Writing
    <3> QED BY <3>1, <2>0, <2>4, <2>8 DEF ListedIsMade
  <2>13. ApplicationIsMade'
    BY <2>0, <2>5, <2>8 DEF ApplicationIsMade
  <2>14. RefusedPortals'
    <3>1. \A d \in Commands : command'[d].step = "refused" => command'[d] = command[d]
      BY <1>2 DEF Writing
    <3> QED BY <3>1, <2>0, <2>8 DEF RefusedPortals
  <2> QED BY <2>6, <2>7, <2>9, <2>10, <2>11, <2>12, <2>13, <2>14 DEF Linked
<1> QED BY <1>8, <1>9, <1>10 DEF SInv

\* When a command saves its copy and no other has read the file, the copy is current.
LEMMA SaveStep ==
  ASSUME SInv, NEW c \in Commands, Save(c)
  PROVE  SInv'
<1>1. /\ command \in [Commands -> Answers]
      /\ application \in Applications \cup {Nothing}
      /\ shared \in BOOLEAN
      /\ files \in [Directories -> [Files -> Contents \cup {Nothing}]]
      /\ crossed \subseteq Commands
  BY DEF SInv, ScaffoldingTypeOK
<1> DEFINE answers == [command[c] EXCEPT !.step = "backend", !.read = Nothing, !.left = Backend]
<1>2. /\ command[c].step = "saving"
      /\ application' = [command[c].read EXCEPT !.microservices = @ \cup {command[c].name}]
      /\ command' = [command EXCEPT ![c] = answers]
      /\ crossed' = crossed \cup
           {d \in Commands \ {c} : command[d].step \in {"appending", "saving"}}
      /\ shared' = shared /\ files' = files
  BY DEF Save
<1>3. /\ command[c].read # Nothing /\ command[c].application # Nothing
      /\ command[c].name \in MicroserviceNames
  BY <1>2 DEF SInv, Shape
<1>4. command[c].read \in Applications
  BY <1>1, <1>3 DEF Answers
<1>5. /\ application' \in Applications /\ application' # Nothing
      /\ application'.id = command[c].read.id /\ application'.portal = command[c].read.portal
      /\ application'.microservices = command[c].read.microservices \cup {command[c].name}
  <2>1. /\ application' \in Applications
        /\ application'.id = command[c].read.id /\ application'.portal = command[c].read.portal
        /\ application'.microservices = command[c].read.microservices \cup {command[c].name}
    BY <1>2, <1>3, <1>4 DEF Applications
  <2> QED BY <2>1, NothingAssumption
<1>6. answers \in Answers
  <2>1. Backend \in SUBSET (Files \cup AppFiles)
    BY DEF Backend, Files
  <2>2. "backend" \in CommandSteps
    BY DEF CommandSteps
  <2> QED BY <1>1, <2>1, <2>2 DEF Answers
<1>7. /\ answers.step = "backend" /\ answers.left = Backend
      /\ answers.name = command[c].name /\ answers.id = command[c].id
      /\ answers.application = command[c].application
      /\ answers.portal = command[c].portal /\ answers.ui = command[c].ui
  BY <1>1 DEF Answers
<1> HIDE DEF answers
<1>8. command'[c] = answers /\ \A d \in Commands \ {c} : command'[d] = command[d]
  BY <1>1, <1>2
<1>9. ScaffoldingTypeOK'
  <2>1. /\ command' \in [Commands -> Answers] /\ crossed' \subseteq Commands
        /\ application' \in Applications \cup {Nothing}
    BY <1>1, <1>2, <1>5, <1>6
  <2> QED BY <2>1, <1>1, <1>2 DEF ScaffoldingTypeOK
<1>10. \A d \in Commands : Shape(d)'
  <2>1. ASSUME NEW d \in Commands \ {c} PROVE Shape(d)'
    <3>1. Shape(d) /\ command'[d] = command[d] /\ application' # Nothing
      BY <1>5, <1>8 DEF SInv
    <3> QED BY ONLY <3>1 DEF Shape, Writing, Backend, AppFiles
  <2>2. Shape(c)'
    <3>1. command[c].portal =>
            command[c].ui /\ command[c].name = Portal /\ command[c].id = <<c, "portalId">>
      BY <1>2 DEF SInv, Shape
    <3>2. Backend \in (SUBSET Backend) \ {{}}
      BY DEF Backend
    <3>3. /\ command'[c].step = "backend" /\ command'[c].left = Backend
          /\ command'[c].name = command[c].name /\ command'[c].id = command[c].id
          /\ command'[c].application = command[c].application
          /\ command'[c].portal = command[c].portal /\ command'[c].ui = command[c].ui
      BY <1>7, <1>8
    <3> QED BY ONLY <3>1, <3>2, <3>3, <1>3, <1>5 DEF Shape, Writing
  <2> QED BY <2>1, <2>2
<1>11. ASSUME crossed' = {} PROVE Linked'
  <2>1. crossed = {} /\ \A d \in Commands \ {c} : command[d].step \notin {"appending", "saving"}
    BY <1>2, <1>11
  <2>0. /\ FreshIds /\ CopyIsCurrent /\ MadeIsListed /\ OneMaker /\ Listed
        /\ OwnFiles /\ ListedIsMade /\ ApplicationIsMade /\ RefusedPortals
    BY <2>1 DEF SInv, Linked
  <2>2. /\ command[c].read = application /\ command[c].application = application.id
        /\ command[c].name \notin application.microservices
    BY <2>0, <1>2 DEF CopyIsCurrent
  <2>3. /\ application # Nothing
        /\ application'.id = application.id /\ application'.portal = application.portal
        /\ application'.microservices = application.microservices \cup {command[c].name}
    BY <2>2, <1>3, <1>5
  <2>4. \A d \in Commands : /\ command'[d].name = command[d].name
                            /\ command'[d].application = command[d].application
                            /\ command'[d].portal = command[d].portal
                            /\ command'[d].id = command[d].id
    BY <1>7, <1>8
  <2>5. /\ ~Made(c) /\ Made(c)'
        /\ \A d \in Commands \ {c} : Made(d)' <=> Made(d)
    <3>1. ~Made(c)
      BY <1>2 DEF Made, Writing
    <3>2. Made(c)'
      BY <1>7, <1>8 DEF Made, Writing
    <3>3. ASSUME NEW d \in Commands \ {c} PROVE Made(d)' <=> Made(d)
      <4>1. command'[d] = command[d]
        BY <1>8
      <4> QED BY ONLY <4>1, <1>5, <2>3 DEF Made, Writing
    <3> QED BY <3>1, <3>2, <3>3
  <2>6. \A d \in Commands : Fresh(d)' => Fresh(d)
    BY <1>7, <1>8 DEF Fresh
  <2>7. FreshIds'
    <3> SUFFICES ASSUME NEW d \in Commands, Fresh(d)'
                 PROVE  /\ application'.id # <<d, "id">>
                        /\ \A e \in Commands : command'[e].application # <<d, "id">>
                        /\ \A n \in Directories, f \in Files :
                             files[n][f] # Nothing => files[n][f].application # <<d, "id">>
      BY <1>2 DEF FreshIds
    <3>1. /\ application # Nothing => application.id # <<d, "id">>
          /\ \A e \in Commands : command[e].application # <<d, "id">>
          /\ \A n \in Directories, f \in Files :
               files[n][f] # Nothing => files[n][f].application # <<d, "id">>
      BY <2>0, <2>6 DEF FreshIds
    <3> QED BY <3>1, <2>3, <2>4
  <2>8. CopyIsCurrent'
    <3>1. \A d \in Commands : command'[d].step \notin {"appending", "saving"}
      BY <2>1, <1>7, <1>8
    <3> QED BY <3>1 DEF CopyIsCurrent
  <2>9. MadeIsListed'
    <3> SUFFICES ASSUME NEW d \in Commands, Made(d)'
                 PROVE  /\ command[d].application = application.id
                        /\ command[d].name \in application.microservices \cup {command[c].name}
      BY <1>5, <2>3, <2>4 DEF MadeIsListed
    <3>1. CASE d = c
      BY <3>1, <2>2
    <3>2. CASE d # c
      BY <3>2, <2>0, <2>5 DEF MadeIsListed
    <3> QED BY <3>1, <3>2
  <2>10. OneMaker'
    <3>1. \A d \in Commands : Made(d) => command[d].name # command[c].name
      BY <2>0, <2>2 DEF MadeIsListed
    <3> QED BY <3>1, <2>0, <2>4, <2>5 DEF OneMaker
  <2>11. Listed'
    BY <2>0, <2>3, <1>2 DEF Listed
  <2>12. OwnFiles'
    <3> SUFFICES ASSUME NEW d \in Commands, Made(d)', ~SharesDirectory(command[d].name)'
                 PROVE  /\ \A f \in Backend :
                             (command'[d].step = "backend" => f \notin command'[d].left) => Mine(d, f)'
                        /\ (command'[d].step = "done" => command'[d].ui)
                              /\ command'[d].step \in {"portal", "done"} => Mine(d, "App.tsx")'
                        /\ command'[d].step = "done" /\ command'[d].portal =>
                             files'[DirectoryOf(d)']["App.tsx"].template = "portal"
      BY DEF OwnFiles
    <3>1. CASE d = c
      BY <3>1, <1>7, <1>8
    <3>2. CASE d # c
      <4>1. Made(d) /\ command'[d] = command[d] /\ files' = files
        BY <3>2, <2>5, <1>8, <1>2
      <4>2. (\A f : Mine(d, f)' <=> Mine(d, f)) /\ DirectoryOf(d)' = DirectoryOf(d)
        BY <4>1 DEF Mine, DirectoryOf
      <4>3. ~SharesDirectory(command[d].name)
        BY <4>1, <2>3 DEF SharesDirectory
      <4> QED BY <4>1, <4>2, <4>3, <2>0 DEF OwnFiles
    <3> QED BY <3>1, <3>2
  <2>13. ListedIsMade'
    <3> SUFFICES ASSUME NEW n \in application.microservices \cup {command[c].name}
                 PROVE  \E d \in Commands : command'[d].name = n /\ (Made(d)' \/ command'[d].step = "stopped")
      BY <2>3 DEF ListedIsMade
    <3>1. CASE n = command[c].name
      BY <3>1, <2>4, <2>5
    <3>2. CASE n # command[c].name
      <4>1. PICK d \in Commands : command[d].name = n /\ (Made(d) \/ command[d].step = "stopped")
        BY <3>2, <2>0, <2>3 DEF ListedIsMade
      <4>2. d # c
        BY <4>1, <3>2
      <4> QED BY <4>1, <4>2, <2>5, <1>8
    <3> QED BY <3>1, <3>2
  <2>14. ApplicationIsMade'
    <3>1. PICK d \in Commands :
            /\ application.id = <<d, "id">>
            /\ ~Fresh(d)
            /\ application.portal = command[d].portal
            /\ command[d].application \in {Nothing, application.id}
      BY <2>0, <2>3 DEF ApplicationIsMade
    <3> QED BY <3>1, <2>3, <2>4, <2>6 DEF ApplicationIsMade
  <2>15. RefusedPortals'
    <3> SUFFICES ASSUME NEW d \in Commands, command'[d].step = "refused", command'[d].portal
                 PROVE  command'[d].left # {} \/ \E e \in Commands \ {d} : command'[e].name = Portal
      BY DEF RefusedPortals
    <3>1. d # c /\ command'[d] = command[d]
      BY <1>7, <1>8
    <3>2. command[d].left # {} \/ \E e \in Commands \ {d} : command[e].name = Portal
      BY <3>1, <2>0 DEF RefusedPortals
    <3> QED BY <3>1, <3>2, <2>4
  <2> QED BY <2>7, <2>8, <2>9, <2>10, <2>11, <2>12, <2>13, <2>14, <2>15 DEF Linked
<1> QED BY <1>9, <1>10, <1>11 DEF SInv

\* What a command is after a file of the application's templates.
LEMMA AfterTemplatesFacts ==
  ASSUME ScaffoldingTypeOK, NEW c \in Commands, Shape(c), command[c].step = "application",
         NEW left \in SUBSET command[c].left,
         "application.json" \in left \/ application' # Nothing,
         command' = [command EXCEPT ![c] = AfterTemplates(c, left)]
  PROVE  LET answers == AfterTemplates(c, left)
         IN  /\ answers \in Answers
             /\ answers.step \in {"application", "microservice", "done"}
             /\ answers.step = "application" => answers.left = left
             /\ answers.application = Nothing
             /\ answers.portal = command[c].portal
             /\ Shape(c)'
<1>1. /\ command[c] \in Answers /\ command'[c] = AfterTemplates(c, left)
      /\ command[c].left \subseteq AppFiles
      /\ command[c].name = Nothing /\ command[c].application = Nothing
      /\ command[c].id = <<c, "id">>
  BY DEF ScaffoldingTypeOK, Shape
<1>2. CASE left # {}
  <2>1. AfterTemplates(c, left) = [command[c] EXCEPT !.left = left]
    BY <1>2 DEF AfterTemplates
  <2>2. [command[c] EXCEPT !.left = left] \in Answers
    BY <1>1 DEF Answers
  <2> DEFINE answers == [command[c] EXCEPT !.left = left]
  <2>3. /\ answers.step = "application" /\ answers.left = left /\ answers.application = Nothing
        /\ answers.portal = command[c].portal /\ answers.name = Nothing /\ answers.id = <<c, "id">>
    BY <1>1 DEF Answers
  <2> HIDE DEF answers
  <2>4. Shape(c)'
    BY <1>1, <1>2, <2>1, <2>3 DEF Shape, Writing, answers
  <2> QED BY <2>1, <2>2, <2>3, <2>4 DEF answers
<1>3. CASE left = {} /\ command[c].portal
  <2> DEFINE answers == PortalFor(c)
  <2>1. AfterTemplates(c, left) = answers
    BY <1>3 DEF AfterTemplates
  <2>2. answers \in Answers
    BY <1>1, ScaffoldingAssumption DEF Answers, PortalFor, CommandSteps, Ids
  <2>3. /\ answers.step = "microservice" /\ answers.application = Nothing /\ answers.ui
        /\ answers.portal = command[c].portal /\ answers.name = Portal /\ answers.id = <<c, "portalId">>
    BY <1>1 DEF Answers, PortalFor
  <2> HIDE DEF answers
  <2>4. Shape(c)'
    BY <1>1, <1>3, <2>1, <2>3, ScaffoldingAssumption DEF Shape, Writing
  <2> QED BY <2>1, <2>2, <2>3, <2>4
<1>4. CASE left = {} /\ ~command[c].portal
  <2> DEFINE answers == [command[c] EXCEPT !.step = "done", !.forced = FALSE, !.left = {}]
  <2>1. AfterTemplates(c, left) = answers
    BY <1>4 DEF AfterTemplates
  <2>2. answers \in Answers
    BY <1>1 DEF Answers, CommandSteps
  <2>3. /\ answers.step = "done" /\ answers.application = Nothing
        /\ answers.portal = command[c].portal /\ answers.name = Nothing
    BY <1>1 DEF Answers
  <2> HIDE DEF answers
  <2>4. Shape(c)'
    BY <1>1, <1>4, <2>1, <2>3 DEF Shape, Writing
  <2> QED BY <2>1, <2>2, <2>3, <2>4
<1> QED BY <1>1, <1>2, <1>3, <1>4 DEF ScaffoldingTypeOK, Answers

\* An application.json is written anew: if nobody had read the last one, no command
\* belongs to the new one but the one that wrote it.
LEMMA NewApplication ==
  ASSUME SInv, NEW c \in Commands,
         command[c].step = "application", "application.json" \in command[c].left,
         command' = [command EXCEPT ![c] = AfterTemplates(c, command[c].left \ {"application.json"})],
         application' = [id |-> <<c, "id">>, portal |-> command[c].portal, microservices |-> {}],
         crossed' = crossed \cup
           {d \in Commands : command[d].step \in {"appending", "saving"} \cup Writing},
         shared' = shared, files' = files
  PROVE  SInv'
<1>1. /\ command \in [Commands -> Answers]
      /\ shared \in BOOLEAN
      /\ files \in [Directories -> [Files -> Contents \cup {Nothing}]]
      /\ crossed \subseteq Commands
      /\ ScaffoldingTypeOK
  BY DEF SInv, ScaffoldingTypeOK
<1> DEFINE answers == AfterTemplates(c, command[c].left \ {"application.json"})
<1>2. /\ application' \in Applications /\ application' # Nothing
      /\ application'.id = <<c, "id">> /\ application'.portal = command[c].portal
      /\ application'.microservices = {}
  <2>1. command[c].portal \in BOOLEAN
    BY <1>1 DEF Answers
  <2>2. /\ application' \in Applications
        /\ application'.id = <<c, "id">> /\ application'.portal = command[c].portal
        /\ application'.microservices = {}
    BY <2>1 DEF Applications, Ids
  <2> QED BY <2>2, NothingAssumption
<1>3. /\ answers \in Answers
      /\ answers.step \in {"application", "microservice", "done"}
      /\ answers.step = "application" => "application.json" \notin answers.left
      /\ answers.application = Nothing
      /\ answers.portal = command[c].portal
      /\ Shape(c)'
  <2>1. Shape(c)
    BY DEF SInv
  <2> QED BY <1>1, <1>2, <2>1, AfterTemplatesFacts
<1>4. command' = [command EXCEPT ![c] = answers]
  OBVIOUS
<1> HIDE DEF answers
<1>5. command'[c] = answers /\ \A d \in Commands \ {c} : command'[d] = command[d]
  BY <1>1, <1>4
<1>6. ScaffoldingTypeOK'
  BY <1>1, <1>2, <1>3, <1>4 DEF ScaffoldingTypeOK
<1>7. \A d \in Commands : Shape(d)'
  <2> SUFFICES ASSUME NEW d \in Commands \ {c} PROVE Shape(d)'
    BY <1>3
  <2>1. Shape(d) /\ command'[d] = command[d] /\ application' # Nothing
    BY <1>2, <1>5 DEF SInv
  <2> QED BY ONLY <2>1 DEF Shape, Writing, Backend, AppFiles
<1>8. ASSUME crossed' = {} PROVE Linked'
  <2>1. crossed = {} /\ \A d \in Commands : command[d].step \notin {"appending", "saving"} \cup Writing
    BY <1>8
  <2>0. /\ FreshIds /\ Listed /\ RefusedPortals
    BY <2>1 DEF SInv, Linked
  <2>2. /\ \A d \in Commands : command[d].application # <<c, "id">>
        /\ \A n \in Directories, f \in Files :
             files[n][f] # Nothing => files[n][f].application # <<c, "id">>
    BY <2>0 DEF FreshIds, Fresh
  <2>3. \A d \in Commands : command'[d].step \notin {"appending", "saving"} \cup Writing
    BY <2>1, <1>3, <1>5 DEF Writing
  <2>4. \A d \in Commands : ~Made(d)'
    <3> SUFFICES ASSUME NEW d \in Commands, command'[d].application # Nothing,
                        command'[d].application = <<c, "id">>
                 PROVE  FALSE
      BY <2>3, <1>2 DEF Made
    <3> QED BY <2>2, <1>3, <1>5
  <2>5. ~Fresh(c)' /\ \A d \in Commands \ {c} : Fresh(d)' => Fresh(d)
    BY <1>3, <1>5 DEF Fresh
  <2>6. FreshIds'
    <3> SUFFICES ASSUME NEW d \in Commands, Fresh(d)'
                 PROVE  /\ application'.id # <<d, "id">>
                        /\ \A e \in Commands : command'[e].application # <<d, "id">>
                        /\ \A n \in Directories, f \in Files :
                             files[n][f] # Nothing => files[n][f].application # <<d, "id">>
      BY DEF FreshIds
    <3>1. d # c /\ Fresh(d)
      BY <2>5
    <3>2. /\ \A e \in Commands : command[e].application # <<d, "id">>
          /\ \A n \in Directories, f \in Files :
               files[n][f] # Nothing => files[n][f].application # <<d, "id">>
      BY <3>1, <2>0 DEF FreshIds
    <3>3. Nothing # <<d, "id">>
      BY NothingAssumption DEF Ids
    <3> QED BY <3>1, <3>2, <3>3, <1>2, <1>3, <1>5
  <2>7. CopyIsCurrent'
    BY <2>3 DEF CopyIsCurrent
  <2>8. MadeIsListed' /\ OneMaker' /\ OwnFiles'
    BY <2>4 DEF MadeIsListed, OneMaker, OwnFiles
  <2>9. Listed' /\ ListedIsMade'
    BY <2>2, <1>2 DEF Listed, ListedIsMade
  <2>10. ApplicationIsMade'
    BY <1>2, <1>3, <1>5, <2>5 DEF ApplicationIsMade
  <2>11. RefusedPortals'
    <3> SUFFICES ASSUME NEW d \in Commands, command'[d].step = "refused", command'[d].portal
                 PROVE  command'[d].left # {} \/ \E e \in Commands \ {d} : command'[e].name = Portal
      BY DEF RefusedPortals
    <3>1. d # c /\ command'[d] = command[d]
      BY <1>3, <1>5
    <3>2. command[d].left # {} \/ \E e \in Commands \ {d} : command[e].name = Portal
      BY <3>1, <2>0 DEF RefusedPortals
    <3>3. command[c].name # Portal
      BY NothingAssumption, ScaffoldingAssumption DEF SInv, Shape
    <3> QED BY <3>1, <3>2, <3>3, <1>5
  <2> QED BY <2>6, <2>7, <2>8, <2>9, <2>10, <2>11 DEF Linked
<1> QED BY <1>6, <1>7, <1>8 DEF SInv

LEMMA WriteTemplateStep ==
  ASSUME SInv, NEW c \in Commands, NEW file \in AppFiles, WriteTemplate(c, file)
  PROVE  SInv'
<1>1. ScaffoldingTypeOK /\ Shape(c) /\ command[c] \in Answers
  BY DEF SInv, ScaffoldingTypeOK
<1>2. /\ command[c].step = "application" /\ file \in command[c].left /\ files' = files
      /\ command[c].name = Nothing /\ command[c].application = Nothing
      /\ "application.json" \notin command[c].left => application # Nothing
      /\ ~Made(c)
  BY <1>1 DEF WriteTemplate, Shape, Made, Writing
<1>3. CASE Exists(file) /\ ~command[c].forced
  <2> DEFINE answers == [command[c] EXCEPT !.step = "refused", !.forced = FALSE]
  <2>1. /\ command' = [command EXCEPT ![c] = answers]
        /\ application' = application /\ shared' = shared /\ crossed' = crossed
    <3>1. /\ command' = [command EXCEPT ![c].step = "refused", ![c].forced = FALSE]
          /\ application' = application /\ shared' = shared /\ crossed' = crossed
      BY <1>3 DEF WriteTemplate
    <3> QED BY <3>1, <1>1 DEF ScaffoldingTypeOK
  <2>2. /\ answers \in Answers
        /\ answers.step = "refused" /\ answers.left = command[c].left
        /\ answers.application = Nothing /\ answers.portal = command[c].portal
    BY <1>1, <1>2 DEF Answers, CommandSteps
  <2> HIDE DEF answers
  <2>3. command'[c] = answers
    BY <2>1, <1>1 DEF ScaffoldingTypeOK
  <2>4. Shape(c)'
    BY <2>2, <2>3 DEF Shape, Writing
  <2>5. answers.step \notin Writing /\ answers.left # {}
    BY <2>2, <1>2 DEF Writing
  <2>6. shared' \in BOOLEAN
    BY <2>1, <1>1 DEF ScaffoldingTypeOK
  <2> QED BY <1>2, <2>1, <2>2, <2>4, <2>5, <2>6, QuietStep
<1>4. CASE ~(Exists(file) /\ ~command[c].forced)
  <2>1. CASE file = "application.json"
    <3>1. /\ command' = [command EXCEPT ![c] = AfterTemplates(c, command[c].left \ {"application.json"})]
          /\ application' = [id |-> <<c, "id">>, portal |-> command[c].portal, microservices |-> {}]
          /\ crossed' = crossed \cup
               {d \in Commands : command[d].step \in {"appending", "saving"} \cup Writing}
          /\ shared' = shared
      BY <1>4, <2>1 DEF WriteTemplate
    <3> QED BY <3>1, <1>2, <2>1, NewApplication
  <2>2. CASE file # "application.json"
    <3> DEFINE answers == AfterTemplates(c, command[c].left \ {file})
    <3>1. /\ command' = [command EXCEPT ![c] = answers]
          /\ shared' = TRUE
          /\ application' = application /\ crossed' = crossed
      BY <1>4, <2>2 DEF WriteTemplate
    <3>2. /\ answers \in Answers
          /\ answers.step \in {"application", "microservice", "done"}
          /\ answers.step = "application" => answers.left = command[c].left \ {file}
          /\ answers.application = Nothing
          /\ answers.portal = command[c].portal
          /\ Shape(c)'
      <4>1. "application.json" \in command[c].left \ {file} \/ application' # Nothing
        BY <1>2, <2>2, <3>1
      <4> QED BY <1>1, <1>2, <3>1, <4>1, AfterTemplatesFacts
    <3> HIDE DEF answers
    <3>3. /\ answers.step \notin Writing
          /\ answers.step = "application" /\ "application.json" \in answers.left => Fresh(c)
      BY <3>2, <1>2 DEF Writing, Fresh
    <3>4. shared' \in BOOLEAN
      BY <3>1
    <3> QED BY <1>2, <3>1, <3>2, <3>3, <3>4, QuietStep
  <2> QED BY <2>1, <2>2
<1> QED BY <1>3, <1>4

LEMMA SNext == SInv /\ [ScaffoldNext]_scaffoldVars => SInv'
<1> SUFFICES ASSUME SInv, [ScaffoldNext]_scaffoldVars PROVE SInv'
  OBVIOUS
<1>0. /\ ScaffoldingTypeOK
      /\ command \in [Commands -> Answers]
      /\ shared \in BOOLEAN
      /\ \A c \in Commands : Shape(c) /\ command[c] \in Answers
  BY DEF SInv, ScaffoldingTypeOK
<1>1. ASSUME NEW c \in Commands, NEW portal \in BOOLEAN,
             NEW forced \in BOOLEAN, LaunchApplication(c, portal, forced)
      PROVE  SInv'
  <2> DEFINE answers == [command[c] EXCEPT !.step = "application", !.portal = portal,
                           !.forced = forced, !.left = AppFiles]
  <2>1. /\ command[c].step = "new"
        /\ command' = [command EXCEPT ![c] = answers]
        /\ application' = application /\ files' = files /\ crossed' = crossed /\ shared' = shared
    BY <1>0, <1>1 DEF LaunchApplication
  <2>2. /\ answers \in Answers /\ answers.step = "application" /\ answers.left = AppFiles
        /\ answers.name = command[c].name /\ answers.application = command[c].application
        /\ answers.id = command[c].id
    BY <1>0 DEF Answers, CommandSteps
  <2> HIDE DEF answers
  <2>3. command'[c] = answers
    BY <2>1, <1>0
  <2>4. Shape(c)'
    <3>1. command[c].name = Nothing /\ command[c].application = Nothing /\ command[c].id = <<c, "id">>
      BY <2>1, <1>0 DEF Shape
    <3>2. AppFiles \in (SUBSET AppFiles) \ {{}} /\ "application.json" \in AppFiles
      BY DEF AppFiles
    <3> QED BY <2>2, <2>3, <3>1, <3>2 DEF Shape, Writing
  <2>5. ~Made(c) /\ Fresh(c) /\ answers.step \notin Writing
    BY <2>1, <2>2 DEF Made, Writing, Fresh
  <2>6. command[c].name = Nothing
    BY <2>1, <1>0 DEF Shape
  <2> QED BY <1>0, <2>1, <2>2, <2>4, <2>5, <2>6, QuietStep
<1>2. ASSUME NEW c \in Commands, NEW file \in AppFiles, WriteTemplate(c, file) PROVE SInv'
  BY <1>2, WriteTemplateStep
<1>3. ASSUME NEW c \in Commands, NEW name \in MicroserviceNames,
             NEW ui \in BOOLEAN, LaunchMicroservice(c, name, ui)
      PROVE  SInv'
  <2> DEFINE answers == [command[c] EXCEPT !.step = "microservice", !.name = name,
                           !.ui = ui]
  <2>1. /\ command[c].step = "new"
        /\ command' = [command EXCEPT ![c] = answers]
        /\ application' = application /\ files' = files /\ crossed' = crossed /\ shared' = shared
    BY <1>0, <1>3 DEF LaunchMicroservice
  <2>2. /\ answers \in Answers /\ answers.step = "microservice" /\ answers.name = name
        /\ answers.application = command[c].application
        /\ answers.portal = command[c].portal
    BY <1>0 DEF Answers, CommandSteps
  <2> HIDE DEF answers
  <2>3. command'[c] = answers
    BY <2>1, <1>0
  <2>4. ~command[c].portal /\ command[c].name = Nothing /\ command[c].application = Nothing
    BY <2>1, <1>0 DEF Shape
  <2>5. Shape(c)'
    BY <2>2, <2>3, <2>4 DEF Shape, Writing
  <2>6. ~Made(c) /\ answers.step \notin Writing
    BY <2>1, <2>2 DEF Made, Writing
  <2> QED BY <1>0, <2>1, <2>2, <2>4, <2>5, <2>6, QuietStep
<1>4. ASSUME NEW c \in Commands, ReadApplication(c) PROVE SInv'
  <2> DEFINE answers == [command[c] EXCEPT
                !.step = IF application = Nothing THEN "refused" ELSE "appending",
                !.application = IF application = Nothing THEN Nothing ELSE application.id]
  <2>1. /\ command[c].step = "microservice"
        /\ command' = [command EXCEPT ![c] = answers]
        /\ application' = application /\ files' = files /\ crossed' = crossed /\ shared' = shared
    BY <1>0, <1>4 DEF ReadApplication
  <2>2. application # Nothing => application.id \in Ids
    BY <1>0 DEF ScaffoldingTypeOK, Applications
  <2>3. /\ answers \in Answers
        /\ answers.step = IF application = Nothing THEN "refused" ELSE "appending"
        /\ answers.name = command[c].name /\ answers.id = command[c].id /\ answers.ui = command[c].ui
        /\ answers.application = IF application = Nothing THEN Nothing ELSE application.id
        /\ answers.portal = command[c].portal
    BY <1>0, <2>2 DEF Answers, CommandSteps
  <2> HIDE DEF answers
  <2>4. command'[c] = answers
    BY <2>1, <1>0
  <2>5. /\ command[c].name \in MicroserviceNames
        /\ command[c].portal => application # Nothing /\ command[c].ui /\ command[c].name = Portal
                                   /\ command[c].id = <<c, "portalId">>
    BY <2>1, <1>0 DEF Shape
  <2>6. Shape(c)'
    <3>1. CASE application = Nothing
      BY <3>1, <2>3, <2>4 DEF Shape, Writing
    <3>2. CASE application # Nothing
      <4>1. application.id # Nothing
        BY <3>2, <2>2, NothingAssumption
      <4> QED BY <3>2, <4>1, <2>1, <2>3, <2>4, <2>5 DEF Shape, Writing
    <3> QED BY <3>1, <3>2
  <2>7. ~Made(c) /\ answers.step \notin Writing
    BY <2>1, <2>3 DEF Made, Writing
  <2>8. CASE application = Nothing
    <3>1. /\ answers.step = "refused" /\ ~answers.portal /\ answers.application = Nothing
      BY <2>3, <2>5, <2>8
    <3>2. answers.application = command[c].application
      BY <3>1, <1>0, <2>1 DEF Shape
    <3> QED BY <1>0, <2>1, <2>3, <2>6, <2>7, <3>1, <3>2, QuietStep
  <2>9. CASE application # Nothing
    <3>1. /\ answers.step = "appending" /\ answers.application = application.id
      BY <2>3, <2>9
    <3> QED BY <1>0, <2>1, <2>3, <2>6, <2>7, <2>9, <3>1, QuietStep
  <2> QED BY <2>8, <2>9
<1>5. ASSUME NEW c \in Commands, ReadListed(c) PROVE SInv'
  <2>1. /\ command[c].step = "appending"
        /\ application' = application /\ files' = files /\ crossed' = crossed /\ shared' = shared
    BY <1>5 DEF ReadListed
  <2>2. /\ command[c].name \in MicroserviceNames
        /\ command[c].application # Nothing /\ application # Nothing
        /\ command[c].portal => command[c].ui /\ command[c].name = Portal
                                   /\ command[c].id = <<c, "portalId">>
    BY <2>1, <1>0 DEF Shape
  <2>3. ~Made(c)
    BY <2>1 DEF Made, Writing
  <2>4. CASE command[c].name \in application.microservices
    <3> DEFINE answers == [command[c] EXCEPT !.step = "refused"]
    <3>1. command' = [command EXCEPT ![c] = answers]
      BY <2>4, <1>5, <1>0 DEF ReadListed
    <3>2. /\ answers \in Answers /\ answers.step = "refused"
          /\ answers.name = command[c].name /\ answers.application = command[c].application
          /\ answers.portal = command[c].portal
      BY <1>0 DEF Answers, CommandSteps
    <3> HIDE DEF answers
    <3>3. command'[c] = answers
      BY <3>1, <1>0
    <3>4. Shape(c)' /\ answers.step \notin Writing
      BY <3>2, <3>3 DEF Shape, Writing
    <3>5. ASSUME crossed = {}, command[c].portal
          PROVE  \E d \in Commands \ {c} : command[d].name = Portal
      <4>1. PICK d \in Commands : command[d].name = Portal /\ (Made(d) \/ command[d].step = "stopped")
        BY <3>5, <2>2, <2>4 DEF SInv, Linked, ListedIsMade
      <4>2. d # c
        BY <4>1, <2>1, <2>3
      <4> QED BY <4>1, <4>2
    <3> QED BY <1>0, <2>1, <2>3, <3>1, <3>2, <3>4, <3>5, QuietStep
  <2>5. CASE command[c].name \notin application.microservices
    <3> DEFINE answers == [command[c] EXCEPT !.step = "saving", !.read = application]
    <3>1. command' = [command EXCEPT ![c] = answers]
      BY <2>5, <1>5, <1>0 DEF ReadListed
    <3>2. /\ answers \in Answers /\ answers.step = "saving" /\ answers.read = application
          /\ answers.name = command[c].name /\ answers.application = command[c].application
          /\ answers.portal = command[c].portal /\ answers.id = command[c].id
          /\ answers.ui = command[c].ui
      BY <1>0 DEF Answers, CommandSteps, ScaffoldingTypeOK
    <3> HIDE DEF answers
    <3>3. command'[c] = answers
      BY <3>1, <1>0
    <3>4. Shape(c)' /\ answers.step \notin Writing
      BY <2>1, <2>2, <3>2, <3>3 DEF Shape, Writing
    <3>5. crossed = {} => command[c].application = application.id
      BY <2>1 DEF SInv, Linked, CopyIsCurrent
    <3> QED BY <1>0, <2>1, <2>3, <2>5, <3>1, <3>2, <3>4, <3>5, QuietStep
  <2> QED BY <2>4, <2>5
<1>6. ASSUME NEW c \in Commands, Save(c) PROVE SInv'
  BY <1>6, SaveStep
<1>7. ASSUME NEW c \in Commands, NEW file \in Backend, WriteBackend(c, file) PROVE SInv'
  <2> DEFINE left == command[c].left \ {file}
             step == IF left # {} THEN "backend" ELSE IF command[c].ui THEN "web" ELSE "done"
             answers == [command[c] EXCEPT !.left = left, !.step = step]
  <2>1. /\ command[c].step = "backend" /\ file \in command[c].left
        /\ command' = [command EXCEPT ![c] = answers]
        /\ files' = [files EXCEPT ![DirectoryOf(c)][file] =
                       [id |-> command[c].id, application |-> command[c].application,
                        template |-> "backend"]]
        /\ application' = application /\ crossed' = crossed /\ shared' = shared
    BY <1>0, <1>7 DEF WriteBackend, Write
  <2>2. step \in {"backend", "web", "done"}
    OBVIOUS
  <2>3. /\ answers \in Answers /\ answers.step = step /\ answers.left = left
        /\ answers.name = command[c].name /\ answers.application = command[c].application
        /\ answers.portal = command[c].portal /\ answers.id = command[c].id
        /\ answers.ui = command[c].ui
    BY <1>0 DEF Answers, CommandSteps
  <2>4. /\ step = "backend" => left # {}
        /\ step = "web" => command[c].ui
        /\ step = "done" => ~command[c].ui
        /\ step # "backend" => left = {}
    OBVIOUS
  <2> HIDE DEF answers, step
  <2>5. command'[c] = answers
    BY <2>1, <1>0
  <2>6. /\ command[c].name \in MicroserviceNames
        /\ command[c].application # Nothing /\ application # Nothing
        /\ command[c].left \subseteq Backend
        /\ command[c].portal => command[c].ui /\ command[c].name = Portal
                                   /\ command[c].id = <<c, "portalId">>
    BY <2>1, <1>0 DEF Shape, Writing
  <2>7. Shape(c)'
    BY <2>1, <2>2, <2>3, <2>4, <2>5, <2>6 DEF Shape, Writing
  <2>8. /\ command[c].step \in Writing /\ answers.step \in Writing \cup {"done"}
        /\ file \in Files
    BY <2>1, <2>2, <2>3 DEF Writing, Backend, Files
  <2>9. \A f \in Backend : (answers.step = "backend" => f \notin answers.left) =>
           f = file \/ f \notin command[c].left
    BY <2>3, <2>4
  <2>10. ~((answers.step = "done" => answers.ui) /\ answers.step \in {"portal", "done"})
    BY <2>2, <2>3, <2>4
  <2>11. ~(answers.step = "done" /\ answers.portal)
    BY <2>2, <2>3, <2>4, <2>6
  <2> HIDE DEF left
  <2> QED BY <2>1, <2>3, <2>7, <2>8, <2>9, <2>10, <2>11, FileStep
<1>8. ASSUME NEW c \in Commands, WriteWeb(c) PROVE SInv'
  <2> DEFINE step == IF command[c].portal THEN "portal" ELSE "done"
             answers == [command[c] EXCEPT !.step = step]
  <2>1. /\ command[c].step = "web"
        /\ command' = [command EXCEPT ![c] = answers]
        /\ files' = [files EXCEPT ![DirectoryOf(c)]["App.tsx"] =
                       [id |-> command[c].id, application |-> command[c].application,
                        template |-> "web"]]
        /\ application' = application /\ crossed' = crossed /\ shared' = shared
    BY <1>0, <1>8 DEF WriteWeb, Write, Step
  <2>2. /\ step \in {"portal", "done"}
        /\ step = "portal" => command[c].portal
        /\ step = "done" => ~command[c].portal
    OBVIOUS
  <2> HIDE DEF step
  <2>3. /\ answers \in Answers /\ answers.step = step
        /\ answers.name = command[c].name /\ answers.application = command[c].application
        /\ answers.portal = command[c].portal /\ answers.id = command[c].id
        /\ answers.ui = command[c].ui
    BY <1>0, <2>2 DEF Answers, CommandSteps
  <2> HIDE DEF answers
  <2>4. command'[c] = answers
    BY <2>1, <1>0
  <2>5. /\ command[c].name \in MicroserviceNames
        /\ command[c].application # Nothing /\ application # Nothing /\ command[c].ui
        /\ command[c].portal => command[c].name = Portal /\ command[c].id = <<c, "portalId">>
    BY <2>1, <1>0 DEF Shape, Writing
  <2>6. Shape(c)'
    BY <2>1, <2>2, <2>3, <2>4, <2>5 DEF Shape, Writing
  <2>7. /\ command[c].step \in Writing /\ answers.step \in Writing \cup {"done"}
        /\ "App.tsx" \in Files
        /\ answers.step # "backend"
    BY <2>1, <2>2, <2>3 DEF Writing, Files
  <2>8. \A f \in Backend : command[c].step = "backend" => f \notin command[c].left
    BY <2>1
  <2>9. ~(answers.step = "done" /\ answers.portal)
    BY <2>2, <2>3
  <2> QED BY <2>1, <2>3, <2>6, <2>7, <2>8, <2>9, FileStep
<1>9. ASSUME NEW c \in Commands, WritePortal(c) PROVE SInv'
  <2> DEFINE answers == [command[c] EXCEPT !.step = "done"]
  <2>1. /\ command[c].step = "portal"
        /\ command' = [command EXCEPT ![c] = answers]
        /\ files' = [files EXCEPT ![DirectoryOf(c)]["App.tsx"] =
                       [id |-> command[c].id, application |-> command[c].application,
                        template |-> "portal"]]
        /\ application' = application /\ crossed' = crossed /\ shared' = shared
    BY <1>0, <1>9 DEF WritePortal, Write, Step
  <2>2. /\ answers \in Answers /\ answers.step = "done"
        /\ answers.name = command[c].name /\ answers.application = command[c].application
        /\ answers.portal = command[c].portal /\ answers.id = command[c].id
        /\ answers.ui = command[c].ui
    BY <1>0 DEF Answers, CommandSteps
  <2> HIDE DEF answers
  <2>3. command'[c] = answers
    BY <2>1, <1>0
  <2>4. /\ command[c].name \in MicroserviceNames
        /\ command[c].application # Nothing
        /\ command[c].ui /\ command[c].name = Portal /\ command[c].id = <<c, "portalId">>
    BY <2>1, <1>0 DEF Shape, Writing
  <2>5. Shape(c)'
    BY <2>2, <2>3, <2>4 DEF Shape, Writing
  <2>6. /\ command[c].step \in Writing /\ answers.step \in Writing \cup {"done"}
        /\ "App.tsx" \in Files
        /\ answers.step # "backend"
    BY <2>1, <2>2 DEF Writing, Files
  <2>7. \A f \in Backend : command[c].step = "backend" => f \notin command[c].left
    BY <2>1
  <2> QED BY <2>1, <2>2, <2>5, <2>6, <2>7, FileStep
<1>10. ASSUME NEW c \in Commands, Stop(c) PROVE SInv'
  <2> DEFINE answers == [command[c] EXCEPT !.step = "stopped"]
  <2>1. /\ command[c].step \notin {"new", "done", "refused", "stopped"}
        /\ command' = [command EXCEPT ![c] = answers]
        /\ application' = application /\ files' = files /\ crossed' = crossed /\ shared' = shared
    BY <1>0, <1>10 DEF Stop, Step
  <2>2. /\ answers \in Answers /\ answers.step = "stopped"
        /\ answers.name = command[c].name /\ answers.application = command[c].application
        /\ answers.portal = command[c].portal
    BY <1>0 DEF Answers, CommandSteps
  <2> HIDE DEF answers
  <2>3. command'[c] = answers
    BY <2>1, <1>0
  <2>4. Shape(c)' /\ answers.step \notin Writing
    BY <2>2, <2>3 DEF Shape, Writing
  <2> QED BY <1>0, <2>1, <2>2, <2>4, QuietStep
<1>11. CASE UNCHANGED scaffoldVars
  <2>1. /\ command' = command /\ application' = application /\ shared' = shared
        /\ files' = files /\ crossed' = crossed
    BY <1>11 DEF scaffoldVars
  <2>2. /\ ScaffoldingTypeOK' <=> ScaffoldingTypeOK
        /\ \A c \in Commands : Shape(c)' <=> Shape(c)
        /\ \A c \in Commands : Made(c)' <=> Made(c)
        /\ \A c \in Commands : Fresh(c)' <=> Fresh(c)
    BY <2>1 DEF ScaffoldingTypeOK, Shape, Made, Fresh
  <2>3. /\ FreshIds' <=> FreshIds
        /\ CopyIsCurrent' <=> CopyIsCurrent
        /\ MadeIsListed' <=> MadeIsListed
        /\ OneMaker' <=> OneMaker
        /\ Listed' <=> Listed
        /\ ListedIsMade' <=> ListedIsMade
        /\ ApplicationIsMade' <=> ApplicationIsMade
        /\ RefusedPortals' <=> RefusedPortals
    BY <2>1, <2>2 DEF FreshIds, CopyIsCurrent, MadeIsListed, OneMaker, Listed, ListedIsMade,
         ApplicationIsMade, RefusedPortals
  <2>4. OwnFiles' <=> OwnFiles
    BY <2>1, <2>2 DEF OwnFiles, Mine, DirectoryOf, SharesDirectory
  <2> QED BY <2>1, <2>2, <2>3, <2>4 DEF SInv, Linked
<1>12. ASSUME NEW c \in Commands, NEW portal \in BOOLEAN,
              LaunchWizard(c, portal) \/ CreateApplication(c, portal)
       PROVE  SInv'
  BY <1>1, <1>12 DEF LaunchWizard, CreateApplication
<1> QED BY <1>2, <1>3, <1>4, <1>5, <1>6, <1>7, <1>8, <1>9, <1>10, <1>11, <1>12 DEF ScaffoldNext

-----------------------------------------------------------------------------
(* The theorems.                                                           *)

LEMMA WorkspacesInvariant == ScaffoldingSpec => []WInv
<1>1. ScaffoldingInit => WInv
  BY WInit DEF ScaffoldingInit
<1>2. WInv /\ [ScaffoldingNext]_scaffoldingVars => WInv'
  <2>1. [ScaffoldingNext]_scaffoldingVars => [WorkspacesNext]_workspaceVars
    BY DEF ScaffoldingNext, scaffoldingVars
  <2> QED BY <2>1, WNext
<1> QED BY <1>1, <1>2, PTL DEF ScaffoldingSpec

LEMMA CommandsInvariant == ScaffoldingSpec => []SInv
<1>1. ScaffoldingInit => SInv
  BY SInit
<1>2. SInv /\ [ScaffoldingNext]_scaffoldingVars => SInv'
  <2>1. [ScaffoldingNext]_scaffoldingVars => [ScaffoldNext]_scaffoldVars
    BY DEF ScaffoldingNext, scaffoldingVars
  <2> QED BY <2>1, SNext
<1> QED BY <1>1, <1>2, PTL DEF ScaffoldingSpec

\* The state of the runs, the registry and the commands keeps its shape.
THEOREM ReleasesStayTyped == ScaffoldingSpec => [](WorkspacesTypeOK /\ ScaffoldingTypeOK)
<1>1. WInv /\ SInv => WorkspacesTypeOK /\ ScaffoldingTypeOK
  BY DEF WInv, SInv
<1> QED BY <1>1, WorkspacesInvariant, CommandsInvariant, PTL

LEMMA OneRun == WInv => OneRunPerVersion
<1> SUFFICES ASSUME WInv, NEW p \in registry, NEW q \in registry, p.version = q.version
             PROVE  p.by = q.by
  BY DEF OneRunPerVersion
<1>1. PICK i \in DOMAIN Found : Found[i] = p.name /\ Public(i) /\ i <= job[p.by].at
  BY DEF WInv, RegistryInv
<1>2. PICK j \in DOMAIN Found : Found[j] = q.name /\ Public(j) /\ j <= job[q.by].at
  BY DEF WInv, RegistryInv
<1>3. /\ p.by \in Runs /\ q.by \in Runs
      /\ job[p.by].at \in Nat /\ job[q.by].at \in Nat
      /\ p.version # NoVersion
      /\ i \in Nat /\ j \in Nat
  BY FoundFacts, WorkspacesAssumption DEF WInv, WorkspacesTypeOK, Published
<1>4. /\ job[p.by].version = p.version /\ job[q.by].version = p.version
      /\ job[p.by].step # "new" /\ job[q.by].step # "new"
  BY DEF WInv, RegistryInv
<1>5. HasDone(p.by) /\ HasDone(q.by)
  BY <1>3 DEF WInv, JobInv
<1>6. CASE i = j
  BY <1>1, <1>2, <1>6 DEF WInv, Unique
<1>7. CASE i < j
  <2>1. i < job[q.by].at
    BY <1>2, <1>3, <1>7
  <2>2. PICK r \in registry : r.name = Found[i] /\ r.version = p.version /\ r.by = q.by
    BY <2>1, <1>1, <1>3, <1>4, <1>5 DEF HasDone
  <2> QED BY <2>2, <1>1 DEF WInv, Unique
<1>8. CASE j < i
  <2>1. j < job[p.by].at
    BY <1>1, <1>3, <1>8
  <2>2. PICK r \in registry : r.name = Found[j] /\ r.version = p.version /\ r.by = p.by
    BY <2>1, <1>2, <1>3, <1>4, <1>5 DEF HasDone
  <2> QED BY <2>2, <1>2 DEF WInv, Unique
<1> QED BY <1>3, <1>6, <1>7, <1>8

\* However many runs are started for a version, overlap, fail and are repeated, all
\* its packages come from the same one (run-task-on-workspaces.js, publish.yml).
THEOREM VersionsAreOfOneRun == ScaffoldingSpec => []OneRunPerVersion
BY OneRun, WorkspacesInvariant, PTL

LEMMA Finished == WInv => FinishedIsComplete
<1> SUFFICES ASSUME WInv, NEW r \in Runs, job[r].step = "done", job[r].version # NoVersion
             PROVE  Complete(job[r].version)
  BY DEF FinishedIsComplete
<1> SUFFICES ASSUME NEW i \in DOMAIN Found, Public(i)
             PROVE  \E p \in registry : p = [name |-> Found[i], version |-> job[r].version,
                                             by |-> p.by, needs |-> job[r].version]
  BY DEF Complete
<1>1. i < job[r].at
  <2>1. job[r].at \in Nat /\ job[r].at > Len(Found)
    BY FoundFacts DEF WInv, WorkspacesTypeOK, JobInv
  <2> QED BY <2>1, FoundFacts
<1>2. PICK p \in registry : p.name = Found[i] /\ p.version = job[r].version /\ p.by = r
                               /\ p.needs = job[r].version
  BY <1>1 DEF WInv, JobInv, HasDone
<1>3. p = [name |-> Found[i], version |-> job[r].version, by |-> p.by, needs |-> job[r].version]
  BY <1>2 DEF WInv, WorkspacesTypeOK, Published
<1> QED BY <1>3

\* A run that ended well leaves no public package of its version out, and each of
\* them needs the others in this version (updateDependencyVersionsFromLocalWorkspaces).
THEOREM FinishedRunsAreComplete == ScaffoldingSpec => []FinishedIsComplete
BY Finished, WorkspacesInvariant, PTL

LEMMA EntriesOfFiles == SInv => FilesAreListed
BY DEF SInv, Linked, Listed, FilesAreListed

\* No entry of application.json is lost to commands that do not cross: files that
\* name it are in a directory of a microservice it lists, whatever directories
\* the names are given (appendMicroserviceToApplication).
THEOREM FilesStayListed == ScaffoldingSpec => []FilesAreListed
BY EntriesOfFiles, CommandsInvariant, PTL

\* A command that ended with its microservice in application.json wrote all its files.
LEMMA DoneIsWhole ==
  ASSUME SInv, crossed = {}, NEW c \in Commands, command[c].step = "done", Made(c),
         ~SharesDirectory(command[c].name)
  PROVE  Whole(c)
<1>1. /\ \A f \in Backend : Mine(c, f)
      /\ command[c].ui => Mine(c, "App.tsx")
      /\ command[c].portal => files[DirectoryOf(c)]["App.tsx"].template = "portal"
      /\ command[c].application = application.id
  BY DEF SInv, Linked, OwnFiles, MadeIsListed
<1> QED BY <1>1 DEF Whole, Mine

LEMMA WholeMicroservices == SInv => ListedIsWhole
<1> SUFFICES ASSUME SInv, application # Nothing, crossed = {}, NEW n \in application.microservices
             PROVE  \E c \in Commands :
                      /\ command[c].name = n
                      /\ \/ command[c].step \in Writing \cup {"stopped"}
                         \/ command[c].step = "done" /\ (Whole(c) \/ SharesDirectory(n))
  BY DEF ListedIsWhole
<1>1. PICK c \in Commands : command[c].name = n /\ (Made(c) \/ command[c].step = "stopped")
  BY DEF SInv, Linked, ListedIsMade
<1>2. CASE command[c].step \in Writing \cup {"stopped"}
  BY <1>1, <1>2
<1>3. CASE command[c].step \notin Writing \cup {"stopped"}
  <2>1. Made(c) /\ command[c].step = "done"
    BY <1>1, <1>3 DEF Made
  <2> QED BY <1>1, <2>1, DoneIsWhole
<1> QED BY <1>2, <1>3

\* Commands of one name never mix their files: what application.json lists was made
\* by one command as a whole, or this command is at it or was stopped; only two
\* names with one directory mix theirs.
THEOREM MicroservicesAreWhole == ScaffoldingSpec => []ListedIsWhole
BY WholeMicroservices, CommandsInvariant, PTL

LEMMA AnnouncedPortal == SInv => PortalIsAnnounced
<1> SUFFICES ASSUME SInv, application # Nothing, application.portal, crossed = {}
             PROVE  LET c == application.id[1]
                    IN  \/ command[c].step = "done" /\ Whole(c) /\ command[c].id = <<c, "portalId">>
                        \/ command[c].step \notin {"done", "refused"}
                        \/ \E d \in Commands \ {c} : /\ command[d].name # Nothing
                                                      /\ DirectoryOf(d) = Directory[Portal]
                        \/ command[c].step = "refused" /\ command[c].left # {}
  BY DEF PortalIsAnnounced
<1>1. PICK c \in Commands :
        /\ application.id = <<c, "id">>
        /\ application.portal = command[c].portal
        /\ command[c].application \in {Nothing, application.id}
  BY DEF SInv, Linked, ApplicationIsMade
<1>2. application.id[1] = c
  BY <1>1
<1>3. CASE command[c].step = "refused"
  <2>1. command[c].left # {} \/ \E d \in Commands \ {c} : command[d].name = Portal
    BY <1>1, <1>3 DEF SInv, Linked, RefusedPortals
  <2>2. Portal # Nothing
    BY NothingAssumption, ScaffoldingAssumption
  <2> QED BY <1>2, <1>3, <2>1, <2>2 DEF DirectoryOf
<1>4. CASE command[c].step = "done"
  <2>1. /\ command[c].application # Nothing /\ command[c].id = <<c, "portalId">>
        /\ command[c].name = Portal
    BY <1>1, <1>4 DEF SInv, Shape
  <2>2. Made(c)
    BY <1>1, <1>4, <2>1 DEF Made
  <2>3. CASE ~SharesDirectory(Portal)
    BY <1>2, <1>4, <2>1, <2>2, <2>3, DoneIsWhole
  <2>4. CASE SharesDirectory(Portal)
    <3>1. PICK n \in application.microservices \ {Portal} : Directory[n] = Directory[Portal]
      BY <2>4 DEF SharesDirectory
    <3>2. PICK d \in Commands : command[d].name = n
      BY <3>1 DEF SInv, Linked, ListedIsMade
    <3>3. d # c /\ command[d].name # Nothing
      <4>1. application \in Applications
        BY DEF SInv, ScaffoldingTypeOK
      <4>2. n \in MicroserviceNames
        BY <3>1, <4>1 DEF Applications
      <4> QED BY <2>1, <3>1, <3>2, <4>2, NothingAssumption
    <3> QED BY <1>2, <3>1, <3>2, <3>3 DEF DirectoryOf
  <2> QED BY <2>3, <2>4
<1>5. CASE command[c].step \notin {"done", "refused"}
  BY <1>2, <1>5
<1> QED BY <1>3, <1>4, <1>5

\* The portal application.json announces has the id it announces, unless another
\* command has a name of its directory: if it is the same name, createApplication,
\* whose inner command may be refused then, does not tell (addPortalMicroservice).
THEOREM PortalsAreAnnounced == ScaffoldingSpec => []PortalIsAnnounced
BY AnnouncedPortal, CommandsInvariant, PTL
=============================================================================
