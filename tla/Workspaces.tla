------------------------------ MODULE Workspaces ------------------------------
(***************************************************************************)
(* run-task-on-workspaces.js: a task is run on every package of the        *)
(* repository, one after the other in the order they are found in, until   *)
(* it fails on one.  Publishing a version writes it into the dependencies  *)
(* on other packages of the repository before each package is published.   *)
(*                                                                         *)
(* A run has a checkout of its own; what all runs share is the registry,   *)
(* which is external: it takes a version of a package once, and may have   *)
(* taken it although yarn has failed.  The workflow of the repository      *)
(* starts a run for every pull request that is closed, so that runs        *)
(* overlap, are cancelled, and are repeated for the same version.          *)
(***************************************************************************)
EXTENDS Naturals, Sequences

CONSTANTS
  Found,         \* the names of the packages, in the order they are found in
  Private,       \* those that are private
  Dependencies,  \* Dependencies[name]: packages of the repository it needs
  Runs,
  Versions,
  NoVersion

Names == {Found[i] : i \in DOMAIN Found}

\* yarn refuses two packages of one name.
ASSUME WorkspacesAssumption ==
  /\ Found \in Seq(Names)
  /\ \A i, j \in DOMAIN Found : Found[i] = Found[j] => i = j
  /\ Private \subseteq Names
  /\ Dependencies \in [Names -> SUBSET Names]
  /\ NoVersion \notin Versions

VARIABLES
  job,      \* job[run]: the version it publishes, the place it is at and its step
  manifest, \* manifest[run][name]: version of the dependencies in its package.json
  registry  \* the published packages

workspaceVars == <<job, manifest, registry>>

JobSteps == {"new", "looking", "publishing", "done", "failed"}
Published == [name : Names, version : Versions, by : Runs, needs : Versions \cup {NoVersion}]

WorkspacesTypeOK ==
  /\ job \in [Runs -> [version : Versions \cup {NoVersion}, at : 1..Len(Found) + 1,
                       step : JobSteps]]
  /\ manifest \in [Runs -> [Names -> Versions \cup {NoVersion}]]
  /\ registry \subseteq Published

WorkspacesInit ==
  /\ job = [r \in Runs |-> [version |-> NoVersion, at |-> 1, step |-> "new"]]
  /\ manifest = [r \in Runs |-> [n \in Names |-> NoVersion]]
  /\ registry = {}

-----------------------------------------------------------------------------
\* The places at which the loop has a package to publish.
Public(i) == Found[i] \notin Private

Taken(name, version) == \E p \in registry : p.name = name /\ p.version = version

To(r, i, step) == job' = [job EXCEPT ![r].at = i, ![r].step = step]

\* A run is started: publish-version with a version, or, with NoVersion, without
\* one or another task; then it publishes nothing.
StartJob(r, version) ==
  /\ job[r].step = "new"
  /\ job' = [job EXCEPT ![r] = [version |-> version, at |-> 1, step |-> "looking"]]
  /\ UNCHANGED <<manifest, registry>>

\* Nothing is published of a package that is private; the script of another task is
\* missing or succeeds.
Skip(r) ==
  LET i == job[r].at
  IN  /\ job[r].step = "looking"
      /\ i <= Len(Found)
      /\ job[r].version = NoVersion \/ ~Public(i)
      /\ To(r, i + 1, "looking")
      /\ UNCHANGED <<manifest, registry>>

\* The version is not saved before the package is published.
LeaveDependencies(r) ==
  LET i == job[r].at
  IN  /\ job[r].step = "looking" /\ job[r].version # NoVersion
      /\ i <= Len(Found)
      /\ Public(i)
      /\ To(r, i, "publishing")
      /\ UNCHANGED <<manifest, registry>>

\* updateDependencyVersionsFromLocalWorkspaces, and the file is saved.
UpdateDependencies(r) ==
  LET i == job[r].at
  IN  /\ job[r].step = "looking" /\ job[r].version # NoVersion
      /\ i <= Len(Found)
      /\ Public(i)
      /\ manifest' = [manifest EXCEPT ![r][Found[i]] = job[r].version]
      /\ To(r, i, "publishing")
      /\ UNCHANGED registry

Package(r) ==
  [name |-> Found[job[r].at], version |-> job[r].version,
   by |-> r, needs |-> manifest[r][Found[job[r].at]]]

\* The script goes on with the next package whether one was published or not.
PublishUnchecked(r) ==
  /\ job[r].step = "publishing"
  /\ \/ UNCHANGED registry
     \/ ~Taken(Package(r).name, job[r].version) /\ registry' = registry \cup {Package(r)}
  /\ To(r, job[r].at + 1, "looking")
  /\ UNCHANGED manifest

\* yarn publish.
Publish(r) ==
  /\ job[r].step = "publishing"
  /\ ~Taken(Package(r).name, job[r].version)
  /\ registry' = registry \cup {Package(r)}
  /\ To(r, job[r].at + 1, "looking")
  /\ UNCHANGED manifest

\* It has failed: the version is taken, the registry is not reached, or its
\* answer is lost.  So may the script of another task; or the run is cancelled.
FailJob(r) ==
  /\ job[r].step \in {"looking", "publishing"}
  /\ To(r, job[r].at, "failed")
  /\ \/ UNCHANGED registry
     \/ /\ job[r].step = "publishing"
        /\ ~Taken(Package(r).name, job[r].version)
        /\ registry' = registry \cup {Package(r)}
  /\ UNCHANGED manifest

EndJob(r) ==
  /\ job[r].step = "looking"
  /\ job[r].at > Len(Found)
  /\ To(r, job[r].at, "done")
  /\ UNCHANGED <<manifest, registry>>

WorkspacesNext ==
  \E r \in Runs :
    \/ \E version \in Versions \cup {NoVersion} : StartJob(r, version)
    \/ Skip(r) \/ UpdateDependencies(r) \/ Publish(r) \/ FailJob(r) \/ EndJob(r)

WorkspacesSpec == WorkspacesInit /\ [][WorkspacesNext]_workspaceVars

-----------------------------------------------------------------------------
(* Properties.                                                             *)

\* All packages of a version were published by one run, however runs for it
\* overlap, fail and are repeated: the first package is taken by one of them,
\* and the others stop there.
OneRunPerVersion ==
  \A p, q \in registry : p.version = q.version => p.by = q.by

\* A run that ended well has published every public package of its version, each
\* of them needing the others in this version: what depends on it is installed.
Complete(version) ==
  \A i \in DOMAIN Found :
    Public(i) => \E p \in registry : p = [name |-> Found[i], version |-> version,
                                          by |-> p.by, needs |-> version]

FinishedIsComplete ==
  \A r \in Runs :
    job[r].step = "done" /\ job[r].version # NoVersion => Complete(job[r].version)
=============================================================================
