---------------------------- MODULE NetFeatures ----------------------------
(***************************************************************************)
(* features.json as the tools write it and the .NET backend reads it       *)
(* (DotNET/Backend/Features).  A text gives each feature its toggles, in   *)
(* their order; a feature that is not in it has none.  A file that is not  *)
(* there counts as a text without features, as the readers take it.        *)
(***************************************************************************)
EXTENDS Naturals, Sequences

CONSTANTS
  Features,
  FirstTexts,  \* what features.json may hold at first
  MaxStarts,   \* bound: starts of the backend
  Nothing      \* a reader that has not read the file

Toggles == {<<>>} \cup (BOOLEAN \X BOOLEAN) \cup {<<b>> : b \in BOOLEAN}
Texts == [Features -> Toggles]
NoFeatures == [f \in Features |-> <<>>]

ASSUME TextsAssumption == FirstTexts \subseteq Texts /\ MaxStarts \in Nat /\ Nothing \notin Texts

VARIABLES
  disk,      \* the text of features.json
  torn,      \* it has been emptied, and not been written yet
  backend,   \* "down", "watching" (in the constructor) or "up"
  deaf,      \* the watcher has been collected as garbage
  event,     \* the watcher has something to tell
  reads,     \* what the constructor and the watcher's thread have read
  features,  \* what the provider's subject holds
  raced,     \* the constructor published over what the watcher had (history)
  starts     \* starts so far (bound)

fileVars == <<disk, torn>>
backendVars == <<backend, deaf, event, reads, features, raced, starts>>

BackendTypeOK ==
  /\ disk \in Texts
  /\ torn \in BOOLEAN
  /\ backend \in {"down", "watching", "up"}
  /\ deaf \in BOOLEAN
  /\ event \in BOOLEAN
  /\ reads \in [{"constructor", "watcher"} -> {Nothing} \cup Texts]
  /\ features \in Texts
  /\ raced \in BOOLEAN
  /\ starts \in Nat

NoReads == [r \in {"constructor", "watcher"} |-> Nothing]

BackendInit ==
  /\ disk \in FirstTexts
  /\ torn = FALSE
  /\ backend = "down"
  /\ deaf = FALSE
  /\ event = FALSE
  /\ reads = NoReads
  /\ features = NoFeatures
  /\ raced = FALSE
  /\ starts = 0

\* Feature.IsOn: any of its toggles is.  What is not there is off.
IsOn(text, f) == \E i \in DOMAIN text[f] : text[f][i]

\* The watcher listens only when the constructor is done.
TouchLate == event' = (event \/ (backend = "up" /\ ~deaf))

\* Every write of the file raises an event of a watcher that listens.
Touch == event' = (event \/ (backend # "down" /\ ~deaf))

-----------------------------------------------------------------------------
(* FeaturesProvider: the constructor lets the watcher raise its events,    *)
(* on a thread of its own, and then loads the features itself.             *)

Start ==
  /\ backend = "down"
  /\ starts < MaxStarts
  /\ backend' = "watching"
  /\ deaf' = FALSE
  /\ event' = FALSE
  /\ reads' = NoReads
  /\ features' = NoFeatures
  /\ raced' = FALSE
  /\ starts' = starts + 1
  /\ UNCHANGED fileVars

\* The constructor has a read of its own; the watcher's are its events.
Reads(r) ==
  IF r = "constructor" THEN backend = "watching" ELSE event

\* LoadFeatures looks at the file ...
Read(r) ==
  /\ Reads(r)
  /\ reads[r] = Nothing
  /\ ~torn
  /\ reads' = [reads EXCEPT ![r] = disk]
  /\ event' = (event /\ r = "constructor")
  /\ UNCHANGED <<fileVars, backend, deaf, features, raced, starts>>

\* ... and publishes what was in it, whatever has been published since.
Publish(r) ==
  /\ reads[r] # Nothing
  /\ reads' = [reads EXCEPT ![r] = Nothing]
  /\ features' = reads[r]
  /\ backend' = IF r = "constructor" THEN "up" ELSE backend
  /\ raced' = IF r = "watcher" THEN backend = "watching" ELSE raced /\ reads[r] # features
  /\ UNCHANGED <<fileVars, deaf, event, starts>>

\* An empty text cannot be read.  In the watcher's thread nothing catches
\* that, and the process ends; the constructor's failure is not retried here.
ReadTorn(r) ==
  /\ Reads(r)
  /\ reads[r] = Nothing
  /\ torn
  /\ backend' = "down"
  /\ deaf' = FALSE
  /\ event' = FALSE
  /\ reads' = NoReads
  /\ features' = NoFeatures
  /\ raced' = FALSE
  /\ UNCHANGED <<fileVars, starts>>

\* Nothing but the constructor's own variable keeps the watcher.
Collect ==
  /\ backend = "up"
  /\ ~deaf
  /\ deaf' = TRUE
  /\ event' = FALSE
  /\ UNCHANGED <<fileVars, backend, reads, features, raced, starts>>

BackendNext ==
  \/ Start
  \/ \E r \in {"constructor", "watcher"} : Read(r) \/ Publish(r) \/ ReadTorn(r)
  \/ Collect

-----------------------------------------------------------------------------
(* Properties.                                                             *)

\* Once the provider has nothing left to do, it holds what the file holds,
\* also when the file changed while the provider was made; but not when its
\* watcher is gone, or the constructor published something older than what
\* the watcher had published before it.
BackendIsCurrent ==
  backend = "up" /\ ~event /\ reads = NoReads /\ ~deaf /\ ~raced
    => torn \/ features = disk
=============================================================================
