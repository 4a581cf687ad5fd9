---------------------------- MODULE FeatureView ----------------------------
(***************************************************************************)
(* What a page is promised about the features it shows, whatever goes on   *)
(* between it and the backend: it shows something the backend has held     *)
(* since the page was opened, and in one life it goes back to older features   *)
(* at most once.                                                           *)
(***************************************************************************)
EXTENDS Naturals

VARIABLES
  origin,   \* what the backend holds
  view,     \* what the page shows; 0 before it has been told anything
  since,    \* what the backend held when the page was opened
  spare     \* the page has not gone back yet

vars == <<origin, view, since, spare>>

Init ==
  /\ origin \in Nat
  /\ view = 0
  /\ since = 0
  /\ spare = TRUE

\* What the page may come to show.
Candidate(v) == v \in Nat /\ since <= v /\ v <= origin

\* The backend comes to hold something later.
Load ==
  /\ origin' \in Nat
  /\ origin' > origin
  /\ UNCHANGED <<view, since, spare>>

Forward ==
  /\ Candidate(view')
  /\ view' > view
  /\ UNCHANGED <<origin, since, spare>>

\* The initial query and the notifications arrive out of order, once.
Back ==
  /\ spare
  /\ Candidate(view')
  /\ view' < view
  /\ spare' = FALSE
  /\ UNCHANGED <<origin, since>>

\* The page is opened, or loaded again.
Open ==
  /\ view' = 0
  /\ since' = origin
  /\ spare' = TRUE
  /\ UNCHANGED origin

Next == Load \/ Forward \/ Back \/ Open

Spec == Init /\ [][Next]_vars
=============================================================================
