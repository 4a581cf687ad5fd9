---------------------------- MODULE FeaturesSync ----------------------------
(***************************************************************************)
(* The features of a backend and the pages that show them:                 *)
(*   - FeaturesSubscriptionsResolver.ts publishes an empty FEATURES event  *)
(*     for every load; each subscriber has a queue of such events in the   *)
(*     backend, and the content of the notification is read when the event *)
(*     is executed, not when it was published;                             *)
(*   - web/features/FeaturesProvider.ts asks an initial query over HTTP    *)
(*     and subscribes over a WebSocket, both at once; whatever arrives     *)
(*     replaces the features of the page.                                  *)
(* The two ways race with each other, with changes of the file, and with   *)
(* sockets and backends that go away.                                      *)
(***************************************************************************)
EXTENDS FeaturesBackend, Sequences

CONSTANTS
  Clients,      \* the pages
  MaxFaults     \* bound: reloads, dropped sockets, failed queries, crashes

ASSUME MaxFaultsAssumption == MaxFaults \in Nat

VARIABLES
  query,    \* query[c]: the initial query of page c
  answer,   \* answer[c]: the features in the answer on its way to c
  sub,      \* sub[c]: "on" when the backend has a subscription of c
  queued,   \* queued[c]: FEATURES events published to c, not yet executed
  wire,     \* wire[c]: notifications on the WebSocket to c, oldest first
  shown,    \* shown[c]: the features the page shows
  since,    \* since[c]: what the backend held when c was opened (history)
  notified, \* notified[c]: the last notification c received (history)
  backs,    \* backs[c]: how often c went back to older features (history)
  faults    \* faults so far (bound)

linkVars == <<query, answer, sub, queued, wire>>
pageVars == <<linkVars, shown, since, notified, backs>>
vars == <<backendVars, pageVars, faults>>

QueryStates == {"closed", "asked", "answered", "done", "failed"}

TypeOK ==
  /\ BackendTypeOK
  /\ query \in [Clients -> QueryStates]
  /\ answer \in [Clients -> Nat]
  /\ sub \in [Clients -> {"off", "on"}]
  /\ queued \in [Clients -> Nat]
  /\ wire \in [Clients -> Seq(Nat)]
  /\ shown \in [Clients -> Nat]
  /\ since \in [Clients -> Nat]
  /\ notified \in [Clients -> Nat]
  /\ backs \in [Clients -> Nat]
  /\ faults \in Nat

Init ==
  /\ BackendInit
  /\ query = [c \in Clients |-> "closed"]
  /\ answer = [c \in Clients |-> 0]
  /\ sub = [c \in Clients |-> "off"]
  /\ queued = [c \in Clients |-> 0]
  /\ wire = [c \in Clients |-> <<>>]
  /\ shown = [c \in Clients |-> 0]
  /\ since = [c \in Clients |-> 0]
  /\ notified = [c \in Clients |-> 0]
  /\ backs = [c \in Clients |-> 0]
  /\ faults = 0

\* The initial query may still be answered.
Filling(c) == query[c] \in {"asked", "answered"}

Fault == faults < MaxFaults /\ faults' = faults + 1

-----------------------------------------------------------------------------
(* The backend and its subscribers.                                        *)

\* The subscriber of the provider: pubSub.publish('FEATURES', {}).
Publish ==
  queued' = [c \in Clients |-> IF sub[c] = "on" THEN queued[c] + 1 ELSE queued[c]]

\* A load that reaches next(), and with it the publishing subscriber.
Load ==
  /\ LoadMissing \/ LoadParsed
  /\ Publish
  /\ UNCHANGED <<query, answer, sub, wire, shown, since, notified, backs, faults>>

\* The steps of a load that no subscriber of the provider notices.
LoadQuietly ==
  /\ LoadFound \/ LoadThrows
  /\ UNCHANGED <<pageVars, faults>>

EditFile ==
  /\ BeginWrite \/ FinishWrite \/ Delete
  /\ UNCHANGED <<pageVars, faults>>

\* Nobody is subscribed while the backend starts.
Boot ==
  /\ BootMissing \/ BootFound \/ BootParsed \/ BootThrows
  /\ UNCHANGED <<pageVars, faults>>

\* The process ends: every socket breaks, every request in the air fails.
BackendCrash ==
  /\ Fault
  /\ Crash
  /\ query' = [c \in Clients |->
                 IF Filling(c) THEN "failed" ELSE query[c]]
  /\ sub' = [c \in Clients |-> "off"]
  /\ queued' = [c \in Clients |-> 0]
  /\ wire' = [c \in Clients |-> <<>>]
  /\ UNCHANGED <<answer, shown, since, notified, backs>>

\* features(): the query is executed with what the resolver holds now.
AnswerQuery(c) ==
  /\ backend = "idle"
  /\ query[c] = "asked"
  /\ query' = [query EXCEPT ![c] = "answered"]
  /\ answer' = [answer EXCEPT ![c] = features]
  /\ UNCHANGED <<backendVars, sub, queued, wire, shown, since, notified, backs, faults>>

\* The subscription is registered; after a reconnect, once more.
Subscribe(c) ==
  /\ backend = "idle"
  /\ query[c] # "closed"
  /\ sub[c] = "off"
  /\ sub' = [sub EXCEPT ![c] = "on"]
  /\ UNCHANGED <<backendVars, query, answer, queued, wire, shown, since, notified, backs, faults>>

\* The event is executed but no notification is sent.
NotifyNothing(c) ==
  /\ backend = "idle"
  /\ queued[c] > 0
  /\ queued' = [queued EXCEPT ![c] = @ - 1]
  /\ UNCHANGED <<backendVars, query, answer, sub, wire, shown, since, notified, backs, faults>>

\* system_newFeatures: a queued event is executed, its content read now.
Notify(c) ==
  /\ backend = "idle"
  /\ queued[c] > 0
  /\ queued' = [queued EXCEPT ![c] = @ - 1]
  /\ wire' = [wire EXCEPT ![c] = Append(@, features)]
  /\ UNCHANGED <<backendVars, query, answer, sub, shown, since, notified, backs, faults>>

-----------------------------------------------------------------------------
(* The page.                                                               *)

\* A new page that keeps the subscription of the page that was there before.
OpenKeepsSocket(c) ==
  /\ query[c] = "closed" \/ faults < MaxFaults
  /\ faults' = IF query[c] = "closed" THEN faults ELSE faults + 1
  /\ query' = [query EXCEPT ![c] = "asked"]
  /\ shown' = [shown EXCEPT ![c] = 0]
  /\ since' = [since EXCEPT ![c] = features]
  /\ notified' = [notified EXCEPT ![c] = 0]
  /\ backs' = [backs EXCEPT ![c] = 0]
  /\ UNCHANGED <<backendVars, answer, sub, queued, wire>>

\* The page is opened or loaded again: a new provider, which queries and
\* subscribes.  Opening it the first time is no fault.
Open(c) ==
  /\ query[c] = "closed" \/ faults < MaxFaults
  /\ faults' = IF query[c] = "closed" THEN faults ELSE faults + 1
  /\ query' = [query EXCEPT ![c] = "asked"]
  /\ sub' = [sub EXCEPT ![c] = "off"]
  /\ queued' = [queued EXCEPT ![c] = 0]
  /\ wire' = [wire EXCEPT ![c] = <<>>]
  /\ shown' = [shown EXCEPT ![c] = 0]
  /\ since' = [since EXCEPT ![c] = features]
  /\ notified' = [notified EXCEPT ![c] = 0]
  /\ backs' = [backs EXCEPT ![c] = 0]
  /\ UNCHANGED <<backendVars, answer>>

\* setFeaturesFromNotification: what arrived replaces what was there.
Show(c, edit) ==
  /\ shown' = [shown EXCEPT ![c] = edit]
  /\ backs' = [backs EXCEPT ![c] = IF edit < shown[c] THEN @ + 1 ELSE @]

\* The page asks once more after its answer.
ReceiveAnswerAgain(c) ==
  /\ query[c] = "answered"
  /\ query' = [query EXCEPT ![c] = "asked"]
  /\ Show(c, answer[c])
  /\ UNCHANGED <<backendVars, answer, sub, queued, wire, since, notified, faults>>

\* populateInitial goes on after its await.
ReceiveAnswer(c) ==
  /\ query[c] = "answered"
  /\ query' = [query EXCEPT ![c] = "done"]
  /\ Show(c, answer[c])
  /\ UNCHANGED <<backendVars, answer, sub, queued, wire, since, notified, faults>>

\* The query is rejected: nobody catches it, nobody asks again.
FailQuery(c) ==
  /\ Fault
  /\ Filling(c)
  /\ query' = [query EXCEPT ![c] = "failed"]
  /\ UNCHANGED <<backendVars, answer, sub, queued, wire, shown, since, notified, backs>>

\* The last notification overtakes the others.
ReceiveNewestFirst(c) ==
  /\ wire[c] # <<>>
  /\ Show(c, wire[c][Len(wire[c])])
  /\ notified' = [notified EXCEPT ![c] = wire[c][Len(wire[c])]]
  /\ wire' = [wire EXCEPT ![c] = SubSeq(@, 1, Len(@) - 1)]
  /\ UNCHANGED <<backendVars, query, answer, sub, queued, since, faults>>

\* The observer of the subscription.
Receive(c) ==
  /\ wire[c] # <<>>
  /\ Show(c, Head(wire[c]))
  /\ notified' = [notified EXCEPT ![c] = Head(wire[c])]
  /\ wire' = [wire EXCEPT ![c] = Tail(@)]
  /\ UNCHANGED <<backendVars, query, answer, sub, queued, since, faults>>

\* The socket breaks.  The client reconnects by itself (Subscribe), but
\* nothing that was published in between is sent later.
Drop(c) ==
  /\ Fault
  /\ sub[c] = "on"
  /\ sub' = [sub EXCEPT ![c] = "off"]
  /\ queued' = [queued EXCEPT ![c] = 0]
  /\ wire' = [wire EXCEPT ![c] = <<>>]
  /\ UNCHANGED <<backendVars, query, answer, shown, since, notified, backs>>

-----------------------------------------------------------------------------
ClientNext(c) ==
  \/ Open(c) \/ AnswerQuery(c) \/ ReceiveAnswer(c) \/ FailQuery(c)
  \/ Subscribe(c) \/ Notify(c) \/ Receive(c) \/ Drop(c)

Next ==
  \/ Load \/ LoadQuietly \/ EditFile \/ Boot \/ BackendCrash
  \/ \E c \in Clients : ClientNext(c)

Spec == Init /\ [][Next]_vars

(***************************************************************************)
(* Node's event loop runs what is ready, the runtime restarts a backend    *)
(* that ended, and the transports deliver while they are up.  Nothing is   *)
(* assumed of the people who write the file, or of pages being opened.     *)
(***************************************************************************)
Fairness ==
  /\ WF_vars(Load \/ LoadQuietly)
  /\ WF_vars(Boot)
  /\ \A c \in Clients :
       /\ WF_vars(AnswerQuery(c))
       /\ WF_vars(ReceiveAnswer(c))
       /\ WF_vars(Subscribe(c))
       /\ WF_vars(Notify(c))
       /\ WF_vars(Receive(c))

FairSpec == Spec /\ Fairness

-----------------------------------------------------------------------------
(* Properties.                                                             *)

\* The notifications on the way to a page, after those it has received, are
\* in the order of their contents, and none is newer than what the backend
\* holds: reading the content when the event is executed (and not when it is
\* published) never reorders it.
WireInOrder ==
  \A c \in Clients :
    /\ \A i \in 1..Len(wire[c]) : notified[c] <= wire[c][i] /\ wire[c][i] <= features
    /\ \A i, j \in 1..Len(wire[c]) : i <= j => wire[c][i] <= wire[c][j]

\* A page that has been told anything shows features the backend held at or
\* after the moment the page was opened: no frame or answer meant for an
\* earlier life of the page, and no older content, is ever shown.
NothingFromBeforeOpening ==
  \A c \in Clients : shown[c] # 0 => since[c] <= shown[c] /\ shown[c] <= features

\* The initial query and the subscription race, and each may overtake the
\* other: a page may be taken back to older features by it, but at most once
\* in its life, however often the file, the socket and the backend change.
GoesBackAtMostOnce == \A c \in Clients : backs[c] <= 1

\* The inductive invariant behind the three: besides them, the provider holds
\* nothing newer than the file, an answer on its way is no older than the
\* page, and a page shows its last notification until it has its answer;
\* afterwards, when it shows something else (the answer), that is newer than
\* the last notification only if the page has not gone back yet.
PageInv(c) ==
  /\ since[c] <= features
  /\ notified[c] <= features
  /\ \A i \in 1..Len(wire[c]) : since[c] <= wire[c][i]
  /\ query[c] = "answered" => since[c] <= answer[c] /\ answer[c] <= features
  /\ query[c] # "done" => shown[c] = notified[c] /\ backs[c] = 0
  /\ shown[c] > notified[c] => backs[c] = 0

IInv ==
  /\ features <= file.edit
  /\ WireInOrder
  /\ NothingFromBeforeOpening
  /\ GoesBackAtMostOnce
  /\ \A c \in Clients : PageInv(c)

\* What the backend published to a page with a settled query gets there,
\* unless the socket breaks: the page shows that content or a later one.
NotificationsArrive ==
  \A c \in Clients : \A v \in 1..MaxEdits :
    (queued[c] > 0 /\ features >= v /\ ~Filling(c)) ~> (shown[c] >= v \/ sub[c] = "off")

\* A change that is completely written is loaded, in spite of loads that
\* found the file half written or gone and of restarts, unless the file is
\* changed once more, or a start that found it half written left a process
\* behind that never serves.
WrittenIsLoaded ==
  \A v \in 1..MaxEdits :
    (file = [state |-> "whole", edit |-> v]) ~> (features >= v \/ file.state # "whole" \/ backend = "stuck")

\* The documentation's promise (feature-toggling/react/index.md): a page knows
\* when a feature changes.  When everything has come to rest, a page that
\* has its answer and its subscription shows what is in the file.
PagesConverge ==
  \A c \in Clients :
    <>[](query[c] = "done" /\ sub[c] = "on" /\ file.state = "whole")
      => <>[](shown[c] = file.edit)

\* Each page sees the backend the way FeatureView promises.
View(c) == INSTANCE FeatureView WITH
  origin <- features, view <- shown[c], since <- since[c], spare <- backs[c] = 0

PagesImplementView ==
  /\ \A c \in Clients : View(c)!Init
  /\ [][\A c \in Clients : [View(c)!Next]_(View(c)!vars)]_vars
=============================================================================
