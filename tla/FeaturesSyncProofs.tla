------------------------- MODULE FeaturesSyncProofs -------------------------
(***************************************************************************)
(* Proofs about FeaturesSync, for any set of pages and any bounds.         *)
(***************************************************************************)
EXTENDS FeaturesSync, TLAPS

USE MaxEditsAssumption, MaxFaultsAssumption

-----------------------------------------------------------------------------
(* Every variable keeps its type. *)
THEOREM TypeCorrect == Spec => []TypeOK
<1>1. Init => TypeOK
  <2> SUFFICES ASSUME Init PROVE TypeOK
    OBVIOUS
  <2>1. BackendTypeOK
    <3>1. PICK state \in {"absent", "whole"} :
            file = [state |-> state, edit |-> IF state = "whole" THEN 1 ELSE 0]
      BY DEF Init, BackendInit
    <3>2. file \in [state : FileStates, edit : Nat]
      BY <3>1 DEF FileStates
    <3>3. QED
      BY <3>2 DEF Init, BackendInit, BackendTypeOK, BackendStates
  <2>2. wire \in [Clients -> Seq(Nat)]
    BY DEF Init
  <2>3. QED
    BY <2>1, <2>2 DEF Init, TypeOK, QueryStates
<1>2. TypeOK /\ [Next]_vars => TypeOK'
  <2> SUFFICES ASSUME TypeOK, [Next]_vars PROVE TypeOK'
    OBVIOUS
  <2> USE DEF TypeOK, BackendTypeOK, FileStates, BackendStates, QueryStates, Filling
  <2>1. CASE Load
    <3>1. CASE LoadMissing
      <4>1. event' = FALSE /\ features' = file.edit /\ UNCHANGED <<file, backend>>
        BY <3>1 DEF LoadMissing
      <4>2. Publish /\ UNCHANGED <<query, answer, sub, wire, shown, since, notified, backs, faults>>
        BY <2>1 DEF Load
      <4>3. queued' \in [Clients -> Nat]
        BY <4>2 DEF Publish
      <4>4. BackendTypeOK'
        BY <4>1
      <4>5. QED
        BY <4>2, <4>3, <4>4
    <3>2. CASE LoadParsed
      BY <2>1, <3>2 DEF Load, LoadParsed, Publish
    <3>3. QED
      BY <2>1, <3>1, <3>2 DEF Load
  <2>2. CASE LoadQuietly
    BY <2>2 DEF LoadQuietly, LoadFound, LoadThrows, pageVars, linkVars
  <2>3. CASE EditFile
    <3>1. event' \in BOOLEAN
      BY <2>3 DEF EditFile, BeginWrite, FinishWrite, Delete, Touch
    <3>2. file' \in [state : FileStates, edit : Nat]
      BY <2>3 DEF EditFile, BeginWrite, FinishWrite, Delete
    <3>3. UNCHANGED <<backend, features, pageVars, faults>>
      BY <2>3 DEF EditFile, BeginWrite, FinishWrite, Delete
    <3>4. QED
      BY <3>1, <3>2, <3>3 DEF pageVars, linkVars
  <2>4. CASE Boot
    BY <2>4 DEF Boot, BootMissing, BootFound, BootParsed, BootThrows, pageVars, linkVars
  <2>5. CASE BackendCrash
    <3> <<>> \in Seq(Nat)
      OBVIOUS
    <3>1. wire' \in [Clients -> Seq(Nat)]
      BY <2>5 DEF BackendCrash
    <3>2. query' \in [Clients -> QueryStates]
      BY <2>5 DEF BackendCrash
    <3>3. sub' \in [Clients -> {"off", "on"}] /\ queued' \in [Clients -> Nat]
      BY <2>5 DEF BackendCrash
    <3>4. faults' \in Nat
      BY <2>5 DEF BackendCrash, Fault
    <3>5. BackendTypeOK'
      <4>1. UNCHANGED <<file, features>> /\ event' = FALSE /\ backend' = "down"
        BY <2>5 DEF BackendCrash, Crash
      <4>2. QED
        BY <4>1
    <3>6. QED
      BY <2>5, <3>1, <3>2, <3>3, <3>4, <3>5 DEF BackendCrash
  <2>6. ASSUME NEW c \in Clients, Open(c) PROVE TypeOK'
    BY <2>6 DEF Open, backendVars
  <2>7. ASSUME NEW c \in Clients, AnswerQuery(c) PROVE TypeOK'
    BY <2>7 DEF AnswerQuery, backendVars
  <2>8. ASSUME NEW c \in Clients, ReceiveAnswer(c) PROVE TypeOK'
    BY <2>8 DEF ReceiveAnswer, Show, backendVars
  <2>9. ASSUME NEW c \in Clients, FailQuery(c) PROVE TypeOK'
    BY <2>9 DEF FailQuery, Fault, backendVars
  <2>10. ASSUME NEW c \in Clients, Subscribe(c) PROVE TypeOK'
    BY <2>10 DEF Subscribe, backendVars
  <2>11. ASSUME NEW c \in Clients, Notify(c) PROVE TypeOK'
    <3> wire[c] \in Seq(Nat) /\ features \in Nat
      OBVIOUS
    <3>1. Append(wire[c], features) \in Seq(Nat)
      OBVIOUS
    <3>2. wire' \in [Clients -> Seq(Nat)] /\ queued' \in [Clients -> Nat]
      BY <2>11, <3>1 DEF Notify
    <3>3. QED
      BY <2>11, <3>2 DEF Notify, backendVars
  <2>12. ASSUME NEW c \in Clients, Receive(c) PROVE TypeOK'
    <3> wire[c] \in Seq(Nat) /\ wire[c] # <<>>
      BY <2>12 DEF Receive
    <3>1. Head(wire[c]) \in Nat /\ Tail(wire[c]) \in Seq(Nat)
      OBVIOUS
    <3>2. wire' \in [Clients -> Seq(Nat)]
      BY <2>12, <3>1 DEF Receive
    <3>3. shown' \in [Clients -> Nat] /\ backs' \in [Clients -> Nat]
      BY <2>12, <3>1 DEF Receive, Show
    <3>4. QED
      BY <2>12, <3>1, <3>2, <3>3 DEF Receive, backendVars
  <2>13. ASSUME NEW c \in Clients, Drop(c) PROVE TypeOK'
    BY <2>13 DEF Drop, Fault, backendVars
  <2>14. CASE UNCHANGED vars
    BY <2>14 DEF vars, backendVars, pageVars, linkVars
  <2>15. QED
    BY <2>1, <2>2, <2>3, <2>4, <2>5, <2>6, <2>7, <2>8, <2>9, <2>10, <2>11, <2>12,
       <2>13, <2>14 DEF Next, ClientNext
<1>3. QED
  BY <1>1, <1>2, PTL DEF Spec

-----------------------------------------------------------------------------
(* The inductive invariant.  All of it but the first conjunct speaks of one *)
(* page at a time, and a step moves one page, or all of them in one way.    *)

\* What IInv says of page c.
PageOK(c) ==
  /\ \A i \in 1..Len(wire[c]) : notified[c] <= wire[c][i] /\ wire[c][i] <= features
  /\ \A i, j \in 1..Len(wire[c]) : i <= j => wire[c][i] <= wire[c][j]
  /\ shown[c] # 0 => since[c] <= shown[c] /\ shown[c] <= features
  /\ backs[c] <= 1
  /\ PageInv(c)

\* The variables of page c.
Page(c) == <<query[c], answer[c], wire[c], shown[c], since[c], notified[c], backs[c]>>

\* A page that is left alone stays good when the backend moves forward.
LEMMA PageKept ==
  ASSUME TypeOK, TypeOK', NEW c \in Clients, PageOK(c),
         features <= features', UNCHANGED Page(c)
  PROVE  PageOK(c)'
<1> features \in Nat /\ features' \in Nat /\ shown[c] \in Nat /\ notified[c] \in Nat
    /\ since[c] \in Nat /\ answer[c] \in Nat /\ wire[c] \in Seq(Nat)
  BY DEF TypeOK, BackendTypeOK
<1>1. \A i \in 1..Len(wire[c]) : wire[c][i] \in Nat
  OBVIOUS
<1>2. QED
  BY <1>1 DEF PageOK, PageInv, Page

\* A page without notifications on the way and without an answer on the way
\* keeps what it shows.
LEMMA PageCutOff ==
  ASSUME TypeOK, TypeOK', NEW c \in Clients, PageOK(c),
         features' = features, wire'[c] = <<>>,
         query'[c] \in {query[c], "failed"},
         query[c] = "done" => query'[c] = "done",
         UNCHANGED <<answer[c], shown[c], since[c], notified[c], backs[c]>>
  PROVE  PageOK(c)'
  BY DEF PageOK, PageInv

\* Opening starts a life with nothing on the way.
LEMMA PageOpened ==
  ASSUME TypeOK, TypeOK', NEW c \in Clients,
         features' = features, wire'[c] = <<>>, query'[c] = "asked",
         shown'[c] = 0, notified'[c] = 0, backs'[c] = 0, since'[c] = features
  PROVE  PageOK(c)'
  BY DEF PageOK, PageInv, TypeOK, BackendTypeOK

\* The content read for a notification is the newest, so it may go last.
LEMMA PageNotified ==
  ASSUME TypeOK, TypeOK', NEW c \in Clients, PageOK(c),
         features' = features, wire'[c] = Append(wire[c], features),
         UNCHANGED <<query[c], answer[c], shown[c], since[c], notified[c], backs[c]>>
  PROVE  PageOK(c)'
<1> features \in Nat /\ wire[c] \in Seq(Nat) /\ since[c] \in Nat /\ notified[c] \in Nat
  BY DEF TypeOK, BackendTypeOK
<1>1. Len(wire'[c]) = Len(wire[c]) + 1
  OBVIOUS
<1>2. \A i \in 1..Len(wire[c]) : wire'[c][i] = wire[c][i]
  OBVIOUS
<1>3. wire'[c][Len(wire[c]) + 1] = features
  OBVIOUS
<1>4. \A i \in 1..Len(wire'[c]) : i \in 1..Len(wire[c]) \/ i = Len(wire[c]) + 1
  BY <1>1
<1>5. \A i \in 1..Len(wire[c]) : wire[c][i] \in Nat
  OBVIOUS
<1>6. \A i \in 1..Len(wire'[c]) :
        notified[c] <= wire'[c][i] /\ wire'[c][i] <= features /\ since[c] <= wire'[c][i]
  BY <1>2, <1>3, <1>4 DEF PageOK, PageInv
<1>7. \A i, j \in 1..Len(wire'[c]) : i <= j => wire'[c][i] <= wire'[c][j]
  BY <1>1, <1>2, <1>3, <1>4, <1>5 DEF PageOK
<1>8. QED
  BY <1>6, <1>7 DEF PageOK, PageInv

\* Taking the first notification: the others are no older.
LEMMA PageReceived ==
  ASSUME TypeOK, TypeOK', NEW c \in Clients, PageOK(c),
         features' = features, wire[c] # <<>>, wire'[c] = Tail(wire[c]),
         notified'[c] = Head(wire[c]), shown'[c] = Head(wire[c]),
         backs'[c] = IF Head(wire[c]) < shown[c] THEN backs[c] + 1 ELSE backs[c],
         UNCHANGED <<query[c], answer[c], since[c]>>
  PROVE  PageOK(c)'
<1> wire[c] \in Seq(Nat) /\ wire[c] # <<>> /\ features \in Nat /\ since[c] \in Nat
    /\ notified[c] \in Nat /\ shown[c] \in Nat /\ backs[c] \in Nat
  BY DEF TypeOK, BackendTypeOK
<1>1. 1 \in 1..Len(wire[c]) /\ Head(wire[c]) = wire[c][1]
  OBVIOUS
<1>2. Len(wire'[c]) = Len(wire[c]) - 1
  OBVIOUS
<1>3. \A i \in 1..Len(wire'[c]) : i + 1 \in 1..Len(wire[c]) /\ wire'[c][i] = wire[c][i + 1]
  BY <1>2
<1>4. since[c] <= Head(wire[c]) /\ notified[c] <= Head(wire[c]) /\ Head(wire[c]) <= features
  BY <1>1 DEF PageOK, PageInv
<1>5. \A i \in 1..Len(wire'[c]) :
        Head(wire[c]) <= wire'[c][i] /\ wire'[c][i] <= features /\ since[c] <= wire'[c][i]
  BY <1>1, <1>3 DEF PageOK, PageInv
<1>6. \A i, j \in 1..Len(wire'[c]) : i <= j => wire'[c][i] <= wire'[c][j]
  BY <1>3 DEF PageOK
<1>7. backs'[c] <= 1 /\ (query[c] # "done" => backs'[c] = 0)
  BY <1>4 DEF PageOK, PageInv
<1>8. shown'[c] = notified'[c] /\ ~(shown'[c] > notified'[c])
  BY <1>1
<1>9. PageInv(c)'
  BY <1>4, <1>5, <1>7, <1>8 DEF PageOK, PageInv
<1>10. QED
  BY <1>4, <1>5, <1>6, <1>7, <1>9 DEF PageOK

\* The answer takes a page back only if it shows its last notification.
LEMMA PageAnswered ==
  ASSUME TypeOK, TypeOK', NEW c \in Clients, PageOK(c),
         features' = features, query[c] = "answered", query'[c] = "done",
         shown'[c] = answer[c],
         backs'[c] = IF answer[c] < shown[c] THEN backs[c] + 1 ELSE backs[c],
         UNCHANGED <<answer[c], wire[c], since[c], notified[c]>>
  PROVE  PageOK(c)'
<1> answer[c] \in Nat /\ features \in Nat /\ since[c] \in Nat
    /\ notified[c] \in Nat /\ shown[c] \in Nat
  BY DEF TypeOK, BackendTypeOK
<1>1. since[c] <= answer[c] /\ answer[c] <= features /\ shown[c] = notified[c] /\ backs[c] = 0
  BY DEF PageOK, PageInv
<1>2. backs'[c] <= 1 /\ (answer[c] > notified[c] => backs'[c] = 0)
  BY <1>1
<1>3. QED
  BY <1>1, <1>2 DEF PageOK, PageInv

-----------------------------------------------------------------------------
\* What a load or a start puts into the provider is no older than what was
\* there, and a change of the file makes it newer.
LEMMA BackendMovesForward ==
  ASSUME TypeOK, features <= file.edit,
         TypeOK', Load \/ LoadQuietly \/ EditFile \/ Boot
  PROVE  features <= features' /\ (features <= file.edit)'
<1> file.edit \in Nat /\ features \in Nat
  BY DEF TypeOK, BackendTypeOK
<1>1. CASE Load
  BY <1>1 DEF Load, LoadMissing, LoadParsed
<1>2. CASE LoadQuietly
  BY <1>2 DEF LoadQuietly, LoadFound, LoadThrows
<1>3. CASE EditFile
  <2>1. UNCHANGED features
    BY <1>3 DEF EditFile, BeginWrite, FinishWrite, Delete
  <2>2. file'.edit >= file.edit
    <3> file \in [state : FileStates, edit : Nat]
      BY DEF TypeOK, BackendTypeOK
    <3>1. CASE BeginWrite
      BY <3>1 DEF BeginWrite
    <3>2. CASE FinishWrite
      BY <3>2 DEF FinishWrite
    <3>3. CASE Delete
      BY <3>3 DEF Delete
    <3>4. QED
      BY <1>3, <3>1, <3>2, <3>3 DEF EditFile
  <2>3. file'.edit \in Nat
    BY DEF TypeOK, BackendTypeOK
  <2>4. QED
    BY <2>1, <2>2, <2>3
<1>4. CASE Boot
  BY <1>4 DEF Boot, BootMissing, BootFound, BootParsed, BootThrows
<1>5. QED
  BY <1>1, <1>2, <1>3, <1>4

LEMMA IInvInductive == TypeOK /\ TypeOK' /\ IInv /\ [Next]_vars => IInv'
<1> SUFFICES ASSUME TypeOK, TypeOK', features <= file.edit, \A c \in Clients : PageOK(c),
                    [Next]_vars
             PROVE  (features <= file.edit)' /\ \A c \in Clients : PageOK(c)'
  BY DEF IInv, PageOK, WireInOrder, NothingFromBeforeOpening, GoesBackAtMostOnce
<1> USE DEF backendVars
<1> features \in Nat
  BY DEF TypeOK, BackendTypeOK
<1>1. CASE Load \/ LoadQuietly \/ EditFile \/ Boot
  <2>1. features <= features' /\ (features <= file.edit)'
    BY <1>1, BackendMovesForward
  <2>2. \A c \in Clients : UNCHANGED Page(c)
    BY <1>1 DEF Load, LoadQuietly, EditFile, Boot, pageVars, linkVars, Page
  <2>3. QED
    BY <2>1, <2>2, PageKept
<1>2. CASE BackendCrash
  <2>1. UNCHANGED <<file, features, answer, shown, since, notified, backs>>
    BY <1>2 DEF BackendCrash, Crash
  <2>2. ASSUME NEW c \in Clients
        PROVE  /\ wire'[c] = <<>> /\ query'[c] \in {query[c], "failed"}
               /\ query[c] = "done" => query'[c] = "done"
    BY <1>2 DEF BackendCrash, Filling
  <2>3. QED
    BY <2>1, <2>2, PageCutOff
<1>3. ASSUME NEW c \in Clients, ClientNext(c)
      PROVE  (features <= file.edit)' /\ \A d \in Clients : PageOK(d)'
  <2>1. UNCHANGED <<file, features>>
    BY <1>3 DEF ClientNext, Open, AnswerQuery, ReceiveAnswer, FailQuery, Subscribe,
                Notify, Receive, Drop
  <2>2. ASSUME NEW d \in Clients, d # c
        PROVE  UNCHANGED Page(d)
    <3> USE DEF TypeOK, Page
    <3>1. CASE Open(c)
      BY <3>1, <2>2 DEF Open
    <3>2. CASE AnswerQuery(c)
      BY <3>2, <2>2 DEF AnswerQuery
    <3>3. CASE ReceiveAnswer(c)
      BY <3>3, <2>2 DEF ReceiveAnswer, Show
    <3>4. CASE FailQuery(c)
      BY <3>4, <2>2 DEF FailQuery
    <3>5. CASE Subscribe(c)
      BY <3>5, <2>2 DEF Subscribe
    <3>6. CASE Notify(c)
      BY <3>6, <2>2 DEF Notify
    <3>7. CASE Receive(c)
      BY <3>7, <2>2 DEF Receive, Show
    <3>8. CASE Drop(c)
      BY <3>8, <2>2 DEF Drop
    <3>9. QED
      BY <1>3, <3>1, <3>2, <3>3, <3>4, <3>5, <3>6, <3>7, <3>8 DEF ClientNext
  <2>3. PageOK(c)'
    <3>1. CASE Open(c)
      BY <3>1, PageOpened DEF Open, TypeOK
    <3>2. CASE AnswerQuery(c)
      BY <3>2 DEF AnswerQuery, PageOK, PageInv, TypeOK
    <3>3. CASE ReceiveAnswer(c)
      BY <3>3, PageAnswered DEF ReceiveAnswer, Show, TypeOK
    <3>4. CASE FailQuery(c)
      BY <3>4 DEF FailQuery, PageOK, PageInv, Filling, TypeOK
    <3>5. CASE Subscribe(c)
      BY <3>5, PageKept DEF Subscribe, Page
    <3>6. CASE Notify(c)
      BY <3>6, PageNotified DEF Notify, TypeOK
    <3>7. CASE Receive(c)
      BY <3>7, PageReceived DEF Receive, Show, TypeOK
    <3>8. CASE Drop(c)
      BY <3>8, PageCutOff DEF Drop, TypeOK
    <3>9. QED
      BY <1>3, <3>1, <3>2, <3>3, <3>4, <3>5, <3>6, <3>7, <3>8 DEF ClientNext
  <2>4. \A d \in Clients : PageOK(d)'
    BY <2>1, <2>2, <2>3, PageKept
  <2>5. QED
    BY <2>1, <2>4
<1>4. CASE UNCHANGED vars
  BY <1>4, PageKept DEF vars, pageVars, linkVars, Page
<1>5. QED
  BY <1>1, <1>2, <1>3, <1>4 DEF Next

\* The inductive invariant holds: in particular notifications arrive in the
\* order of their contents, whatever happens to sockets and backends.
THEOREM Invariance == Spec => []IInv
<1>1. Init => IInv
  BY DEF Init, BackendInit, IInv, WireInOrder, NothingFromBeforeOpening,
         GoesBackAtMostOnce, PageInv
<1>2. QED
  BY <1>1, IInvInductive, TypeCorrect, PTL DEF Spec

\* Notifications on the way to a page are in the order of their contents.
THEOREM NotificationsInOrder == Spec => []WireInOrder
  BY Invariance, PTL DEF IInv

\* No page ever shows features older than those the backend held when the
\* page was opened.
THEOREM PagesAreNeverOlderThanTheirOpening == Spec => []NothingFromBeforeOpening
  BY Invariance, PTL DEF IInv

\* The race of the initial query with the subscription takes a page back to
\* older features at most once in its life.
THEOREM PagesGoBackAtMostOnce == Spec => []GoesBackAtMostOnce
  BY Invariance, PTL DEF IInv

-----------------------------------------------------------------------------
\* How a page that moves between two good states looks to FeatureView.
LEMMA PageStep ==
  ASSUME TypeOK, TypeOK', IInv, IInv', NEW c \in Clients, UNCHANGED features,
         UNCHANGED since[c],
         \/ UNCHANGED <<shown[c], backs[c]>>
         \/ /\ backs'[c] = IF shown'[c] < shown[c] THEN backs[c] + 1 ELSE backs[c]
            /\ since[c] <= shown'[c] /\ shown'[c] <= features
  PROVE  [View(c)!Next]_(View(c)!vars)
<1> shown[c] \in Nat /\ shown'[c] \in Nat /\ backs[c] \in Nat /\ backs'[c] \in Nat
  BY DEF TypeOK
<1>1. CASE UNCHANGED <<shown[c], backs[c]>>
  BY <1>1 DEF View!vars
<1>2. CASE /\ backs'[c] = IF shown'[c] < shown[c] THEN backs[c] + 1 ELSE backs[c]
           /\ since[c] <= shown'[c] /\ shown'[c] <= features
  <2>1. CASE shown'[c] < shown[c]
    <3>1. backs[c] = 0 /\ backs'[c] = 1
      BY <1>2, <2>1 DEF IInv, GoesBackAtMostOnce
    <3>2. View(c)!Back
      BY <1>2, <2>1, <3>1 DEF View!Back, View!Candidate
    <3>3. QED
      BY <3>2 DEF View!Next
  <2>2. CASE shown'[c] > shown[c]
    BY <1>2, <2>2 DEF View!Next, View!Forward, View!Candidate
  <2>3. CASE shown'[c] = shown[c]
    BY <1>2, <2>3 DEF View!vars
  <2>4. QED
    BY <2>1, <2>2, <2>3
<1>3. QED
  BY <1>1, <1>2

LEMMA StepImplementsView ==
  ASSUME TypeOK, TypeOK', IInv, IInv', [Next]_vars, NEW d \in Clients
  PROVE  [View(d)!Next]_(View(d)!vars)
<1> USE DEF backendVars
<1>1. CASE Load \/ LoadQuietly \/ EditFile \/ Boot
  <2>1. features <= features' /\ features \in Nat /\ features' \in Nat
    BY <1>1, BackendMovesForward DEF IInv, TypeOK, BackendTypeOK
  <2>2. UNCHANGED <<shown[d], since[d], backs[d]>>
    BY <1>1 DEF Load, LoadQuietly, EditFile, Boot, pageVars
  <2>3. CASE features' = features
    BY <2>2, <2>3 DEF View!vars
  <2>4. CASE features' > features
    BY <2>1, <2>2, <2>4 DEF View!Next, View!Load
  <2>5. QED
    BY <2>1, <2>3, <2>4
<1>2. CASE BackendCrash
  BY <1>2 DEF BackendCrash, Crash, View!vars
<1>3. ASSUME NEW c \in Clients, Open(c)
      PROVE  [View(d)!Next]_(View(d)!vars)
  <2>1. CASE d = c
    BY <1>3, <2>1 DEF Open, TypeOK, View!Next, View!Open
  <2>2. CASE d # c
    BY <1>3, <2>2 DEF Open, TypeOK, View!vars
  <2>3. QED
    BY <2>1, <2>2
<1>4. ASSUME NEW c \in Clients, ReceiveAnswer(c)
      PROVE  [View(d)!Next]_(View(d)!vars)
  <2>1. CASE d = c
    <3>1. since[c] <= answer[c] /\ answer[c] <= features
      BY <1>4 DEF ReceiveAnswer, IInv, PageInv
    <3>2. QED
      BY <1>4, <2>1, <3>1, PageStep DEF ReceiveAnswer, Show, TypeOK
  <2>2. CASE d # c
    BY <1>4, <2>2 DEF ReceiveAnswer, Show, TypeOK, View!vars
  <2>3. QED
    BY <2>1, <2>2
<1>5. ASSUME NEW c \in Clients, Receive(c)
      PROVE  [View(d)!Next]_(View(d)!vars)
  <2>1. CASE d = c
    <3> wire[c] \in Seq(Nat) /\ wire[c] # <<>>
      BY <1>5 DEF Receive, TypeOK
    <3>1. 1 \in 1..Len(wire[c]) /\ Head(wire[c]) = wire[c][1]
      OBVIOUS
    <3>2. since[c] <= Head(wire[c]) /\ Head(wire[c]) <= features
      BY <3>1 DEF IInv, PageInv, WireInOrder
    <3>3. QED
      BY <1>5, <2>1, <3>2, PageStep DEF Receive, Show, TypeOK
  <2>2. CASE d # c
    BY <1>5, <2>2 DEF Receive, Show, TypeOK, View!vars
  <2>3. QED
    BY <2>1, <2>2
<1>6. ASSUME NEW c \in Clients,
             AnswerQuery(c) \/ FailQuery(c) \/ Subscribe(c) \/ Notify(c) \/ Drop(c)
      PROVE  [View(d)!Next]_(View(d)!vars)
  BY <1>6 DEF AnswerQuery, FailQuery, Subscribe, Notify, Drop, View!vars
<1>7. CASE UNCHANGED vars
  BY <1>7 DEF vars, pageVars, View!vars
<1>8. QED
  BY <1>1, <1>2, <1>3, <1>4, <1>5, <1>6, <1>7 DEF Next, ClientNext

\* Every page implements FeatureView: what the protocol, with its queues, its
\* faults and its two racing connections, promises to the page.
THEOREM Implementation == Spec => PagesImplementView
<1>1. Init => \A c \in Clients : View(c)!Init
  <2> SUFFICES ASSUME Init, NEW c \in Clients PROVE View(c)!Init
    OBVIOUS
  <2>1. QED
    BY DEF Init, BackendInit, View!Init
<1>2. TypeOK /\ TypeOK' /\ IInv /\ IInv' /\ [Next]_vars
        => [\A c \in Clients : [View(c)!Next]_(View(c)!vars)]_vars
  BY StepImplementsView
<1>3. QED
  BY <1>1, <1>2, TypeCorrect, Invariance, PTL DEF Spec, PagesImplementView
=============================================================================
