----------------------------- MODULE BackendProofs -----------------------------
(* Proofs about RequestContext, Aggregates and Documents, for any sets of      *)
(* work, tenants, types, guids and custom types, and any rule.                 *)
EXTENDS Aggregates, Documents, FiniteSetTheorems, TLAPS

-----------------------------------------------------------------------------
(* The request context.                                                      *)

LEMMA TypesFirst == Init => TypeOK
BY WorkAssumption DEF Init, TypeOK, Maybe, NoDatabase, Stages, Work

LEMMA TypesKept ==
  ASSUME TypeOK, [Next]_vars
  PROVE  TypeOK'
<1> USE WorkAssumption DEF Work
<1> USE DEF TypeOK, Maybe, Stages
<1>1. ASSUME NEW r \in Requests, NEW t \in Tenants, Enter(r, t) PROVE TypeOK'
  BY <1>1 DEF Enter, Move, SetContext, Active, bindings, documents
<1>2. ASSUME NEW r \in Requests, Dispatch(r) PROVE TypeOK'
  BY <1>2 DEF Dispatch, Move, documents, history
<1>3. ASSUME NEW r \in Requests, ResolveDatabase(r) PROVE TypeOK'
  BY <1>3 DEF ResolveDatabase, BindDatabase, ClientFor, documents, history
<1>4. ASSUME NEW r \in Requests, ResolveMissing(r) PROVE TypeOK'
  BY <1>4 DEF ResolveMissing, Move, bindings, documents, history
<1>5. ASSUME NEW r \in Requests, ResolveEventStore(r) PROVE TypeOK'
  BY <1>5 DEF ResolveEventStore, documents, history
<1>6. ASSUME NEW h \in EventHandlers, NEW t \in Tenants, HandleEvent(h, t) PROVE TypeOK'
  BY <1>6 DEF HandleEvent, Move, SetContext, Active, BindDatabase, ClientFor, documents
<1>7. ASSUME NEW h \in EventHandlers, NEW t \in Tenants, HandleMissing(h, t) PROVE TypeOK'
  BY <1>7 DEF HandleMissing, Move, SetContext, Active, bindings, documents
<1>8. ASSUME NEW w \in Work, NEW type \in Types, OpenCollection(w, type) PROVE TypeOK'
  BY <1>8 DEF OpenCollection, Open, OpenedOtherwise, bindings
<1>9. ASSUME NEW w \in Work, NEW type \in Types, OpenCollectionWithOptions(w, type)
      PROVE TypeOK'
  BY <1>9 DEF OpenCollectionWithOptions, Open, bindings
<1>10. ASSUME NEW w \in Work, ReadDocuments(w) PROVE TypeOK'
  BY <1>10 DEF ReadDocuments, bindings, history
<1>11. ASSUME NEW w \in Work, Finish(w) PROVE TypeOK'
  BY <1>11 DEF Finish, Move, bindings, documents, history
<1>12. CASE UNCHANGED vars
  BY <1>12 DEF vars, bindings, documents, history
<1> QED
  BY <1>1, <1>2, <1>3, <1>4, <1>5, <1>6, <1>7, <1>8, <1>9, <1>10, <1>11, <1>12 DEF Next

\* Every variable keeps its type: the context holds tenants and types only,
\* and what is bound to a piece of work is some tenant or nothing.
THEOREM TypeCorrect == Spec => []TypeOK
BY TypesFirst, TypesKept, PTL DEF Spec

\* What does not touch the documents keeps what is said of them.
LEMMA DocumentsKept ==
  ASSUME TypeIsWanted, UndisturbedDocuments, UNCHANGED <<collectionType, documents, mistyped>>
  PROVE  TypeIsWanted' /\ UndisturbedDocuments'
BY DEF TypeIsWanted, UndisturbedDocuments, documents

\* The client of a tenant is of that tenant, so a database bound for it is.
LEMMA BoundToOneTenant ==
  ASSUME TypeOK, ClientsFiled, DatabaseOfOneTenant,
         NEW w \in Work, NEW t \in Tenants, BindDatabase(w, t)
  PROVE  /\ ClientsFiled'
         /\ DatabaseOfOneTenant'
         /\ database' = [database EXCEPT ![w] = [configuration |-> t, client |-> t]]
<1>1. ClientFor(t) = t
  BY DEF ClientFor, ClientsFiled
<1>2. database' = [database EXCEPT ![w] = [configuration |-> t, client |-> t]]
  BY <1>1 DEF BindDatabase
<1>3. DatabaseOfOneTenant'
  BY <1>2 DEF DatabaseOfOneTenant, TypeOK
<1>4. ClientsFiled'
  BY <1>1 DEF BindDatabase, ClientsFiled, TypeOK
<1> QED
  BY <1>2, <1>3, <1>4

\* Setting the context for w keeps the tenant current for every other active
\* request, or counts it as overtaken.
LEMMA ContextSet ==
  ASSUME TypeOK, CurrentIsOwn, NEW w \in Work, NEW t \in Tenants, SetContext(w, t),
         w \in EventHandlers => pc[w] = "idle",
         \A v \in Work \ {w} : pc'[v] = pc[v]
  PROVE  /\ CurrentIsOwn'
         /\ \A v \in Work \ {w} : own'[v] = own[v]
         /\ own'[w] = t
         /\ overtaken \subseteq overtaken'
<1> USE WorkAssumption DEF Work
<1>1. /\ \A v \in Work \ {w} : own'[v] = own[v]
      /\ own'[w] = t
      /\ overtaken \subseteq overtaken'
      /\ current' = t
  BY DEF SetContext, TypeOK
<1>2. ASSUME NEW r \in Active' PROVE r \in overtaken' \/ current' = own'[r]
  <2>1. CASE r = w
    BY <2>1, <1>1
  <2>2. CASE r # w
    <3>1. r \in Active /\ own'[r] = own[r]
      BY <1>2, <2>2, <1>1 DEF Active
    <3> QED
      BY <3>1, <2>2, <1>1 DEF SetContext
  <2> QED
    BY <2>1, <2>2
<1> QED
  BY <1>1, <1>2 DEF CurrentIsOwn

\* What does not touch the context keeps the rest of the invariant.
LEMMA ContextKept ==
  ASSUME IInv, UNCHANGED <<current, clients, pc, own, bindings, overtaken>>
  PROVE  /\ ClientsFiled' /\ CurrentIsOwn' /\ IdleIsUnbound'
         /\ DatabaseOfOneTenant' /\ HandlersBound' /\ UndisturbedRequests'
<1>1. ClientsFiled' /\ CurrentIsOwn' /\ IdleIsUnbound'
  BY DEF IInv, ClientsFiled, CurrentIsOwn, Active, IdleIsUnbound, bindings
<1>2. DatabaseOfOneTenant' /\ HandlersBound' /\ UndisturbedRequests'
  BY DEF IInv, DatabaseOfOneTenant, HandlersBound, UndisturbedRequests, Alone, bindings
<1> QED
  BY <1>1, <1>2

LEMMA IInvInductive == TypeOK /\ TypeOK' /\ IInv /\ [Next]_vars => IInv'
<1> SUFFICES ASSUME TypeOK, TypeOK', IInv, [Next]_vars PROVE IInv'
  OBVIOUS
<1> USE WorkAssumption DEF Work
<1>a. /\ ClientsFiled /\ CurrentIsOwn /\ TypeIsWanted /\ IdleIsUnbound
      /\ DatabaseOfOneTenant /\ HandlersBound
      /\ UndisturbedRequests /\ UndisturbedDocuments
  BY DEF IInv
<1>1. ASSUME NEW r \in Requests, NEW t \in Tenants, Enter(r, t) PROVE IInv'
  <2>1. /\ pc[r] = "idle" /\ SetContext(r, t) /\ pc' = [pc EXCEPT ![r] = "reading"]
        /\ UNCHANGED <<collectionType, clients, graph, database, store, documents, mistyped>>
    BY <1>1 DEF Enter, Move, bindings
  <2>2. \A v \in Work \ {r} : pc'[v] = pc[v]
    BY <2>1 DEF TypeOK
  <2>3. /\ CurrentIsOwn' /\ \A v \in Work \ {r} : own'[v] = own[v]
        /\ own'[r] = t /\ overtaken \subseteq overtaken'
    BY <2>1, <2>2, <1>a, ContextSet
  <2>4. TypeIsWanted' /\ UndisturbedDocuments'
    BY <2>1, <1>a, DocumentsKept
  <2>5. ClientsFiled' /\ DatabaseOfOneTenant'
    BY <2>1, <1>a DEF ClientsFiled, DatabaseOfOneTenant
  <2>6. IdleIsUnbound'
    BY <2>1, <2>2, <1>a DEF IdleIsUnbound, TypeOK
  <2>7. HandlersBound'
    BY <2>1, <2>2, <2>3, <1>a DEF HandlersBound
  <2>8. UndisturbedRequests'
    BY <2>1, <2>3, <1>a DEF UndisturbedRequests, Alone, IdleIsUnbound, NoDatabase
  <2> QED
    BY <2>3, <2>4, <2>5, <2>6, <2>7, <2>8 DEF IInv
<1>2. ASSUME NEW r \in Requests, Dispatch(r) PROVE IInv'
  <2>1. /\ pc[r] = "reading" /\ pc' = [pc EXCEPT ![r] = "running"]
        /\ graph' = [graph EXCEPT ![r] = current]
        /\ UNCHANGED <<current, collectionType, clients, own, database, store,
                       documents, overtaken, mistyped>>
    BY <1>2 DEF Dispatch, Move, history
  <2>2. r \in overtaken \/ current = own[r]
    BY <2>1, <1>a DEF CurrentIsOwn, Active
  <2>3. CurrentIsOwn'
    BY <2>1, <1>a DEF CurrentIsOwn, Active, TypeOK
  <2>4. TypeIsWanted' /\ UndisturbedDocuments'
    BY <2>1, <1>a, DocumentsKept
  <2>5. ClientsFiled' /\ DatabaseOfOneTenant' /\ IdleIsUnbound' /\ HandlersBound'
    BY <2>1, <1>a
       DEF ClientsFiled, DatabaseOfOneTenant, IdleIsUnbound, HandlersBound, TypeOK
  <2>6. UndisturbedRequests'
    BY <2>1, <2>2, <1>a DEF UndisturbedRequests, Alone, TypeOK
  <2> QED
    BY <2>3, <2>4, <2>5, <2>6 DEF IInv
<1>3. ASSUME NEW r \in Requests, ResolveDatabase(r) PROVE IInv'
  <2>1. /\ pc[r] = "running" /\ current \in Tenants /\ BindDatabase(r, current)
        /\ UNCHANGED <<current, collectionType, pc, own, graph, store,
                       documents, overtaken, mistyped>>
    BY <1>3 DEF ResolveDatabase, history
  <2>2. /\ ClientsFiled' /\ DatabaseOfOneTenant'
        /\ database' = [database EXCEPT ![r] = [configuration |-> current, client |-> current]]
    BY <2>1, <1>a, BoundToOneTenant
  <2>3. r \in overtaken \/ current = own[r]
    BY <2>1, <1>a DEF CurrentIsOwn, Active
  <2>4. TypeIsWanted' /\ UndisturbedDocuments'
    BY <2>1, <1>a, DocumentsKept
  <2>5. CurrentIsOwn' /\ IdleIsUnbound' /\ HandlersBound'
    BY <2>1, <2>2, <1>a
       DEF CurrentIsOwn, Active, IdleIsUnbound, HandlersBound, TypeOK
  <2>6. UndisturbedRequests'
    BY <2>1, <2>2, <2>3, <1>a DEF UndisturbedRequests, Alone, TypeOK
  <2> QED
    BY <2>2, <2>4, <2>5, <2>6 DEF IInv
<1>4. ASSUME NEW r \in Requests, ResolveMissing(r) PROVE IInv'
  <2>1. /\ pc' = [pc EXCEPT ![r] = "failed"]
        /\ UNCHANGED <<current, collectionType, clients, own, graph, database, store,
                       documents, overtaken, mistyped>>
    BY <1>4 DEF ResolveMissing, Move, history, bindings
  <2>2. TypeIsWanted' /\ UndisturbedDocuments'
    BY <2>1, <1>a, DocumentsKept
  <2>3. CurrentIsOwn' /\ ClientsFiled' /\ DatabaseOfOneTenant'
    BY <2>1, <1>a DEF CurrentIsOwn, Active, ClientsFiled, DatabaseOfOneTenant, TypeOK
  <2>4. IdleIsUnbound' /\ HandlersBound' /\ UndisturbedRequests'
    BY <2>1, <1>a
       DEF IdleIsUnbound, HandlersBound, UndisturbedRequests, Alone, TypeOK
  <2> QED
    BY <2>2, <2>3, <2>4 DEF IInv
<1>5. ASSUME NEW r \in Requests, ResolveEventStore(r) PROVE IInv'
  <2>1. /\ pc[r] = "running" /\ store' = [store EXCEPT ![r] = current]
        /\ UNCHANGED <<current, collectionType, clients, pc, own, graph, database,
                       documents, overtaken, mistyped>>
    BY <1>5 DEF ResolveEventStore, history
  <2>2. r \in overtaken \/ current = own[r]
    BY <2>1, <1>a DEF CurrentIsOwn, Active
  <2>3. TypeIsWanted' /\ UndisturbedDocuments'
    BY <2>1, <1>a, DocumentsKept
  <2>4. CurrentIsOwn' /\ ClientsFiled' /\ DatabaseOfOneTenant'
    BY <2>1, <1>a DEF CurrentIsOwn, Active, ClientsFiled, DatabaseOfOneTenant
  <2>5. IdleIsUnbound' /\ HandlersBound' /\ UndisturbedRequests'
    BY <2>1, <2>2, <1>a
       DEF IdleIsUnbound, HandlersBound, UndisturbedRequests, Alone, TypeOK
  <2> QED
    BY <2>3, <2>4, <2>5 DEF IInv
<1>6. ASSUME NEW h \in EventHandlers, NEW t \in Tenants, HandleEvent(h, t) PROVE IInv'
  <2>1. /\ pc[h] = "idle" /\ SetContext(h, t) /\ pc' = [pc EXCEPT ![h] = "running"]
        /\ BindDatabase(h, t) \/ UNCHANGED <<clients, database>>
        /\ store' = [store EXCEPT ![h] = t]
        /\ UNCHANGED <<collectionType, graph, documents, mistyped>>
    BY <1>6 DEF HandleEvent, Move
  <2>2. \A v \in Work \ {h} : pc'[v] = pc[v]
    BY <2>1 DEF TypeOK
  <2>3. /\ CurrentIsOwn' /\ \A v \in Work \ {h} : own'[v] = own[v]
        /\ own'[h] = t /\ overtaken \subseteq overtaken'
    BY <2>1, <2>2, <1>a, ContextSet
  <2>4. TypeIsWanted' /\ UndisturbedDocuments'
    BY <2>1, <1>a, DocumentsKept
  <2>5. /\ ClientsFiled' /\ DatabaseOfOneTenant'
        /\ \/ database' = [database EXCEPT ![h] = [configuration |-> t, client |-> t]]
           \/ database' = database
    <3>1. CASE BindDatabase(h, t)
      BY <3>1, <1>a, BoundToOneTenant
    <3>2. CASE UNCHANGED <<clients, database>>
      BY <3>2, <1>a DEF ClientsFiled, DatabaseOfOneTenant
    <3> QED
      BY <2>1, <3>1, <3>2
  <2>6. /\ \A v \in Work \ {h} : database'[v] = database[v] /\ store'[v] = store[v]
        /\ database'[h].configuration \in {Nothing, t} /\ store'[h] = t /\ pc'[h] = "running"
    BY <2>1, <2>5, <1>a DEF TypeOK, IdleIsUnbound, NoDatabase
  <2>7. IdleIsUnbound'
    BY <2>1, <2>2, <2>6, <1>a DEF IdleIsUnbound
  <2>8. HandlersBound'
    BY <2>2, <2>3, <2>6, <1>a DEF HandlersBound
  <2>9. UndisturbedRequests'
    BY <2>1, <2>3, <2>6, <1>a DEF UndisturbedRequests, Alone
  <2> QED
    BY <2>3, <2>4, <2>5, <2>7, <2>8, <2>9 DEF IInv
<1>7. ASSUME NEW h \in EventHandlers, NEW t \in Tenants, HandleMissing(h, t) PROVE IInv'
  <2>1. /\ pc[h] = "idle" /\ SetContext(h, t) /\ pc' = [pc EXCEPT ![h] = "failed"]
        /\ UNCHANGED <<collectionType, clients, graph, database, store, documents, mistyped>>
    BY <1>7 DEF HandleMissing, Move, bindings
  <2>2. \A v \in Work \ {h} : pc'[v] = pc[v]
    BY <2>1 DEF TypeOK
  <2>3. /\ CurrentIsOwn' /\ \A v \in Work \ {h} : own'[v] = own[v]
        /\ overtaken \subseteq overtaken'
    BY <2>1, <2>2, <1>a, ContextSet
  <2>4. TypeIsWanted' /\ UndisturbedDocuments'
    BY <2>1, <1>a, DocumentsKept
  <2>5. ClientsFiled' /\ DatabaseOfOneTenant'
    BY <2>1, <1>a DEF ClientsFiled, DatabaseOfOneTenant
  <2>6. pc'[h] = "failed"
    BY <2>1 DEF TypeOK
  <2>7. IdleIsUnbound' /\ HandlersBound'
    BY <2>1, <2>2, <2>3, <2>6, <1>a DEF IdleIsUnbound, HandlersBound
  <2>8. UndisturbedRequests'
    BY <2>1, <2>3, <1>a DEF UndisturbedRequests, Alone
  <2> QED
    BY <2>3, <2>4, <2>5, <2>7, <2>8 DEF IInv
<1>8. ASSUME NEW w \in Work, NEW type \in Types, OpenCollection(w, type) PROVE IInv'
  <2>1. /\ wanted' = [wanted EXCEPT ![w] = type] /\ mapped' = [mapped EXCEPT ![w] = Nothing]
        /\ collectionType' = type
        /\ mistyped' = (mistyped \cup OpenedOtherwise(w, type)) \ {w}
        /\ UNCHANGED <<current, clients, pc, own, bindings, overtaken>>
    BY <1>8 DEF OpenCollection, Open
  <2>2. \A v \in Work \ {w} : wanted'[v] = wanted[v] /\ mapped'[v] = mapped[v]
    BY <2>1 DEF TypeOK
  <2>3. wanted'[w] = type /\ mapped'[w] = Nothing
    BY <2>1 DEF TypeOK
  <2>4. TypeIsWanted'
    BY <2>1, <2>2, <2>3 DEF TypeIsWanted, OpenedOtherwise
  <2>5. UndisturbedDocuments'
    BY <2>1, <2>2, <2>3, <1>a DEF UndisturbedDocuments
  <2> QED
    BY <2>1, <2>4, <2>5, ContextKept DEF IInv
<1>9. ASSUME NEW w \in Work, NEW type \in Types, OpenCollectionWithOptions(w, type)
      PROVE IInv'
  <2>1. /\ wanted' = [wanted EXCEPT ![w] = type] /\ mapped' = [mapped EXCEPT ![w] = Nothing]
        /\ mistyped' = mistyped \cup {w}
        /\ UNCHANGED <<collectionType, current, clients, pc, own, bindings, overtaken>>
    BY <1>9 DEF OpenCollectionWithOptions, Open
  <2>2. TypeIsWanted' /\ UndisturbedDocuments'
    BY <2>1, <1>a DEF TypeIsWanted, UndisturbedDocuments, TypeOK
  <2> QED
    BY <2>1, <2>2, ContextKept DEF IInv
<1>10. ASSUME NEW w \in Work, ReadDocuments(w) PROVE IInv'
  <2>1. /\ wanted[w] # Nothing /\ mapped' = [mapped EXCEPT ![w] = collectionType]
        /\ UNCHANGED <<collectionType, current, clients, pc, own, bindings,
                       wanted, mistyped, overtaken>>
    BY <1>10 DEF ReadDocuments, history
  <2>2. TypeIsWanted'
    BY <2>1, <1>a DEF TypeIsWanted
  <2>3. w \in mistyped \/ wanted[w] = collectionType
    BY <2>1, <1>a DEF TypeIsWanted
  <2>4. UndisturbedDocuments'
    BY <2>1, <2>3, <1>a DEF UndisturbedDocuments, TypeOK
  <2> QED
    BY <2>1, <2>2, <2>4, ContextKept DEF IInv
<1>11. ASSUME NEW w \in Work, Finish(w) PROVE IInv'
  <2>1. /\ pc[w] = "running" /\ pc' = [pc EXCEPT ![w] = "done"]
        /\ UNCHANGED <<current, collectionType, clients, own, graph, database, store,
                       documents, overtaken, mistyped>>
    BY <1>11 DEF Finish, Move, history, bindings
  <2>2. TypeIsWanted' /\ UndisturbedDocuments'
    BY <2>1, <1>a, DocumentsKept
  <2>3. CurrentIsOwn' /\ ClientsFiled' /\ DatabaseOfOneTenant'
    BY <2>1, <1>a DEF CurrentIsOwn, Active, ClientsFiled, DatabaseOfOneTenant, TypeOK
  <2>4. IdleIsUnbound' /\ HandlersBound' /\ UndisturbedRequests'
    BY <2>1, <1>a
       DEF IdleIsUnbound, HandlersBound, UndisturbedRequests, Alone, TypeOK
  <2> QED
    BY <2>2, <2>3, <2>4 DEF IInv
<1>12. CASE UNCHANGED vars
  <2>1. UNCHANGED <<current, clients, pc, own, bindings, overtaken>>
    BY <1>12 DEF vars, history
  <2>2. TypeIsWanted' /\ UndisturbedDocuments'
    BY <1>12, <1>a, DocumentsKept DEF vars, history
  <2> QED
    BY <2>1, <2>2, ContextKept DEF IInv
<1> QED
  BY <1>1, <1>2, <1>3, <1>4, <1>5, <1>6, <1>7, <1>8, <1>9, <1>10, <1>11, <1>12 DEF Next

LEMMA IInvFirst == Init => IInv
BY WorkAssumption DEF Init, IInv, ClientsFiled, CurrentIsOwn, Active, TypeIsWanted,
   IdleIsUnbound, DatabaseOfOneTenant, HandlersBound, UndisturbedRequests,
   Alone, UndisturbedDocuments, NoDatabase, Work

\* The inductive invariant of the context holds in every reachable state.
THEOREM Invariance == Spec => []IInv
BY IInvFirst, TypeCorrect, IInvInductive, PTL DEF Spec

\* Configuration and client of a database are of the same tenant.
THEOREM DatabasesAreOfOneTenant == Spec => []DatabaseOfOneTenant
<1>1. IInv => DatabaseOfOneTenant
  BY DEF IInv
<1> QED
  BY <1>1, Invariance, PTL

\* Requests are isolated as long as no other tenant comes in on them.
THEOREM UndisturbedRequestsAreIsolated == Spec => []UndisturbedRequests
<1>1. IInv => UndisturbedRequests
  BY DEF IInv
<1> QED
  BY <1>1, Invariance, PTL

\* Documents are mapped to their type unless the collection was retyped.
THEOREM UndisturbedDocumentsAreTyped == Spec => []UndisturbedDocuments
<1>1. IInv => UndisturbedDocuments
  BY DEF IInv
<1> QED
  BY <1>1, Invariance, PTL

-----------------------------------------------------------------------------
(* Aggregates.  Of the context every step is one of RequestContext, or ends  *)
(* its work.                                                                  *)

\* What work does with its context while none of its awaits is open.
ContextPart ==
  \/ \E r \in Requests :
       \/ \E t \in Tenants : Enter(r, t)
       \/ Dispatch(r)
       \/ Idle(r) /\ (ResolveDatabase(r) \/ ResolveMissing(r))
       \/ Idle(r) /\ root[r] = NoRoot /\ ResolveEventStore(r)
  \/ \E h \in EventHandlers, t \in Tenants : HandleEvent(h, t) \/ HandleMissing(h, t)
  \/ \E w \in Work :
       \/ \E type \in Types : OpenCollection(w, type) \/ OpenCollectionWithOptions(w, type)
       \/ ReadDocuments(w)
       \/ Idle(w) /\ Finish(w)

\* The step by what it changes of the aggregates and the connections.
LEMMA AggregatesSteps ==
  ASSUME [AggregatesNext]_allVars
  PROVE  \/ UNCHANGED allVars
         \/ ContextPart /\ UNCHANGED <<aggregateVars, connectionVars>>
         \/ \E r \in Requests : CommitEvent(r)
         \/ \E w \in Work : Of(w) \/ CommitRefused(w) \/ FailRule(w) \/ ConnectFails(w)
         \/ \E w \in Work, type \in EventTypes : Perform(w, type)
         \/ \E w \in Work, t \in Tenants : Connect(w, t) \/ Connected(w, t)
BY DEF AggregatesNext, ContextPart

-----------------------------------------------------------------------------
(* The context.                                                               *)

ContextStep == [Next]_vars \/ \E w \in Work : Fail(w)

LEMMA PartOfContext ==
  ASSUME ContextPart
  PROVE  Next
BY DEF ContextPart, Next

LEMMA StepOfContext ==
  ASSUME [AggregatesNext]_allVars
  PROVE  ContextStep
<1>1. ASSUME NEW r \in Requests, CommitEvent(r) PROVE Next
  <2>1. Finish(r) /\ r \in Work
    BY <1>1 DEF CommitEvent, Finish, Work
  <2> QED
    BY <2>1 DEF Next
<1>2. ASSUME NEW w \in Work, CommitRefused(w) \/ FailRule(w) \/ ConnectFails(w) PROVE Fail(w)
  BY <1>2 DEF CommitRefused, FailRule, ConnectFails
<1>3. ASSUME \/ UNCHANGED allVars
             \/ \E w \in Work : Of(w)
             \/ \E w \in Work, type \in EventTypes : Perform(w, type)
             \/ \E w \in Work, t \in Tenants : Connect(w, t) \/ Connected(w, t)
      PROVE  UNCHANGED vars
  BY <1>3 DEF allVars, Of, Perform, Connect, Connected
<1> QED
  BY AggregatesSteps, PartOfContext, <1>1, <1>2, <1>3 DEF ContextStep

LEMMA FailKept ==
  ASSUME TypeOK, IInv, NEW w \in Work, Fail(w)
  PROVE  TypeOK' /\ IInv'
<1>1. /\ pc[w] = "running" /\ pc' = [pc EXCEPT ![w] = "failed"]
      /\ UNCHANGED <<current, collectionType, clients, own, graph, database, store,
                     documents, overtaken, mistyped>>
  BY DEF Fail, Move, history, bindings
<1>2. TypeOK'
  BY <1>1 DEF TypeOK, Stages, documents
<1>3. TypeIsWanted' /\ UndisturbedDocuments'
  BY <1>1, DocumentsKept DEF IInv
<1>4. CurrentIsOwn' /\ ClientsFiled' /\ DatabaseOfOneTenant'
  BY <1>1 DEF IInv, CurrentIsOwn, Active, ClientsFiled, DatabaseOfOneTenant, TypeOK
<1>5. IdleIsUnbound' /\ HandlersBound' /\ UndisturbedRequests'
  BY <1>1 DEF IInv, IdleIsUnbound, HandlersBound, UndisturbedRequests, Alone, TypeOK
<1> QED
  BY <1>2, <1>3, <1>4, <1>5 DEF IInv

LEMMA ContextStepKept ==
  ASSUME TypeOK, IInv, ContextStep
  PROVE  TypeOK' /\ IInv'
BY FailKept, TypesKept, IInvInductive DEF ContextStep

\* What has begun never becomes idle again, and keeps its tenant.
LEMMA BegunStays ==
  ASSUME TypeOK, ContextStep
  PROVE  /\ overtaken \subseteq overtaken'
         /\ \A w \in Work : pc[w] # "idle" => pc'[w] # "idle" /\ own'[w] = own[w]
<1> USE DEF TypeOK, Work
<1>1. ASSUME NEW r \in Requests, NEW t \in Tenants, Enter(r, t)
      PROVE  /\ overtaken \subseteq overtaken'
             /\ \A w \in Work : pc[w] # "idle" => pc'[w] # "idle" /\ own'[w] = own[w]
  BY <1>1 DEF Enter, Move, SetContext
<1>2. ASSUME NEW h \in EventHandlers, NEW t \in Tenants, HandleEvent(h, t) \/ HandleMissing(h, t)
      PROVE  /\ overtaken \subseteq overtaken'
             /\ \A w \in Work : pc[w] # "idle" => pc'[w] # "idle" /\ own'[w] = own[w]
  BY <1>2 DEF HandleEvent, HandleMissing, Move, SetContext
<1>3. ASSUME NEW w \in Work, Fail(w) \/ Finish(w) \/ Dispatch(w) \/ ResolveMissing(w)
      PROVE  /\ UNCHANGED <<own, overtaken>>
             /\ \A v \in Work : pc[v] # "idle" => pc'[v] # "idle"
  BY <1>3 DEF Fail, Finish, Dispatch, ResolveMissing, Move, history
<1>4. ASSUME NEW w \in Work,
             \/ ResolveDatabase(w) \/ ResolveEventStore(w) \/ ReadDocuments(w)
             \/ \E type \in Types : OpenCollection(w, type) \/ OpenCollectionWithOptions(w, type)
      PROVE  UNCHANGED <<pc, own, overtaken>>
  BY <1>4 DEF ResolveDatabase, ResolveEventStore, ReadDocuments, OpenCollection,
              OpenCollectionWithOptions, Open, history
<1>5. CASE UNCHANGED vars
  BY <1>5 DEF vars, history
<1> QED
  BY <1>1, <1>2, <1>3, <1>4, <1>5 DEF ContextStep, Next

\* While work has a root its store stays, and while it connects its database.
LEMMA BindingsStay ==
  ASSUME TypeOK, [AggregatesNext]_allVars, NEW w \in Work, pc[w] # "idle"
  PROVE  /\ root[w] # NoRoot => store'[w] = store[w]
         /\ w \in connecting => database'[w] = database[w]
<1> USE DEF TypeOK, Work
<1>1. ASSUME NEW r \in Requests, Idle(r), ResolveDatabase(r)
      PROVE  UNCHANGED store /\ (w \in connecting => database'[w] = database[w])
  BY <1>1 DEF Idle, ResolveDatabase, BindDatabase
<1>2. ASSUME NEW r \in Requests, root[r] = NoRoot, ResolveEventStore(r)
      PROVE  UNCHANGED database /\ (root[w] # NoRoot => store'[w] = store[w])
  BY <1>2 DEF ResolveEventStore
<1>3. ASSUME NEW h \in EventHandlers, NEW t \in Tenants, HandleEvent(h, t)
      PROVE  database'[w] = database[w] /\ store'[w] = store[w]
  BY <1>3 DEF HandleEvent, BindDatabase, Move
<1>4. ASSUME \/ UNCHANGED vars
             \/ \E v \in Work :
                  \/ \E t \in Tenants : Enter(v, t) \/ HandleMissing(v, t)
                  \/ Dispatch(v) \/ ResolveMissing(v) \/ ReadDocuments(v) \/ Finish(v) \/ Fail(v)
                  \/ \E type \in Types : OpenCollection(v, type) \/ OpenCollectionWithOptions(v, type)
      PROVE  UNCHANGED <<database, store>>
  BY <1>4 DEF vars, bindings, Enter, HandleMissing, Dispatch, ResolveMissing, ReadDocuments, Finish, Fail,
              OpenCollection, OpenCollectionWithOptions, Open
<1>5. CASE ContextPart
  BY <1>1, <1>2, <1>3, <1>4, <1>5 DEF ContextPart
<1>6. CASE ~ContextPart
  <2>1. ASSUME NEW r \in Requests, CommitEvent(r) PROVE Finish(r)
    BY <2>1 DEF CommitEvent, Finish
  <2>2. ASSUME NEW v \in Work, CommitRefused(v) \/ FailRule(v) \/ ConnectFails(v) PROVE Fail(v)
    BY <2>2 DEF CommitRefused, FailRule, ConnectFails
  <2>3. ASSUME \/ UNCHANGED allVars
               \/ \E v \in Work : Of(v)
               \/ \E v \in Work, type \in EventTypes : Perform(v, type)
               \/ \E v \in Work, t \in Tenants : Connect(v, t) \/ Connected(v, t)
        PROVE  UNCHANGED vars
    BY <2>3 DEF allVars, Of, Perform, Connect, Connected
  <2> QED
    BY <1>4, <1>6, <2>1, <2>2, <2>3, AggregatesSteps
<1> QED
  BY <1>5, <1>6

-----------------------------------------------------------------------------
(* Types.                                                                     *)

LogTypes ==
  /\ log \in [Tenants -> Seq([type : EventTypes, by : Work])]
  /\ committed \in [Tenants -> SUBSET Requests]
  /\ root \in [Work -> [version : Maybe(Nat), state : Maybe(Nat)]]

ConnectionTypes ==
  /\ connected \subseteq Tenants
  /\ connecting \subseteq Work
  /\ topologies \in [Tenants -> Nat]
  /\ hurried \subseteq Tenants

LEMMA TypesOfBoth == AggregatesTypeOK <=> LogTypes /\ ConnectionTypes
BY DEF AggregatesTypeOK, LogTypes, ConnectionTypes

CountedIn(events) == {i \in DOMAIN events : events[i].type = "counted"}

LEMMA CountedTyped ==
  ASSUME NEW S, NEW events \in Seq(S)
  PROVE  /\ IsFiniteSet(CountedIn(events))
         /\ Counted(events) = Cardinality(CountedIn(events))
         /\ Counted(events) \in Nat
<1>1. DOMAIN events = 1..Len(events) /\ Len(events) \in Nat
  OBVIOUS
<1>2. IsFiniteSet(1..Len(events))
  BY <1>1, FS_Interval
<1>3. CountedIn(events) \in SUBSET (1..Len(events))
  BY <1>1 DEF CountedIn
<1>4. IsFiniteSet(CountedIn(events))
  BY <1>2, <1>3, FS_Subset
<1> QED
  BY <1>4, FS_CardinalityType DEF Counted, CountedIn

\* Another event counts once, or not at all.
LEMMA CountedAppend ==
  ASSUME NEW S, NEW events \in Seq(S), NEW e \in S
  PROVE  Counted(Append(events, e)) =
           IF e.type = "counted" THEN Counted(events) + 1 ELSE Counted(events)
<1> DEFINE n == Len(events) + 1
<1>1. /\ DOMAIN Append(events, e) = (DOMAIN events) \cup {n}
      /\ \A i \in DOMAIN events : Append(events, e)[i] = events[i]
      /\ Append(events, e)[n] = e /\ n \notin DOMAIN events
  OBVIOUS
<1> HIDE DEF n
<1>2. CASE e.type = "counted"
  <2>1. CountedIn(Append(events, e)) = CountedIn(events) \cup {n} /\ n \notin CountedIn(events)
    BY <1>1, <1>2 DEF CountedIn
  <2>2. Cardinality(CountedIn(events) \cup {n}) = Cardinality(CountedIn(events)) + 1
    BY <2>1, CountedTyped, FS_AddElement
  <2>3. Append(events, e) \in Seq(S)
    OBVIOUS
  <2> QED
    BY <1>2, <2>1, <2>2, <2>3, CountedTyped
<1>3. CASE e.type # "counted"
  <2>1. CountedIn(Append(events, e)) = CountedIn(events)
    BY <1>1, <1>3 DEF CountedIn
  <2>2. Append(events, e) \in Seq(S)
    OBVIOUS
  <2> QED
    BY <1>3, <2>1, <2>2, CountedTyped
<1> QED
  BY <1>2, <1>3

LEMMA AppendTyped ==
  ASSUME NEW S, NEW events \in Seq(S), NEW e \in S
  PROVE  Append(events, e) \in Seq(S)
OBVIOUS

LEMMA LogStaysTyped ==
  ASSUME TypeOK, LogTypes, [AggregatesNext]_allVars
  PROVE  LogTypes'
<1>1. ASSUME NEW w \in Work, Of(w) PROVE LogTypes'
  <2>1. store[w] \in Tenants
    BY <1>1 DEF Of, TypeOK, Maybe
  <2>2. Rebuilt(log[store[w]]) \in [version : Nat, state : Nat]
    BY <2>1, CountedTyped DEF LogTypes, Rebuilt
  <2>3. [version : Nat, state : Nat] \subseteq [version : Maybe(Nat), state : Maybe(Nat)]
    BY DEF Maybe
  <2> QED
    BY <1>1, <2>2, <2>3 DEF Of, LogTypes
<1>2. ASSUME NEW w \in Work, NEW type \in EventTypes, Perform(w, type) PROVE LogTypes'
  <2>1. [type |-> type, by |-> w] \in [type : EventTypes, by : Work]
    OBVIOUS
  <2>2. NoRoot \in [version : Maybe(Nat), state : Maybe(Nat)]
    BY DEF NoRoot, Maybe
  <2>3. log' \in [Tenants -> Seq([type : EventTypes, by : Work])]
    <3> DEFINE e == [type |-> type, by |-> w]
    <3>1. \A t \in Tenants : Append(log[t], e) \in Seq([type : EventTypes, by : Work])
      BY <2>1, AppendTyped DEF LogTypes
    <3>2. log' = [log EXCEPT ![store[w]] = Append(@, e)]
      BY <1>2 DEF Perform
    <3> HIDE DEF e
    <3> QED
      BY <3>1, <3>2 DEF LogTypes
  <2> QED
    BY <1>2, <2>2, <2>3 DEF Perform, LogTypes
<1>3. ASSUME NEW r \in Requests, CommitEvent(r) PROVE LogTypes'
  BY <1>3 DEF CommitEvent, LogTypes
<1>4. ASSUME UNCHANGED aggregateVars PROVE LogTypes'
  BY <1>4 DEF aggregateVars, LogTypes
<1> QED
  BY AggregatesSteps, <1>1, <1>2, <1>3, <1>4
     DEF allVars, CommitRefused, FailRule, ConnectFails, Connect, Connected

LEMMA ConnectionsStayTyped ==
  ASSUME ConnectionTypes, [AggregatesNext]_allVars
  PROVE  ConnectionTypes'
<1>1. ASSUME NEW w \in Work, NEW t \in Tenants, Connect(w, t) \/ Connected(w, t) PROVE ConnectionTypes'
  BY <1>1 DEF Connect, Connected, ConnectionTypes
<1>2. ASSUME NEW w \in Work, ConnectFails(w) PROVE ConnectionTypes'
  BY <1>2 DEF ConnectFails, ConnectionTypes
<1>3. ASSUME UNCHANGED connectionVars PROVE ConnectionTypes'
  BY <1>3 DEF connectionVars, ConnectionTypes
<1> QED
  BY AggregatesSteps, <1>1, <1>2, <1>3
     DEF allVars, CommitEvent, Of, CommitRefused, FailRule, Perform, connectionVars

Typed == TypeOK /\ IInv /\ LogTypes /\ ConnectionTypes

LEMMA TypedFirst ==
  ASSUME AggregatesInit
  PROVE  Typed
<1>1. TypeOK /\ IInv
  BY TypesFirst, IInvFirst DEF AggregatesInit
<1>2. LogTypes
  BY DEF AggregatesInit, LogTypes, NoRoot, Maybe
<1>3. ConnectionTypes
  BY DEF AggregatesInit, ConnectionTypes
<1> QED
  BY <1>1, <1>2, <1>3 DEF Typed

LEMMA TypedStep ==
  ASSUME Typed, [AggregatesNext]_allVars
  PROVE  Typed'
BY StepOfContext, ContextStepKept, LogStaysTyped, ConnectionsStayTyped DEF Typed

\* The types of the events, the roots and the connections.
THEOREM AggregatesTypeCorrect == AggregatesSpec => []AggregatesTypeOK
<1>1. Typed => AggregatesTypeOK
  BY TypesOfBoth DEF Typed
<1> QED
  BY <1>1, TypedFirst, TypedStep, PTL DEF AggregatesSpec

\* What holds of the context alone holds of it here as well.
THEOREM ContextStaysKept ==
  AggregatesSpec =>
    [](DatabaseOfOneTenant /\ UndisturbedRequests /\ UndisturbedDocuments)
<1>1. Typed => DatabaseOfOneTenant /\ UndisturbedRequests /\ UndisturbedDocuments
  BY DEF Typed, IInv
<1> QED
  BY <1>1, TypedFirst, TypedStep, PTL DEF AggregatesSpec

-----------------------------------------------------------------------------
(* Rules.                                                                     *)

\* A root is at most as old as the events in its store, and knows the state if
\* nothing was committed since; what has not begun has no root.
RootKept(w) ==
  root[w] # NoRoot =>
    /\ pc[w] # "idle" /\ store[w] \in Tenants
    /\ root[w].version \in Nat /\ root[w].version <= Len(log[store[w]])
    /\ root[w].version = Len(log[store[w]]) => root[w].state = Counted(log[store[w]])

RootsKept == \A w \in Work : RootKept(w)

LEMMA RootsStayKept ==
  ASSUME Typed, RootsKept, [AggregatesNext]_allVars
  PROVE  RootsKept'
<1>0. TypeOK /\ LogTypes /\ ContextStep
  BY StepOfContext DEF Typed
<1>1. SUFFICES ASSUME NEW v \in Work, root'[v] # NoRoot PROVE RootKept(v)'
  BY DEF RootsKept, RootKept
\* What had its root before, in an event store that may have got more events.
<1>2. ASSUME root[v] # NoRoot, root'[v] = root[v],
             \/ log'[store[v]] = log[store[v]]
             \/ \E e : log'[store[v]] = Append(log[store[v]], e)
      PROVE  RootKept(v)'
  <2>1. /\ pc[v] # "idle" /\ store[v] \in Tenants
        /\ root[v].version \in Nat /\ root[v].version <= Len(log[store[v]])
        /\ root[v].version = Len(log[store[v]]) => root[v].state = Counted(log[store[v]])
    BY <1>2 DEF RootsKept, RootKept
  <2>2. store'[v] = store[v] /\ pc'[v] # "idle"
    BY <1>0, <1>2, <2>1, BegunStays, BindingsStay
  <2>3. log[store[v]] \in Seq([type : EventTypes, by : Work])
    BY <1>0, <2>1 DEF LogTypes
  <2>4. Len(log'[store[v]]) \in Nat
        /\ (log'[store[v]] = log[store[v]] \/ Len(log'[store[v]]) = Len(log[store[v]]) + 1)
    BY <1>2, <2>3
  <2>5. root[v].version <= Len(log'[store[v]])
        /\ (root[v].version = Len(log'[store[v]]) => log'[store[v]] = log[store[v]])
    BY <2>1, <2>3, <2>4
  <2> QED
    BY <1>2, <2>1, <2>2, <2>5 DEF RootKept, Counted
<1>3. ASSUME NEW w \in Work, Of(w) PROVE RootKept(v)'
  <2>1. CASE v = w
    <3>1. /\ store[v] \in Tenants /\ pc[v] = "running" /\ UNCHANGED <<store, pc, log>>
          /\ root'[v] = Rebuilt(log[store[v]])
      BY <1>0, <1>3, <2>1 DEF Of, vars, bindings, TypeOK, LogTypes, Maybe
    <3>2. Len(log[store[v]]) \in Nat
      BY <1>0, <3>1 DEF LogTypes
    <3> QED
      BY <3>1, <3>2 DEF RootKept, Rebuilt, Counted
  <2>2. CASE v # w
    BY <1>0, <1>1, <1>2, <1>3, <2>2 DEF Of, LogTypes
  <2> QED
    BY <2>1, <2>2
<1>4. ASSUME NEW w \in Work, NEW type \in EventTypes, Perform(w, type) PROVE RootKept(v)'
  <2>1. v # w /\ root'[v] = root[v]
    BY <1>0, <1>1, <1>4 DEF Perform, LogTypes
  <2>2. store[v] \in Tenants
    BY <1>1, <2>1 DEF RootsKept, RootKept
  <2>3. log'[store[v]] = log[store[v]]
        \/ log'[store[v]] = Append(log[store[v]], [type |-> type, by |-> w])
    BY <1>0, <1>4, <2>2 DEF Perform, LogTypes
  <2> QED
    BY <1>1, <1>2, <2>1, <2>3
<1>5. ASSUME UNCHANGED <<log, root>> PROVE RootKept(v)'
  BY <1>1, <1>2, <1>5
<1> QED
  BY AggregatesSteps, <1>3, <1>4, <1>5
     DEF allVars, aggregateVars, CommitEvent, CommitRefused, FailRule, ConnectFails, Connect, Connected

\* However many work on the same aggregate, its rule holds in every tenant.
THEOREM RulesAreKept == AggregatesSpec => []RulesKept
<1> DEFINE Inv == Typed /\ RootsKept /\ RulesKept
<1>1. AggregatesInit => Inv
  <2> SUFFICES ASSUME AggregatesInit PROVE Inv
    OBVIOUS
  <2>1. RootsKept
    BY DEF AggregatesInit, RootsKept, RootKept
  <2>2. ASSUME NEW events, events = <<>> PROVE Counted(events) = 0
    <3>1. DOMAIN events = {}
      BY <2>2
    <3> QED
      BY <3>1, FS_EmptySet DEF Counted
  <2>3. ASSUME NEW t \in Tenants PROVE Counted(log[t]) <= Limit
    <3>1. log[t] = <<>>
      BY DEF AggregatesInit
    <3>2. Counted(log[t]) = 0
      BY <2>2, <3>1
    <3> QED
      BY <3>2, LimitAssumption
  <2> QED
    BY <2>1, <2>3, TypedFirst DEF RulesKept
<1>2. Inv /\ [AggregatesNext]_allVars => Inv'
  <2> SUFFICES ASSUME Inv, [AggregatesNext]_allVars PROVE Inv'
    OBVIOUS
  <2>0. LogTypes /\ RulesKept /\ RootsKept
    BY DEF Typed
  <2>1. ASSUME NEW w \in Work, NEW type \in EventTypes, Perform(w, type),
               NEW t \in Tenants
        PROVE  Counted(log'[t]) <= Limit
    <3>1. CASE store[w] # t
      BY <2>0, <2>1, <3>1 DEF Perform, LogTypes, RulesKept
    <3>2. CASE store[w] = t
      <4> DEFINE e == [type |-> type, by |-> w]
      <4>1. e \in [type : EventTypes, by : Work] /\ e.type = type
        OBVIOUS
      <4>2. log'[t] = Append(log[t], e) /\ log[t] \in Seq([type : EventTypes, by : Work])
        BY <2>0, <2>1, <3>2 DEF Perform, LogTypes
      <4>3. root[w].state = Counted(log[t])
        BY <2>0, <2>1, <3>2 DEF Perform, RootsKept, RootKept
      <4>4. Counted(log[t]) \in Nat /\ Counted(log[t]) <= Limit
        BY <2>0, <4>2, CountedTyped DEF RulesKept
      <4>5. type = "counted" => Counted(log[t]) < Limit
        BY <2>1, <4>3 DEF Perform, RuleHolds
      <4> HIDE DEF e
      <4>6. Counted(Append(log[t], e)) = IF type = "counted" THEN Counted(log[t]) + 1 ELSE Counted(log[t])
        BY <4>1, <4>2, CountedAppend
      <4> QED
        BY <4>2, <4>4, <4>5, <4>6, LimitAssumption
    <3> QED
      BY <3>1, <3>2
  <2>2. ASSUME UNCHANGED log PROVE RulesKept'
    BY <2>0, <2>2 DEF RulesKept, Counted
  <2>3. RulesKept'
    <3>1. ASSUME NEW w \in Work, NEW type \in EventTypes, Perform(w, type) PROVE RulesKept'
      BY <2>1, <3>1 DEF RulesKept, Counted
    <3> QED
      BY AggregatesSteps, <2>2, <3>1
         DEF allVars, aggregateVars, CommitEvent, Of, CommitRefused, FailRule, ConnectFails, Connect, Connected
  <2> QED
    BY <2>3, TypedStep, RootsStayKept
<1> QED
  BY <1>1, <1>2, PTL DEF AggregatesSpec

-----------------------------------------------------------------------------
(* Tenants of events.                                                         *)

\* Whoever committed an event has begun, for the tenant of the event.
CommittedBy(w, t) == pc[w] # "idle" /\ (own[w] = t \/ w \in overtaken)

EventsKept ==
  \A t \in Tenants :
    /\ \A i \in DOMAIN log[t] : CommittedBy(log[t][i].by, t)
    /\ \A r \in committed[t] : CommittedBy(r, t)

LEMMA ElementTyped ==
  ASSUME NEW S, NEW events \in Seq(S), NEW i \in DOMAIN events
  PROVE  events[i] \in S
OBVIOUS

LEMMA EventsStayKept ==
  ASSUME Typed, RootsKept, EventsKept, [AggregatesNext]_allVars
  PROVE  EventsKept'
<1>0. TypeOK /\ LogTypes /\ ContextStep /\ IInv
  BY StepOfContext DEF Typed
<1>1. ASSUME NEW w \in Work, NEW t \in Tenants, CommittedBy(w, t) PROVE CommittedBy(w, t)'
  BY <1>0, <1>1, BegunStays DEF CommittedBy
<1>2. SUFFICES ASSUME NEW t \in Tenants
               PROVE  /\ \A i \in DOMAIN log'[t] : CommittedBy(log'[t][i].by, t)
                      /\ \A r \in committed'[t] : CommittedBy(r, t)
  <2>1. ASSUME NEW t \in Tenants
        PROVE  /\ \A i \in DOMAIN log'[t] : log'[t][i].by \in Work
               /\ committed'[t] \subseteq Work
    <3>1. LogTypes'
      BY TypedStep DEF Typed
    <3>2. log'[t] \in Seq([type : EventTypes, by : Work]) /\ committed'[t] \in SUBSET Requests
      BY <2>1, <3>1 DEF LogTypes
    <3>3. ASSUME NEW i \in DOMAIN log'[t] PROVE log'[t][i] \in [type : EventTypes, by : Work]
      BY <3>2, <3>3, ElementTyped
    <3>4. ASSUME NEW e \in [type : EventTypes, by : Work] PROVE e.by \in Work
      OBVIOUS
    <3> QED
      BY <3>2, <3>3, <3>4 DEF Work
  <2> QED
    BY <1>1, <2>1 DEF EventsKept, CommittedBy
<1>3. ASSUME UNCHANGED <<log, committed>>
      PROVE  /\ \A i \in DOMAIN log'[t] : CommittedBy(log'[t][i].by, t)
             /\ \A r \in committed'[t] : CommittedBy(r, t)
  BY <1>3 DEF EventsKept
<1>4. ASSUME NEW w \in Work, NEW type \in EventTypes, Perform(w, type)
      PROVE  /\ \A i \in DOMAIN log'[t] : CommittedBy(log'[t][i].by, t)
             /\ \A r \in committed'[t] : CommittedBy(r, t)
  <2>1. UNCHANGED committed /\ pc[w] = "running" /\ store[w] \in Tenants
    BY <1>4 DEF Perform, RootsKept, RootKept
  <2>2. own[w] = store[w] \/ w \in overtaken
    <3>1. CASE w \in Requests
      BY <1>0, <2>1, <3>1, WorkAssumption DEF IInv, UndisturbedRequests, Alone
    <3>2. CASE w \in EventHandlers
      BY <1>0, <2>1, <3>2 DEF IInv, HandlersBound
    <3> QED
      BY <3>1, <3>2 DEF Work
  <2>3. CASE t # store[w]
    BY <1>0, <1>4, <2>1, <2>3 DEF Perform, LogTypes, EventsKept
  <2>4. CASE t = store[w]
    <3> DEFINE e == [type |-> type, by |-> w]
    <3>1. log'[t] = Append(log[t], e) /\ e.by = w
      BY <1>0, <1>4, <2>4 DEF Perform, LogTypes
    <3>2. log[t] \in Seq([type : EventTypes, by : Work])
      BY <1>0 DEF LogTypes
    <3> HIDE DEF e
    <3>3. \A i \in DOMAIN log'[t] : (i \in DOMAIN log[t] /\ log'[t][i] = log[t][i]) \/ log'[t][i] = e
      BY <3>1, <3>2
    <3>4. CommittedBy(w, t)
      BY <2>1, <2>2, <2>4 DEF CommittedBy
    <3> QED
      BY <2>1, <3>1, <3>3, <3>4 DEF EventsKept
  <2> QED
    BY <2>3, <2>4
<1>5. ASSUME NEW r \in Requests, CommitEvent(r)
      PROVE  /\ \A i \in DOMAIN log'[t] : CommittedBy(log'[t][i].by, t)
             /\ \A q \in committed'[t] : CommittedBy(q, t)
  <2>1. UNCHANGED log /\ pc[r] = "running"
        /\ committed' = [committed EXCEPT ![current] = @ \cup {r}]
    BY <1>5 DEF CommitEvent, Move
  <2>2. current = own[r] \/ r \in overtaken
    BY <1>0, <2>1 DEF IInv, CurrentIsOwn, Active
  <2>3. committed'[t] \subseteq committed[t] \cup (IF t = current THEN {r} ELSE {})
    BY <1>0, <2>1 DEF LogTypes
  <2> QED
    BY <2>1, <2>2, <2>3 DEF EventsKept, CommittedBy
<1> QED
  BY AggregatesSteps, <1>3, <1>4, <1>5
     DEF allVars, aggregateVars, Of, CommitRefused, FailRule, ConnectFails, Connect, Connected

\* Events are in the store of the tenant their work was for.
THEOREM EventsAreOfTheirTenant == AggregatesSpec => []EventsOfOwnTenant
<1> DEFINE Inv == Typed /\ RootsKept /\ EventsKept
<1>1. AggregatesInit => Inv
  <2> SUFFICES ASSUME AggregatesInit PROVE Inv
    OBVIOUS
  <2>1. RootsKept
    BY DEF AggregatesInit, RootsKept, RootKept
  <2>2. \A t \in Tenants : log[t] = <<>> /\ committed[t] = {}
    BY DEF AggregatesInit
  <2>3. \A t \in Tenants : DOMAIN log[t] = {} /\ committed[t] = {}
    <3>1. ASSUME NEW events, events = <<>> PROVE DOMAIN events = {}
      BY <3>1
    <3> QED
      BY <2>2, <3>1
  <2>4. EventsKept
    BY <2>3 DEF EventsKept
  <2> QED
    BY <2>1, <2>4, TypedFirst
<1>2. Inv /\ [AggregatesNext]_allVars => Inv'
  BY TypedStep, RootsStayKept, EventsStayKept
<1>3. Inv => EventsOfOwnTenant
  BY DEF EventsKept, EventsOfOwnTenant, CommittedBy
<1> QED
  BY <1>1, <1>2, <1>3, PTL DEF AggregatesSpec

-----------------------------------------------------------------------------
(* Connections.                                                               *)

\* Unless they hurried, at most one connects a client, and nobody does when it
\* is connected, which it was once.
ConnectingBegun == \A w \in connecting : pc[w] # "idle"

ClientKept(t) ==
  t \in hurried
    \/ /\ topologies[t] <= (IF t \in connected THEN 1 ELSE 0)
       /\ \A v \in connecting : Uses(v, t) => t \notin connected
       /\ \A v, w \in connecting : Uses(v, t) /\ Uses(w, t) => v = w

ConnectionsKept == ConnectingBegun /\ \A t \in Tenants : ClientKept(t)

LEMMA ConnectionsStayKept ==
  ASSUME Typed, ConnectionsKept, [AggregatesNext]_allVars
  PROVE  ConnectionsKept'
<1>0. TypeOK /\ ContextStep /\ ConnectionTypes
  BY StepOfContext DEF Typed
<1>1. \A w \in connecting : pc'[w] # "idle" /\ database'[w] = database[w]
  BY <1>0, BegunStays, BindingsStay DEF ConnectionsKept, ConnectingBegun, ConnectionTypes
<1>2. CASE connecting' \subseteq connecting /\ UNCHANGED <<connected, topologies, hurried>>
  BY <1>1, <1>2 DEF ConnectionsKept, ConnectingBegun, ClientKept, Uses
<1>3. ASSUME NEW w \in Work, NEW u \in Tenants, Connect(w, u) PROVE ConnectionsKept'
  <2>1. /\ pc[w] = "running" /\ Uses(w, u) /\ u \notin connected
        /\ connecting' = connecting \cup {w}
        /\ hurried' = IF \E v \in connecting : Uses(v, u) THEN hurried \cup {u} ELSE hurried
        /\ UNCHANGED <<pc, database, connected, topologies>>
    BY <1>3 DEF Connect, NotConnected, vars, bindings
  <2>2. ConnectingBegun'
    BY <2>1 DEF ConnectionsKept, ConnectingBegun
  <2>3. ASSUME NEW t \in Tenants PROVE ClientKept(t)'
    <3>1. CASE t = u
      BY <2>1, <3>1 DEF ConnectionsKept, ClientKept, Uses
    <3>2. CASE t # u
      BY <2>1, <3>2 DEF ConnectionsKept, ClientKept, Uses
    <3> QED
      BY <3>1, <3>2
  <2> QED
    BY <2>2, <2>3 DEF ConnectionsKept
<1>4. ASSUME NEW w \in Work, NEW u \in Tenants, Connected(w, u) PROVE ConnectionsKept'
  <2>1. /\ w \in connecting /\ Uses(w, u)
        /\ connecting' = connecting \ {w} /\ connected' = connected \cup {u}
        /\ topologies' = [topologies EXCEPT ![u] = @ + 1]
        /\ UNCHANGED <<pc, database, hurried>>
    BY <1>4 DEF Connected, vars, bindings
  <2>2. ConnectingBegun'
    BY <2>1 DEF ConnectionsKept, ConnectingBegun
  <2>3. ASSUME NEW t \in Tenants PROVE ClientKept(t)'
    <3>1. CASE t = u
      BY <1>0, <2>1, <3>1 DEF ConnectionsKept, ClientKept, Uses, ConnectionTypes
    <3>2. CASE t # u
      BY <1>0, <2>1, <3>2 DEF ConnectionsKept, ClientKept, Uses, ConnectionTypes
    <3> QED
      BY <3>1, <3>2
  <2> QED
    BY <2>2, <2>3 DEF ConnectionsKept
<1> QED
  BY AggregatesSteps, <1>2, <1>3, <1>4
     DEF allVars, connectionVars, CommitEvent, Of, CommitRefused, FailRule, Perform, ConnectFails

\* A client that nobody hurried is connected once.
THEOREM ClientsConnectOnce == AggregatesSpec => []ConnectedOnce
<1> DEFINE Inv == Typed /\ ConnectionsKept
<1>1. AggregatesInit => Inv
  <2> SUFFICES ASSUME AggregatesInit PROVE Inv
    OBVIOUS
  <2>1. /\ connecting = {} /\ connected = {}
        /\ \A t \in Tenants : topologies[t] = 0
    BY DEF AggregatesInit
  <2> QED
    BY <2>1, TypedFirst DEF ConnectionsKept, ConnectingBegun, ClientKept
<1>2. Inv /\ [AggregatesNext]_allVars => Inv'
  BY TypedStep, ConnectionsStayKept
<1>3. Inv => ConnectedOnce
  <2> SUFFICES ASSUME Inv, NEW t \in Tenants PROVE topologies[t] <= 1 \/ t \in hurried
    BY DEF ConnectedOnce
  <2>1. topologies[t] \in Nat /\ ClientKept(t)
    BY DEF Typed, ConnectionTypes, ConnectionsKept
  <2> QED
    BY <2>1 DEF ClientKept
<1> QED
  BY <1>1, <1>2, <1>3, PTL DEF AggregatesSpec

-----------------------------------------------------------------------------
(* Documents.                                                                *)

\* A guid comes back from MongoDB as it was: its bytes are rearranged twice.
LEMMA PlacesUndone == \A i \in 0..15 : Place(i) \in 0..15 /\ Place(Place(i)) = i
BY SMT DEF Place

LEMMA BytesUndone ==
  ASSUME NEW bytes \in Bytes
  PROVE  BinaryToGuid(ToMUUID(bytes)) = bytes
<1>1. ToMUUID(bytes) = [i \in 0..15 |-> bytes[Place(i)]]
  BY DEF ToMUUID
<1>2. \A i \in 0..15 : ToMUUID(bytes)[Place(i)] = bytes[i]
  BY <1>1, PlacesUndone
<1>3. BinaryToGuid(ToMUUID(bytes)) = [i \in 0..15 |-> bytes[i]]
  BY <1>2, PlacesUndone DEF BinaryToGuid
<1> QED
  BY <1>3 DEF Bytes

\* What the driver writes while customType is that of the prototype.
ScalarBy(customType, value) ==
  IF value = Falsy THEN value
  ELSE IF customType = Nothing THEN RawObject(value.bytes)
  ELSE Binary(IF customType = GuidCustomType THEN ToMUUID(value.bytes) ELSE value.bytes)

WrittenBy(customType, value) ==
  IF value.kind = "list"
  THEN List([i \in DOMAIN value.items |-> ScalarBy(customType, value.items[i])])
  ELSE ScalarBy(customType, value)

LEMMA WrittenNow == \A value : Written(value) = WrittenBy(toBSON, value)
BY DEF Written, WrittenBy, Each, ToBSON, ScalarBy

LEMMA ScalarForms ==
  ASSUME NEW value \in Scalars
  PROVE  value = Falsy \/ \E bytes \in Bytes : value = Guid(bytes)
BY DocumentsAssumption DEF Scalars, ParseLiteral

LEMMA ValueForms ==
  ASSUME NEW value \in Values
  PROVE  \/ value \in Scalars /\ value.kind # "list"
         \/ /\ value = List(value.items)
            /\ value.items = [i \in DOMAIN value.items |-> value.items[i]]
            /\ \A i \in DOMAIN value.items : value.items[i] \in Scalars
<1>1. CASE value \in Scalars
  BY <1>1, ScalarForms DEF Falsy, Guid
<1>2. CASE value \notin Scalars
  <2>1. PICK a \in Scalars, b \in Scalars : value = List(<<a, b>>)
    BY <1>2 DEF Values
  <2>2. value.items = <<a, b>> /\ DOMAIN value.items = 1..2
    BY <2>1 DEF List
  <2>3. value.items = [i \in DOMAIN value.items |-> value.items[i]]
    BY <2>2
  <2> QED
    BY <2>1, <2>2, <2>3 DEF List
<1> QED
  BY <1>1, <1>2

\* An item is read as it was written by the same custom type ...
LEMMA ItemUndone ==
  ASSUME NEW customType \in CustomTypes, NEW value \in Scalars, value # Falsy
  PROVE  FromBSON(customType, ScalarBy(customType, value)) = value
<1>1. PICK bytes \in Bytes : value = Guid(bytes)
  BY ScalarForms
<1>2. value.bytes = bytes
  BY <1>1 DEF Guid
<1>3. customType # Nothing
  BY DocumentsAssumption
<1>4. CASE customType = GuidCustomType
  <2>1. ScalarBy(customType, value) = Binary(ToMUUID(bytes))
    BY <1>2, <1>3, <1>4 DEF ScalarBy
  <2>2. /\ Binary(ToMUUID(bytes)) # Falsy
        /\ Binary(ToMUUID(bytes)).kind = "binary"
        /\ Binary(ToMUUID(bytes)).bytes = ToMUUID(bytes)
    BY DEF Binary, Falsy
  <2> QED
    BY ONLY <1>1, <1>4, <2>1, <2>2, BytesUndone, bytes \in Bytes DEF FromBSON
<1>5. CASE customType # GuidCustomType
  <2>1. ScalarBy(customType, value) = Binary(bytes)
    BY <1>2, <1>3, <1>5 DEF ScalarBy
  <2>2. Binary(bytes) # Falsy /\ Binary(bytes).kind = "binary" /\ Binary(bytes).bytes = bytes
    BY DEF Binary, Falsy
  <2> QED
    BY ONLY <1>1, <1>5, <2>1, <2>2 DEF FromBSON
<1> QED
  BY <1>4, <1>5

\* ... and does not throw whatever custom types wrote and read it.
LEMMA ItemIsRead ==
  ASSUME NEW by \in CustomTypes, NEW customType, NEW value \in Scalars
  PROVE  FromBSON(customType, ScalarBy(by, value)) # Throws
<1>1. by # Nothing
  BY DocumentsAssumption
<1>2. ScalarBy(by, value) = Falsy \/ \E bytes : ScalarBy(by, value) = Binary(bytes)
  BY <1>1 DEF ScalarBy
<1>3. CASE ScalarBy(by, value) = Falsy
  BY <1>3 DEF FromBSON, EmptyGuid, Guid, Throws
<1>4. ASSUME NEW bytes, ScalarBy(by, value) = Binary(bytes) PROVE FromBSON(customType, ScalarBy(by, value)) # Throws
  <2>1. Binary(bytes) # Falsy /\ Binary(bytes).kind = "binary"
    BY DEF Binary, Falsy
  <2> QED
    BY <1>4, <2>1 DEF FromBSON, Guid, Throws
<1> QED
  BY <1>2, <1>3, <1>4

LEMMA KindsWritten ==
  ASSUME NEW by \in CustomTypes, NEW value \in Scalars
  PROVE  /\ ScalarBy(by, value).kind # "list"
         /\ ScalarBy(by, value) # Throws
         /\ value # Falsy => ScalarBy(by, value) # Falsy
BY DocumentsAssumption, ScalarForms DEF ScalarBy, Falsy, Binary, Throws, Guid

\* A property is read as it was written by its own custom type ...
LEMMA PropertyUndone ==
  ASSUME NEW by \in CustomTypes, NEW type, NEW p, registered[type][p] = by,
         NEW value \in Values, NoGaps(value)
  PROVE  DeserializeProperty(type, p, WrittenBy(by, value)) = value
<1>1. by # Nothing
  BY DocumentsAssumption
<1>2. CASE value \in Scalars /\ value.kind # "list"
  <2>1. WrittenBy(by, value) = ScalarBy(by, value)
    BY <1>2 DEF WrittenBy
  <2>2. CASE value = Falsy
    BY <2>1, <2>2 DEF ScalarBy, DeserializeProperty
  <2>3. CASE value # Falsy
    <3>1. DeserializeProperty(type, p, ScalarBy(by, value)) = FromBSON(by, ScalarBy(by, value))
      BY <1>1, <1>2, <2>3, KindsWritten DEF DeserializeProperty
    <3> QED
      BY <1>2, <2>1, <2>3, <3>1, ItemUndone
  <2> QED
    BY <2>2, <2>3
<1>3. CASE /\ value = List(value.items)
           /\ value.items = [i \in DOMAIN value.items |-> value.items[i]]
           /\ \A i \in DOMAIN value.items : value.items[i] \in Scalars
  <2> DEFINE items == value.items
             written == [i \in DOMAIN items |-> ScalarBy(by, items[i])]
  <2>1. value.kind = "list"
    BY <1>3 DEF List
  <2>2. WrittenBy(by, value) = List(written)
    BY <2>1 DEF WrittenBy
  <2>3. List(written).kind = "list" /\ List(written).items = written /\ List(written) # Falsy
    BY DEF List, Falsy
  <2>4. DeserializeProperty(type, p, List(written))
          = List([i \in DOMAIN written |-> FromBSON(by, written[i])])
    BY <1>1, <2>3 DEF DeserializeProperty, Each
  <2>5. \A i \in DOMAIN items : FromBSON(by, written[i]) = items[i]
    BY <1>3, <2>1, ItemUndone DEF NoGaps
  <2>6. [i \in DOMAIN written |-> FromBSON(by, written[i])] = items
    BY <1>3, <2>5
  <2> QED
    BY <1>3, <2>2, <2>4, <2>6
<1> QED
  BY <1>2, <1>3, ValueForms

\* ... and does not throw, whichever custom types wrote it and read it.
LEMMA PropertyIsRead ==
  ASSUME NEW by \in CustomTypes, NEW type, NEW p, NEW value \in Values
  PROVE  /\ ~Thrown(WrittenBy(by, value))
         /\ ~Thrown(DeserializeProperty(type, p, WrittenBy(by, value)))
<1> DEFINE customType == registered[type][p]
<1>1. CASE value \in Scalars /\ value.kind # "list"
  <2>1. WrittenBy(by, value) = ScalarBy(by, value)
    BY <1>1 DEF WrittenBy
  <2>2. ~Thrown(ScalarBy(by, value))
    BY <1>1, KindsWritten DEF Thrown
  <2>3. DeserializeProperty(type, p, ScalarBy(by, value))
          \in {ScalarBy(by, value), FromBSON(customType, ScalarBy(by, value))}
    BY <1>1, KindsWritten DEF DeserializeProperty
  <2>4. FromBSON(customType, ScalarBy(by, value)) # Throws
    BY <1>1, ItemIsRead
  <2>5. FromBSON(customType, ScalarBy(by, value)).kind # "list"
    BY DEF FromBSON, EmptyGuid, Guid, Throws
  <2> QED
    BY <2>1, <2>2, <2>3, <2>4, <2>5 DEF Thrown
<1>2. CASE /\ value = List(value.items)
           /\ \A i \in DOMAIN value.items : value.items[i] \in Scalars
  <2> DEFINE items == value.items
             written == [i \in DOMAIN items |-> ScalarBy(by, items[i])]
             got == [i \in DOMAIN written |-> FromBSON(customType, written[i])]
  <2>1. WrittenBy(by, value) = List(written)
    BY <1>2 DEF WrittenBy, List
  <2>2. /\ \A f : List(f).kind = "list" /\ List(f).items = f /\ List(f) # Falsy /\ List(f) # Throws
    BY DEF List, Falsy, Throws
  <2>3. ~Thrown(List(written))
    BY <1>2, <2>2, KindsWritten DEF Thrown
  <2>4. DeserializeProperty(type, p, List(written)) \in {List(written), List(got)}
    BY <2>2 DEF DeserializeProperty, Each
  <2>5. \A i \in DOMAIN got : got[i] # Throws
    BY <1>2, ItemIsRead
  <2>6. ~Thrown(List(got))
    BY <2>2, <2>5 DEF Thrown
  <2> QED
    BY <2>1, <2>3, <2>4, <2>6
<1> QED
  BY <1>1, <1>2, ValueForms

\* Of the context a step is one of RequestContext, or leaves it alone.
LEMMA DocumentsPart ==
  ASSUME [DocumentsNext]_everything
  PROVE  \/ UNCHANGED everything
         \/ \E type \in Types \ loaded : Load(type)
         \/ \E r \in Requests :
               UNCHANGED documentVars /\ ((\E t \in Tenants : Enter(r, t)) \/ Dispatch(r) \/ ResolveDatabase(r))
         \/ \E h \in EventHandlers, t \in Tenants : UNCHANGED documentVars /\ HandleEvent(h, t)
         \/ \E w \in Work, type \in loaded :
               UNCHANGED documentVars /\ (OpenCollection(w, type) \/ OpenCollectionWithOptions(w, type))
         \/ \E w \in Work : UNCHANGED documentVars /\ Finish(w)
         \/ \E w \in Work, document \in Contents : Insert(w, document)
         \/ \E w \in Work, d \in stored : ReadNext(w, d)
         \/ \E w \in Work, d \in stored, type \in loaded : ToTypedArray(w, type, d)
BY DEF DocumentsNext

LEMMA DocumentsContext ==
  ASSUME loaded \subseteq Types, [DocumentsNext]_everything
  PROVE  [Next]_vars
<1>1. ASSUME NEW type \in Types, Load(type) PROVE UNCHANGED vars
  BY <1>1 DEF Load
<1>2. ASSUME NEW w \in Work, NEW document, Insert(w, document) PROVE UNCHANGED vars
  BY <1>2 DEF Insert
<1>3. ASSUME NEW w \in Work, NEW d, ReadNext(w, d) \/ \E type : ToTypedArray(w, type, d)
      PROVE  ReadDocuments(w)
  BY <1>3 DEF ReadNext, ToTypedArray
<1>4. CASE UNCHANGED everything
  BY <1>4 DEF everything
<1>5. CASE \E w \in Work, type \in loaded :
             OpenCollection(w, type) \/ OpenCollectionWithOptions(w, type)
  BY <1>5 DEF Next
<1>6. CASE \/ \E r \in Requests :
                (\E t \in Tenants : Enter(r, t)) \/ Dispatch(r) \/ ResolveDatabase(r)
           \/ \E h \in EventHandlers, t \in Tenants : HandleEvent(h, t)
           \/ \E w \in Work : Finish(w)
  BY <1>6 DEF Next
<1>7. CASE \E w \in Work : ReadDocuments(w)
  BY <1>7 DEF Next
<1> QED
  BY <1>1, <1>2, <1>3, <1>4, <1>5, <1>6, <1>7, DocumentsPart

\* What is registered is what the loaded types are decorated with.
Registrations ==
  /\ loaded \subseteq Types
  /\ registered =
       [type \in Types |-> IF type \in loaded THEN Decorations[type] ELSE [p \in Properties |-> Nothing]]
  /\ Used(loaded) # {} => toBSON \in Used(loaded)

\* A collection is opened with types that are loaded.
OpenedLoaded ==
  /\ collectionType \in Maybe(loaded)
  /\ \A w \in Work : wanted[w] \in Maybe(loaded)

\* A document was written by one of the custom types of the time, if any.
WellStored(d) ==
  /\ d.was \in Contents /\ d.known \in SUBSET Types
  /\ Used(d.known) # {} =>
       \E by \in Used(d.known) : d.bson = [p \in Properties |-> WrittenBy(by, d.was[p])]

AllWellStored == \A d \in stored : WellStored(d)

DInv ==
  /\ TypeOK /\ IInv
  /\ Registrations /\ OpenedLoaded /\ AllWellStored
  /\ ReadsWhatWasWritten /\ FailedReads

LEMMA UsedTyped == \A S \in SUBSET Types : Used(S) \subseteq CustomTypes
BY DocumentsAssumption DEF Used, Maybe

LEMMA UsedOfMore ==
  ASSUME NEW S \in SUBSET Types, NEW type \in Types
  PROVE  Used(S \cup {type}) = Used(S) \cup Used({type})
BY DEF Used

\* What is read by its own type is as it was written.
LEMMA MappedAsWritten ==
  ASSUME Registrations, NEW type \in loaded, NEW d, WellStored(d), NEW p \in Properties,
         Decorations[type][p] # Nothing, Used(d.known) = {Decorations[type][p]},
         NoGaps(d.was[p])
  PROVE  MapDocument(type, d.bson)[p] = d.was[p]
<1> DEFINE by == Decorations[type][p]
<1>1. by \in CustomTypes /\ registered[type][p] = by
  BY DocumentsAssumption DEF Registrations, Maybe
<1>2. d.bson[p] = WrittenBy(by, d.was[p])
  BY DEF WellStored
<1>3. d.was[p] \in Values
  BY ContentsAssumption DEF WellStored
<1>4. MapDocument(type, d.bson)[p] = DeserializeProperty(type, p, d.bson[p])
  BY DEF MapDocument
<1> QED
  BY <1>1, <1>2, <1>3, <1>4, PropertyUndone

\* Neither what was written with some custom type nor what is read of it throws.
LEMMA MappedWithoutFailure ==
  ASSUME NEW type, NEW d, WellStored(d), Used(d.known) # {}
  PROVE  ~Fails(d.bson) /\ ~Fails(MapDocument(type, d.bson))
<1>1. PICK by \in Used(d.known) : d.bson = [p \in Properties |-> WrittenBy(by, d.was[p])]
  BY DEF WellStored
<1>2. by \in CustomTypes
  BY UsedTyped DEF WellStored
<1>3. \A p \in Properties : d.was[p] \in Values
  BY ContentsAssumption DEF WellStored
<1> QED
  BY <1>1, <1>2, <1>3, PropertyIsRead DEF Fails, MapDocument

LEMMA DInvFirst == DocumentsInit => DInv
<1> SUFFICES ASSUME DocumentsInit PROVE DInv
  OBVIOUS
<1>1. TypeOK /\ IInv
  BY TypesFirst, IInvFirst DEF DocumentsInit
<1>2. Registrations
  BY DEF DocumentsInit, Registrations, Used
<1>3. OpenedLoaded
  BY DEF DocumentsInit, Init, OpenedLoaded, Maybe
<1>4. AllWellStored /\ ReadsWhatWasWritten /\ FailedReads
  BY DEF DocumentsInit, AllWellStored, ReadsWhatWasWritten, FailedReads
<1> QED
  BY <1>1, <1>2, <1>3, <1>4 DEF DInv

\* A step that leaves the documents alone, if it opens a collection with a
\* loaded type or not at all.
LEMMA ContextLeavesDocuments ==
  ASSUME DInv, UNCHANGED documentVars, OpenedLoaded'
  PROVE  Registrations' /\ AllWellStored' /\ ReadsWhatWasWritten' /\ FailedReads'
<1>1. Registrations'
  BY DEF DInv, documentVars, Registrations
<1>2. AllWellStored'
  BY DEF DInv, documentVars, AllWellStored, WellStored, WrittenBy, ScalarBy
<1>3. ReadsWhatWasWritten' /\ FailedReads'
  BY DEF DInv, documentVars, ReadsWhatWasWritten, FailedReads
<1> QED
  BY <1>1, <1>2, <1>3

\* What has been read stays as it is, unless another document is read.
LEMMA OneIsRead ==
  ASSUME ReadsWhatWasWritten, FailedReads, NEW w \in Work, NEW result,
         read' = [read EXCEPT ![w] = result],
         result.sure => AsWritten(result),
         Fails(result.got) => Used(result.of.known) = {} \/ result.twice
  PROVE  ReadsWhatWasWritten' /\ FailedReads'
<1>1. \A v \in Work : read'[v] \in {read[v], result}
  OBVIOUS
<1> QED
  BY <1>1 DEF ReadsWhatWasWritten, FailedReads

LEMMA OpenedStaysOpened ==
  ASSUME TypeOK, OpenedLoaded, Registrations, [DocumentsNext]_everything
  PROVE  OpenedLoaded'
<1> USE DEF OpenedLoaded
<1>1. ASSUME NEW type \in Types, Load(type) PROVE OpenedLoaded'
  BY <1>1 DEF Load, vars, documents, Maybe
<1>2. ASSUME NEW w \in Work, NEW document, Insert(w, document) PROVE OpenedLoaded'
  BY <1>2 DEF Insert, vars, documents
<1>3. ASSUME NEW w \in Work, ReadDocuments(w), UNCHANGED loaded PROVE OpenedLoaded'
  BY <1>3 DEF ReadDocuments
<1>4. CASE UNCHANGED everything
  BY <1>4 DEF everything, vars, documentVars, documents
<1>5. ASSUME NEW w \in Work, NEW type \in loaded, UNCHANGED documentVars,
             OpenCollection(w, type) \/ OpenCollectionWithOptions(w, type)
      PROVE  OpenedLoaded'
  BY <1>5 DEF OpenCollection, OpenCollectionWithOptions, Open, documentVars, Maybe, TypeOK
<1>6. ASSUME UNCHANGED documentVars, UNCHANGED <<collectionType, documents>> PROVE OpenedLoaded'
  BY <1>6 DEF documentVars, documents
<1>7. ASSUME NEW w \in Work, NEW d, ReadNext(w, d) \/ \E type : ToTypedArray(w, type, d)
      PROVE  ReadDocuments(w) /\ UNCHANGED loaded
  BY <1>7 DEF ReadNext, ToTypedArray
<1>8. ASSUME NEW r \in Requests, (\E t \in Tenants : Enter(r, t)) \/ Dispatch(r) \/ ResolveDatabase(r)
      PROVE  UNCHANGED <<collectionType, documents>>
  BY <1>8 DEF Enter, Dispatch, ResolveDatabase
<1>9. ASSUME NEW h \in EventHandlers, NEW t \in Tenants, HandleEvent(h, t)
      PROVE  UNCHANGED <<collectionType, documents>>
  BY <1>9 DEF HandleEvent
<1>10. ASSUME NEW w \in Work, Finish(w) PROVE UNCHANGED <<collectionType, documents>>
  BY <1>10 DEF Finish
<1> HIDE DEF OpenedLoaded
<1> QED
  BY <1>1, <1>2, <1>3, <1>4, <1>5, <1>6, <1>7, <1>8, <1>9, <1>10, DocumentsPart

\* The module of a type is loaded.
LEMMA LoadKept ==
  ASSUME DInv, NEW type \in Types \ loaded, Load(type)
  PROVE  Registrations' /\ AllWellStored' /\ ReadsWhatWasWritten' /\ FailedReads'
<1>1. loaded' \subseteq Types
  BY DEF DInv, Registrations, Load
<1>2. registered' =
        [t \in Types |-> IF t \in loaded' THEN Decorations[t] ELSE [p \in Properties |-> Nothing]]
  <2>1. registered' = [registered EXCEPT ![type] = Decorations[type]]
    BY DEF Load, Registered
  <2>2. \A t \in Types : registered'[t] = IF t \in loaded' THEN Decorations[t] ELSE [p \in Properties |-> Nothing]
    BY <2>1 DEF DInv, Registrations, Load
  <2> QED
    BY <2>1, <2>2 DEF DInv, Registrations
<1>3. Used(loaded') = Used(loaded) \cup Used({type})
  BY UsedOfMore DEF DInv, Registrations, Load
<1>4. Used(loaded') # {} => toBSON' \in Used(loaded')
  BY <1>3 DEF DInv, Registrations, Load
<1>5. Registrations'
  BY <1>1, <1>2, <1>4 DEF Registrations, Used
<1>6. AllWellStored'
  BY DEF DInv, Load, AllWellStored, WellStored, WrittenBy, ScalarBy
<1>7. ReadsWhatWasWritten' /\ FailedReads'
  BY DEF DInv, Load, ReadsWhatWasWritten, FailedReads
<1> QED
  BY <1>5, <1>6, <1>7

\* A document is written.
LEMMA InsertKept ==
  ASSUME DInv, NEW w \in Work, NEW document \in Contents, Insert(w, document)
  PROVE  Registrations' /\ AllWellStored' /\ ReadsWhatWasWritten' /\ FailedReads'
<1> DEFINE bson == [p \in Properties |-> Written(document[p])]
           new == [was |-> document, known |-> loaded, bson |-> bson]
<1>1. bson = [p \in Properties |-> WrittenBy(toBSON, document[p])]
  BY WrittenNow
<1>2. WellStored(new)
  <2>1. new.was = document /\ new.known = loaded /\ new.bson = bson
    OBVIOUS
  <2> HIDE DEF new, bson
  <2> QED
    BY <1>1, <2>1 DEF DInv, Registrations, WellStored
<1>3. stored' = stored \cup {new}
  BY DEF Insert
<1>4. AllWellStored'
  <2> HIDE DEF new
  <2>1. \A d \in stored' : WellStored(d)
    BY <1>2, <1>3 DEF DInv, AllWellStored
  <2> QED
    BY <2>1 DEF AllWellStored, WellStored, WrittenBy, ScalarBy
<1>5. Registrations'
  BY DEF DInv, Insert, Registrations
<1>6. ReadsWhatWasWritten' /\ FailedReads'
  BY DEF DInv, Insert, ReadsWhatWasWritten, FailedReads
<1> QED
  BY <1>4, <1>5, <1>6

\* A document of a cursor is read: work that is sure of its type has the one
\* of the collection.
LEMMA ReadNextKept ==
  ASSUME DInv, NEW w \in Work, NEW d \in stored, ReadNext(w, d)
  PROVE  Registrations' /\ AllWellStored' /\ ReadsWhatWasWritten' /\ FailedReads'
<1> DEFINE got == NextDocument(d.bson)
           result == [of |-> d, as |-> wanted[w], got |-> got, sure |-> w \notin mistyped, twice |-> FALSE]
<1>1. /\ result.of = d /\ result.as = wanted[w] /\ result.got = got
      /\ result.sure = (w \notin mistyped) /\ result.twice = FALSE
  OBVIOUS
<1>2. read' = [read EXCEPT ![w] = result] /\ wanted[w] # Nothing
  BY DEF ReadNext, ReadDocuments
<1>3. WellStored(d)
  BY DEF DInv, AllWellStored
<1>4. ASSUME w \notin mistyped PROVE AsWritten(result)
  <2>1. wanted[w] = collectionType /\ collectionType # Nothing
    BY <1>2, <1>4 DEF DInv, IInv, TypeIsWanted
  <2>2. collectionType \in loaded /\ got = MapDocument(collectionType, d.bson)
    BY <2>1 DEF DInv, OpenedLoaded, Maybe, NextDocument
  <2> HIDE DEF result, got
  <2> QED
    BY <1>1, <1>3, <2>1, <2>2, MappedAsWritten DEF AsWritten, DInv
<1>5. Used(d.known) # {} => ~Fails(got)
  BY <1>3, MappedWithoutFailure DEF NextDocument
<1>6. ReadsWhatWasWritten' /\ FailedReads'
  <2> HIDE DEF result, got
  <2> QED
    BY <1>1, <1>2, <1>4, <1>5, OneIsRead DEF DInv
<1>7. Registrations' /\ AllWellStored'
  BY DEF DInv, ReadNext, Registrations, AllWellStored, WellStored, WrittenBy, ScalarBy
<1> QED
  BY <1>6, <1>7

\* A document is read into a typed array, of a collection that has no type.
LEMMA ToTypedArrayKept ==
  ASSUME DInv, NEW w \in Work, NEW d \in stored, NEW type \in loaded, ToTypedArray(w, type, d)
  PROVE  Registrations' /\ AllWellStored' /\ ReadsWhatWasWritten' /\ FailedReads'
<1> DEFINE once == NextDocument(d.bson)
           got == IF Fails(once) THEN once ELSE MapDocument(type, once)
           result == [of |-> d, as |-> type, got |-> got,
                      sure |-> collectionType = Nothing, twice |-> collectionType # Nothing]
<1>1. /\ result.of = d /\ result.as = type /\ result.got = got
      /\ result.sure = (collectionType = Nothing) /\ result.twice = (collectionType # Nothing)
  OBVIOUS
<1>2. read' = [read EXCEPT ![w] = result]
  BY DEF ToTypedArray
<1>3. WellStored(d)
  BY DEF DInv, AllWellStored
<1>4. ASSUME collectionType = Nothing, Used(d.known) # {}
      PROVE  got = MapDocument(type, d.bson) /\ ~Fails(got)
  <2>1. once = d.bson
    BY <1>4 DEF NextDocument
  <2> QED
    BY <1>3, <1>4, <2>1, MappedWithoutFailure
<1>5. ASSUME collectionType = Nothing PROVE AsWritten(result)
  <2> HIDE DEF result, got
  <2> QED
    BY <1>1, <1>3, <1>4, <1>5, MappedAsWritten DEF AsWritten, DInv
<1>6. ReadsWhatWasWritten' /\ FailedReads'
  <2> HIDE DEF result, got
  <2> QED
    BY <1>1, <1>2, <1>4, <1>5, OneIsRead DEF DInv
<1>7. Registrations' /\ AllWellStored'
  BY DEF DInv, ToTypedArray, Registrations, AllWellStored, WellStored, WrittenBy, ScalarBy
<1> QED
  BY <1>6, <1>7

LEMMA DInvInductive ==
  ASSUME DInv, [DocumentsNext]_everything
  PROVE  DInv'
<1>1. TypeOK' /\ IInv'
  <2>1. [Next]_vars
    BY DocumentsContext DEF DInv, Registrations
  <2>2. TypeOK'
    BY <2>1, TypesKept DEF DInv
  <2> QED
    BY <2>1, <2>2, IInvInductive DEF DInv
<1>2. OpenedLoaded'
  BY OpenedStaysOpened DEF DInv
<1>3. CASE UNCHANGED documentVars
  BY <1>1, <1>2, <1>3, ContextLeavesDocuments DEF DInv
<1>4. CASE \E type \in Types \ loaded : Load(type)
  BY <1>1, <1>2, <1>4, LoadKept DEF DInv
<1>5. CASE \E w \in Work, document \in Contents : Insert(w, document)
  BY <1>1, <1>2, <1>5, InsertKept DEF DInv
<1>6. CASE \E w \in Work, d \in stored : ReadNext(w, d)
  BY <1>1, <1>2, <1>6, ReadNextKept DEF DInv
<1>7. CASE \E w \in Work, d \in stored, type \in loaded : ToTypedArray(w, type, d)
  BY <1>1, <1>2, <1>7, ToTypedArrayKept DEF DInv
<1>8. UNCHANGED everything => UNCHANGED documentVars
  BY DEF everything
<1> QED
  BY <1>3, <1>4, <1>5, <1>6, <1>7, <1>8, DocumentsPart

\* Guids come back from MongoDB as they were written, for any document types,
\* decorations and guids, whatever else is loaded or opened in between, as long
\* as one custom type was in use.
THEOREM DocumentsComeBack == DocumentsSpec => []ReadsWhatWasWritten
<1>1. DInv => ReadsWhatWasWritten
  BY DEF DInv
<1> QED
  BY <1>1, DInvFirst, DInvInductive, PTL DEF DocumentsSpec

\* A read only fails on what was written too early, or when mapped twice.
THEOREM ReadsSeldomFail == DocumentsSpec => []FailedReads
<1>1. DInv => FailedReads
  BY DEF DInv
<1> QED
  BY <1>1, DInvFirst, DInvInductive, PTL DEF DocumentsSpec

\* What holds of the types of collections in the context holds here as well.
THEOREM CollectionsStayTyped == DocumentsSpec => []UndisturbedDocuments
<1>1. DInv => UndisturbedDocuments
  BY DEF DInv, IInv
<1> QED
  BY <1>1, DInvFirst, DInvInductive, PTL DEF DocumentsSpec

=============================================================================
