--------------------------- MODULE RequestContext ---------------------------
(***************************************************************************)
(* The tenant of a piece of work in the TypeScript backend.                *)
(*                                                                         *)
(* Host.start runs the whole backend within one HostContext.run, so the    *)
(* requests, and the event handlers the Dolittle client calls, all have    *)
(* the same context object: Context.ts writes the tenant of whoever came   *)
(* last into it, and the factories of MongoDb.ts and dolittle/index.ts     *)
(* read it from there.  A request waits (for its body, for a database)     *)
(* between these steps; an event handler gets its dependencies in the same *)
(* step that sets its tenant.                                              *)
(***************************************************************************)
EXTENDS Naturals

CONSTANTS
  Tenants,
  Configured,     \* tenants with read models in .dolittle/resources.json
  Requests,       \* web requests
  EventHandlers,  \* calls of event handlers and projections
  Types,          \* document types whose names give the same collection name
  Nothing

Work == Requests \cup EventHandlers

ASSUME WorkAssumption ==
  /\ Configured \subseteq Tenants
  /\ Requests \cap EventHandlers = {}
  /\ Nothing \notin Tenants \cup Types

VARIABLES
  current,         \* tenant of the one Context in the host context
  collectionType,  \* type of the collection in the host context
  clients,         \* clients[t]: whose configuration the client of t is made of
  pc,              \* how far a piece of work has come
  own,             \* the tenant it was sent for
  graph,           \* tenant in the context of its GraphQL execution
  database,        \* its IMongoDatabase
  store,           \* tenant of its IEventStore
  wanted,          \* type it opened its collection with
  mapped,          \* type its documents were mapped to
  overtaken,       \* requests during which the tenant was changed (history)
  mistyped         \* work whose type may not be the one set (history)

bindings == <<graph, database, store>>
documents == <<wanted, mapped>>
history == <<overtaken, mistyped>>
vars == <<current, collectionType, clients, pc, own, bindings, documents, history>>

Maybe(S) == S \cup {Nothing}

Stages == {"idle", "reading", "running", "done", "failed"}

TypeOK ==
  /\ current \in Maybe(Tenants)
  /\ collectionType \in Maybe(Types)
  /\ clients \in [Tenants -> Maybe(Tenants)]
  /\ pc \in [Work -> Stages]
  /\ own \in [Work -> Maybe(Tenants)]
  /\ graph \in [Work -> Maybe(Tenants)]
  /\ database \in [Work -> [configuration : Maybe(Tenants), client : Maybe(Tenants)]]
  /\ store \in [Work -> Maybe(Tenants)]
  /\ wanted \in [Work -> Maybe(Types)]
  /\ mapped \in [Work -> Maybe(Types)]
  /\ overtaken \subseteq Requests
  /\ mistyped \subseteq Work

NoDatabase == [configuration |-> Nothing, client |-> Nothing]

Init ==
  /\ current = Nothing
  /\ collectionType = Nothing
  /\ clients = [t \in Tenants |-> Nothing]
  /\ pc = [w \in Work |-> "idle"]
  /\ own = [w \in Work |-> Nothing]
  /\ graph = [w \in Work |-> Nothing]
  /\ database = [w \in Work |-> NoDatabase]
  /\ store = [w \in Work |-> Nothing]
  /\ wanted = [w \in Work |-> Nothing]
  /\ mapped = [w \in Work |-> Nothing]
  /\ overtaken = {}
  /\ mistyped = {}

Move(w, from, to) == pc[w] = from /\ pc' = [pc EXCEPT ![w] = to]

Active == {r \in Requests : pc[r] \in {"reading", "running"}}

\* HostContext.set: the tenant of w is everybody's tenant.
SetContext(w, t) ==
  /\ current' = t
  /\ own' = [own EXCEPT ![w] = t]
  /\ overtaken' = overtaken \cup {r \in Active \ {w} : own[r] # t}

-----------------------------------------------------------------------------
(* The factories of the container, all run without a pause.                *)

\* The client is looked up without regard to the tenant.
AnyClient(t) ==
  IF \E u \in Tenants : clients[u] # Nothing
  THEN clients[CHOOSE u \in Tenants : clients[u] # Nothing] ELSE t

\* The MongoClient of t: the one that was made before, or a new one.
ClientFor(t) == IF clients[t] # Nothing THEN clients[t] ELSE t

\* IMongoDatabase for the tenant t of the context.
BindDatabase(w, t) ==
  /\ database' = [database EXCEPT ![w] = [configuration |-> t, client |-> ClientFor(t)]]
  /\ clients' = [clients EXCEPT ![t] = ClientFor(t)]

-----------------------------------------------------------------------------
(* A web request.                                                          *)

\* The request comes in before the middleware is in place.
EnterUnknown(r, t) ==
  /\ Move(r, "idle", "reading")
  /\ own' = [own EXCEPT ![r] = t]
  /\ UNCHANGED <<current, overtaken, collectionType, clients, bindings, documents, mistyped>>

\* ContextMiddleware; after it the body of the request is awaited.
Enter(r, t) ==
  /\ Move(r, "idle", "reading")
  /\ SetContext(r, t)
  /\ UNCHANGED <<collectionType, clients, bindings, documents, mistyped>>

\* The body is there: Apollo asks for the context, the resolver is called.
Dispatch(r) ==
  /\ Move(r, "reading", "running")
  /\ graph' = [graph EXCEPT ![r] = current]
  /\ UNCHANGED <<current, collectionType, clients, own, database, store, documents, history>>

\* The resolver or controller takes an IMongoDatabase ...
ResolveDatabase(r) ==
  /\ pc[r] = "running"
  /\ current \in Configured
  /\ BindDatabase(r, current)
  /\ UNCHANGED <<current, collectionType, pc, own, graph, store, documents, history>>

\* ... for a tenant that has no configuration, which is an error.
ResolveMissing(r) ==
  /\ Move(r, "running", "failed")
  /\ current \notin Configured
  /\ UNCHANGED <<current, collectionType, clients, own, bindings, documents, history>>

\* ... or an IEventStore.
ResolveEventStore(r) ==
  /\ pc[r] = "running"
  /\ store' = [store EXCEPT ![r] = current]
  /\ UNCHANGED <<current, collectionType, clients, pc, own, graph, database, documents, history>>

-----------------------------------------------------------------------------
(* An event handler: DolittleContainer.get sets the context and resolves   *)
(* the handler with what its constructor asks for.                         *)

\* The handler is resolved before the context is set.
HandleEventLate(h, t) ==
  /\ Move(h, "idle", "running")
  /\ SetContext(h, t)
  /\ current \in Configured
  /\ BindDatabase(h, current)
  /\ store' = [store EXCEPT ![h] = current]
  /\ UNCHANGED <<collectionType, graph, documents, mistyped>>

\* It asks for an event store, or for a database as well.
HandleEvent(h, t) ==
  /\ Move(h, "idle", "running")
  /\ SetContext(h, t)
  /\ \/ t \in Configured /\ BindDatabase(h, t)
     \/ UNCHANGED <<clients, database>>
  /\ store' = [store EXCEPT ![h] = t]
  /\ UNCHANGED <<collectionType, graph, documents, mistyped>>

\* A handler that takes a database for a tenant without configuration: the
\* context has been set when the factory throws.
HandleMissing(h, t) ==
  /\ Move(h, "idle", "failed")
  /\ SetContext(h, t)
  /\ t \notin Configured
  /\ UNCHANGED <<collectionType, clients, bindings, documents, mistyped>>

-----------------------------------------------------------------------------
(* What a request or an event handler does with its database.              *)

\* Work that has opened the collection with another type than this one.
OpenedOtherwise(w, type) == {v \in Work \ {w} : wanted[v] \notin {Nothing, type}}

Open(w, type) ==
  /\ pc[w] = "running"
  /\ database[w] # NoDatabase
  /\ wanted' = [wanted EXCEPT ![w] = type]
  /\ mapped' = [mapped EXCEPT ![w] = Nothing]
  /\ UNCHANGED <<current, clients, pc, own, bindings, overtaken>>

\* The type that was made known for the collection first stays.
OpenCollectionFirst(w, type) ==
  /\ Open(w, type)
  /\ collectionType' = IF collectionType = Nothing THEN type ELSE collectionType
  /\ mistyped' = (mistyped \cup OpenedOtherwise(w, type)) \ {w}

\* collection(type), after the client has connected.
OpenCollection(w, type) ==
  /\ Open(w, type)
  /\ collectionType' = type
  /\ mistyped' = (mistyped \cup OpenedOtherwise(w, type)) \ {w}

\* collection(type, options) returns before setCollectionType; so does
\* collection(type, name), whose name, no instance of String, passes for options.
OpenCollectionWithOptions(w, type) ==
  /\ Open(w, type)
  /\ mistyped' = mistyped \cup {w}
  /\ UNCHANGED collectionType

\* The documents of a cursor arrive and are mapped.
ReadDocuments(w) ==
  /\ pc[w] = "running"
  /\ wanted[w] # Nothing
  /\ mapped' = [mapped EXCEPT ![w] = collectionType]
  /\ UNCHANGED <<current, collectionType, clients, pc, own, bindings, wanted, history>>

Finish(w) ==
  /\ Move(w, "running", "done")
  /\ UNCHANGED <<current, collectionType, clients, own, bindings, documents, history>>

-----------------------------------------------------------------------------
Next ==
  \/ \E r \in Requests :
       \/ \E t \in Tenants : Enter(r, t)
       \/ Dispatch(r) \/ ResolveDatabase(r) \/ ResolveMissing(r) \/ ResolveEventStore(r)
  \/ \E h \in EventHandlers, t \in Tenants : HandleEvent(h, t) \/ HandleMissing(h, t)
  \/ \E w \in Work :
       \/ \E type \in Types : OpenCollection(w, type) \/ OpenCollectionWithOptions(w, type)
       \/ ReadDocuments(w) \/ Finish(w)

Spec == Init /\ [][Next]_vars

-----------------------------------------------------------------------------
(* Properties.                                                             *)

\* The database of any piece of work is of one tenant: the name of the
\* database and the client that reaches it are never of two different ones,
\* in whatever order clients are made and found again.
DatabaseOfOneTenant == \A w \in Work : database[w].configuration = database[w].client

\* A request that nobody of another tenant came in on is executed for its own
\* tenant: a backend that serves one tenant at a time keeps tenants apart.
Alone(r) ==
  r \in overtaken
    \/ /\ graph[r] \in {Nothing, own[r]}
       /\ store[r] \in {Nothing, own[r]}
       /\ database[r].configuration \in {Nothing, own[r]}

UndisturbedRequests == \A r \in Requests : Alone(r)

\* Documents are mapped to the type their collection was opened with, unless it
\* was opened with options, or by another request with another type since.
UndisturbedDocuments ==
  \A w \in Work : w \in mistyped \/ mapped[w] \in {Nothing, wanted[w]}

\* The inductive invariant behind the three.  Clients are filed under their own
\* tenant; the current tenant is that of every active request that was not
\* overtaken; the type of the collection is the one wanted by all work that is
\* not mistyped; what has not begun has nothing bound, and an event handler that
\* has is bound to the tenant of its event.
ClientsFiled == \A t \in Tenants : clients[t] \in {Nothing, t}

CurrentIsOwn == \A r \in Active : r \in overtaken \/ current = own[r]

TypeIsWanted ==
  \A w \in Work : w \in mistyped \/ wanted[w] \in {Nothing, collectionType}

IdleIsUnbound ==
  \A w \in Work :
    pc[w] = "idle" => graph[w] = Nothing /\ store[w] = Nothing /\ database[w] = NoDatabase

HandlersBound ==
  \A h \in EventHandlers :
    pc[h] \in {"running", "done"} =>
      store[h] = own[h] /\ database[h].configuration \in {Nothing, own[h]}

IInv ==
  /\ ClientsFiled
  /\ CurrentIsOwn
  /\ TypeIsWanted
  /\ IdleIsUnbound
  /\ DatabaseOfOneTenant
  /\ HandlersBound
  /\ UndisturbedRequests
  /\ UndisturbedDocuments

\* The documentation (backend/typescript/context.md): the context is set up
\* as part of every web request and can be retrieved anywhere as part of it.
RequestSeesItsOwnTenant == \A r \in Requests : graph[r] \in {Nothing, own[r]}
=============================================================================
