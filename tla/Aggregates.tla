----------------------------- MODULE Aggregates -----------------------------
(***************************************************************************)
(* What requests and event handlers do with the event store and the        *)
(* database they were given (RequestContext): an aggregate is rebuilt from *)
(* its events, decides, and commits (Aggregate.ts, BrokenRule.ts), and     *)
(* the client of a database connects when it is first used                 *)
(* (MongoDatabase.ts).                                                     *)
(*                                                                         *)
(* There is one aggregate, an event source of one type.  The SDK and the   *)
(* runtime are external: perform commits what the root applied, for the    *)
(* version the root was rebuilt to, and the runtime refuses events for     *)
(* another version than the last.                                          *)
(***************************************************************************)
EXTENDS RequestContext, Sequences, FiniteSets

CONSTANTS
  Limit,      \* the rule of the aggregate: so many counted events at most
  MaxEvents   \* bound: events of the aggregate, in all tenants

ASSUME LimitAssumption == Limit \in Nat /\ MaxEvents \in Nat

VARIABLES
  log,         \* log[t]: the aggregate's events in the event store of t
  committed,   \* committed[t]: requests whose mutation committed an event there
  root,        \* root[w]: the version and the state w has rebuilt it to
  connected,   \* tenants whose client is connected
  connecting,  \* work that waits for its client to connect
  topologies,  \* topologies[t]: how often the client of t was connected
  hurried      \* tenants whose client was asked to connect twice (history)

aggregateVars == <<log, committed, root>>
connectionVars == <<connected, connecting, topologies, hurried>>
allVars == <<vars, aggregateVars, connectionVars>>

\* The root has an on-method for "counted", and none for "noted".
EventTypes == {"counted", "noted"}
NoRoot == [version |-> Nothing, state |-> Nothing]

AggregatesTypeOK ==
  /\ log \in [Tenants -> Seq([type : EventTypes, by : Work])]
  /\ committed \in [Tenants -> SUBSET Requests]
  /\ root \in [Work -> [version : Maybe(Nat), state : Maybe(Nat)]]
  /\ connected \subseteq Tenants
  /\ connecting \subseteq Work
  /\ topologies \in [Tenants -> Nat]
  /\ hurried \subseteq Tenants

AggregatesInit ==
  /\ Init
  /\ log = [t \in Tenants |-> <<>>]
  /\ committed = [t \in Tenants |-> {}]
  /\ root = [w \in Work |-> NoRoot]
  /\ connected = {}
  /\ connecting = {}
  /\ topologies = [t \in Tenants |-> 0]
  /\ hurried = {}

Counted(events) == Cardinality({i \in DOMAIN events : events[i].type = "counted"})

Fail(w) ==
  /\ Move(w, "running", "failed")
  /\ UNCHANGED <<current, collectionType, clients, own, bindings, documents, history>>

-----------------------------------------------------------------------------
(* Aggregates.                                                             *)

\* The version is counted, and the last event is not applied.
RebuiltShort(events) ==
  [version |-> Len(events), state |-> Counted(IF events = <<>> THEN events ELSE Tail(events))]

\* Every event raises the version, those with an on-method change the state.
Rebuilt(events) == [version |-> Len(events), state |-> Counted(events)]

\* of: the events are fetched, and re-applied without a pause.
Of(w) ==
  /\ pc[w] = "running"
  /\ store[w] # Nothing
  /\ root[w] = NoRoot
  /\ root' = [root EXCEPT ![w] = Rebuilt(log[store[w]])]
  /\ UNCHANGED <<vars, log, committed, connectionVars>>

\* The method of the root asks its rule before it applies a counted event.
RuleHolds(w, type) == type = "counted" => root[w].state < Limit

\* perform, for the version the root has; a root is used once.
Perform(w, type) ==
  /\ pc[w] = "running"
  /\ root[w] # NoRoot
  /\ RuleHolds(w, type)
  /\ root[w].version = Len(log[store[w]])
  /\ Cardinality({e \in Tenants \X (1..MaxEvents) : e[2] <= Len(log[e[1]])}) < MaxEvents
  /\ log' = [log EXCEPT ![store[w]] = Append(@, [type |-> type, by |-> w])]
  /\ root' = [root EXCEPT ![w] = NoRoot]
  /\ UNCHANGED <<vars, committed, connectionVars>>

\* BrokenRule.fail: nothing has been committed.
FailRule(w) ==
  /\ root[w] # NoRoot
  /\ ~RuleHolds(w, "counted")
  /\ Fail(w)
  /\ UNCHANGED <<aggregateVars, connectionVars>>

\* Somebody else has committed since the events were fetched.
CommitRefused(w) ==
  /\ root[w] # NoRoot
  /\ root[w].version # Len(log[store[w]])
  /\ Fail(w)
  /\ UNCHANGED <<aggregateVars, connectionVars>>

\* An event mutation of the development schema takes an event store when it is
\* called and commits to it at once; a commit that fails only answers -1.  It is
\* the last field its request asks for.
CommitEvent(r) ==
  /\ Move(r, "running", "done")
  /\ committed' = [committed EXCEPT ![current] = @ \cup {r}]
  /\ UNCHANGED <<current, collectionType, clients, own, bindings, documents, history,
                 log, root, connectionVars>>

-----------------------------------------------------------------------------
(* The connection of a database's client.                                  *)

Uses(w, t) == database[w].client = t

\* Whether the client is connected is not asked.
MustConnect(t) == TRUE

\* isConnected.
NotConnected(t) == t \notin connected

Connect(w, t) ==
  /\ pc[w] = "running"
  /\ Uses(w, t)
  /\ w \notin connecting
  /\ NotConnected(t)
  /\ connecting' = connecting \cup {w}
  /\ hurried' = IF \E v \in connecting : Uses(v, t) THEN hurried \cup {t} ELSE hurried
  /\ UNCHANGED <<vars, aggregateVars, connected, topologies>>

\* The client has a new topology, whatever it had.
Connected(w, t) ==
  /\ w \in connecting
  /\ Uses(w, t)
  /\ connecting' = connecting \ {w}
  /\ connected' = connected \cup {t}
  /\ topologies' = [topologies EXCEPT ![t] = @ + 1]
  /\ UNCHANGED <<vars, aggregateVars, hurried>>

ConnectFails(w) ==
  /\ w \in connecting
  /\ connecting' = connecting \ {w}
  /\ Fail(w)
  /\ UNCHANGED <<aggregateVars, connected, topologies, hurried>>

-----------------------------------------------------------------------------
\* What a request or an event handler does while none of its awaits is open;
\* documents are asked for when the client is connected.
Idle(w) == w \notin connecting

AggregatesNext ==
  \/ /\ UNCHANGED <<aggregateVars, connectionVars>>
     /\ \/ \E r \in Requests :
             \/ \E t \in Tenants : Enter(r, t)
             \/ Dispatch(r)
             \/ Idle(r) /\ (ResolveDatabase(r) \/ ResolveMissing(r))
             \/ Idle(r) /\ root[r] = NoRoot /\ ResolveEventStore(r)
        \/ \E h \in EventHandlers, t \in Tenants : HandleEvent(h, t) \/ HandleMissing(h, t)
        \/ \E w \in Work :
             \/ /\ database[w].client \in connected
                /\ Idle(w)
                /\ \/ \E type \in Types : OpenCollection(w, type) \/ OpenCollectionWithOptions(w, type)
                   \/ ReadDocuments(w)
             \/ Idle(w) /\ Finish(w)
  \/ \E r \in Requests : Idle(r) /\ CommitEvent(r)
  \/ \E w \in Work :
       \/ Of(w) \/ CommitRefused(w) \/ FailRule(w)
       \/ \E type \in EventTypes : Perform(w, type)
       \/ \E t \in Tenants : Connect(w, t) \/ Connected(w, t)
       \/ ConnectFails(w)

AggregatesSpec == AggregatesInit /\ [][AggregatesNext]_allVars

-----------------------------------------------------------------------------
(* Properties.                                                             *)

\* A rule holds in the events of every tenant, however requests and event
\* handlers that have rebuilt the same aggregate take turns to commit.
RulesKept == \A t \in Tenants : Counted(log[t]) <= Limit

\* The events of a tenant were committed by work that was for this tenant: an
\* aggregate is fetched from and committed to the store of its own work, and a
\* mutation commits to the one of its request, unless a request or an event
\* handler of another tenant came in while that one was waiting.
EventsOfOwnTenant ==
  \A t \in Tenants :
    /\ \A i \in DOMAIN log[t] : own[log[t][i].by] = t \/ log[t][i].by \in overtaken
    /\ \A r \in committed[t] : own[r] = t \/ r \in overtaken

\* A client is connected once, for all who use it, unless two asked for its
\* database before the first connection was there.
ConnectedOnce == \A t \in Tenants : topologies[t] <= 1 \/ t \in hurried
=============================================================================
