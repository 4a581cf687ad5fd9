---------------------------- MODULE GraphQLRoutes ----------------------------
(***************************************************************************)
(* The schema of a backend (typescript/backend/graphql, DotNET/Backend/    *)
(* GraphQL): resolvers are declared flat, each with a path, and are moved  *)
(* into a tree of routes.  The framework adds a route of its own to some   *)
(* trees: in development one for the events to the mutations, and in .NET  *)
(* always one for the system to the queries.  What is served is asked      *)
(* while features are switched.                                            *)
(* The two backends build their trees separately; `host' says which it is. *)
(*                                                                         *)
(* A path is a sequence of segments.  A route is its path with who made    *)
(* it, "paths" or "framework"; two routes of one path are two objects.     *)
(***************************************************************************)
EXTENDS Naturals, Sequences, FiniteSets, SequencesExt

CONSTANTS
  Segments,      \* names of fields and segments of paths
  Events,        \* the segment named "events"
  System,        \* the segment named "system"
  ClassFeature,  \* the feature a class of resolvers may be decorated with
  OwnFeature,    \* the feature a method may be decorated with
  Depth,         \* bound: segments of a declared path
  MaxResolvers,  \* bound: resolvers declared
  MaxAsks,       \* bound: fields asked for
  Nothing        \* no root of a class, no call

ASSUME RoutesAssumption ==
  /\ Events \in Segments /\ System \in Segments
  /\ ClassFeature # OwnFeature
  /\ Depth \in Nat /\ MaxResolvers \in Nat /\ MaxAsks \in Nat

Features == {ClassFeature, OwnFeature}
Paths == SeqOf(Segments, Depth)
Resolvers == [path : Paths, name : Segments, class : SUBSET {ClassFeature}, own : SUBSET {OwnFeature}]

VARIABLES
  host,       \* "node" or "net"
  added,      \* the names of the routes that the framework adds to the root
  phase,      \* "declaring", "routing", "serving" or "failed"
  resolvers,  \* as declared, in order
  gates,      \* the features each resolver's field tests
  todo,       \* paths whose routes are not made yet
  children,   \* of each route made
  items,      \* the resolvers at each route
  on,         \* features that are on
  call,       \* what is asked for and has not been answered, or Nothing
  answer,     \* the last answer
  asks        \* asked so far (bound)

vars == <<host, added, phase, resolvers, gates, todo, children, items, on, call, answer, asks>>

Root == [path |-> <<>>, by |-> "paths"]
FrameworkRoute(n) == [path |-> <<n>>, by |-> "framework"]
FrameworkRoutes == {FrameworkRoute(n) : n \in added}
RouteAt(p) == [path |-> p, by |-> "paths"]
Stops(p) == {SubSeq(p, 1, i) : i \in 1..Len(p)}  \* a path's own and those above it

Init ==
  /\ host \in {"node", "net"}
  /\ added \in {{}, {Events}} \/ (host = "net" /\ added = {System})
  /\ phase = "declaring"
  /\ resolvers = <<>>
  /\ gates = <<>>
  /\ todo = {}
  /\ children = [r \in {Root} |-> {}]
  /\ items = [r \in {Root} |-> {}]
  /\ on = {}
  /\ call = Nothing
  /\ answer = Nothing
  /\ asks = 0

-----------------------------------------------------------------------------
(* Declaring.  graphRoot on a class sets the root of its methods, followed *)
(* by the one on the method; alone, the one on the method is not used.     *)
(* [Query] and [Mutation] take a path that is used in either case.         *)

GraphRoot(class, own) ==
  IF class # Nothing THEN class \o own
  ELSE IF host = "net" THEN own ELSE <<>>

\* What decorators register for the class and for the method.
Decorations == [class : SUBSET {ClassFeature}, own : SUBSET {OwnFeature}]

Declare(class, own, name, decorated) ==
  /\ phase = "declaring"
  /\ Len(resolvers) < MaxResolvers
  /\ GraphRoot(class, own) \in Paths
  /\ resolvers' = Append(resolvers, [path |-> GraphRoot(class, own), name |-> name,
                                     class |-> decorated.class, own |-> decorated.own])
  /\ UNCHANGED <<host, added, phase, gates, todo, children, items, on, call, answer, asks>>

\* A field tests the features of its method only.
GatesOfMethod(r) == r.own

\* The directives of a field, from those of its method and of its class: in
\* .NET by the descriptor of the field (AddAdornedFeatures), ...
AdornedFeatures(r) == r.own \cup r.class

\* ... in node by extendTypesAndFields, from what the decorators have registered.
Gates(r) == r.own \cup r.class

\* A later resolver replaces an earlier one of its name: in node, where the
\* fields of the root type are a map by name, whatever the paths; in .NET, where
\* the fields of the type of a route are, one of its place.
Replaces(j, i) ==
  /\ j > i
  /\ resolvers[j].name = resolvers[i].name
  /\ host = "node" \/ resolvers[j].path = resolvers[i].path

RootFields == {i \in DOMAIN resolvers : \A j \in DOMAIN resolvers : ~Replaces(j, i)}

\* The directives are visited before the routes are made of the fields.
Begin ==
  /\ phase = "declaring"
  /\ resolvers # <<>>
  /\ phase' = "routing"
  /\ gates' = [i \in DOMAIN resolvers |-> IF host = "net" THEN AdornedFeatures(resolvers[i])
                                                      ELSE Gates(resolvers[i])]
  /\ todo' = {resolvers[i].path : i \in RootFields}
  /\ UNCHANGED <<host, added, resolvers, children, items, on, call, answer, asks>>

-----------------------------------------------------------------------------
(* Routing.  The paths are taken in the order of their text; the tree does *)
(* not depend on it, and any order is taken here.                          *)

\* The routes a path still needs.
Missing(p) == {RouteAt(q) : q \in Stops(p)} \ DOMAIN children

\* A new route is given to its parent; in .NET the top level routes are given
\* to the root when all are made.
Linked(r, new) ==
  {c \in new : Front(c.path) = r.path /\ (host = "node" \/ r # Root)}

At(p) == {i \in RootFields : resolvers[i].path = p}

MakeRoutes(p) ==
  /\ phase = "routing"
  /\ p \in todo
  /\ todo' = todo \ {p}
  /\ LET new == Missing(p)
         routes == DOMAIN children \cup new
     IN /\ children' = [r \in routes |-> (IF r \in new THEN {} ELSE children[r]) \cup Linked(r, new)]
        /\ items' = [r \in routes |-> (IF r \in new THEN {} ELSE items[r])
                                        \cup (IF r = RouteAt(p) THEN At(p) ELSE {})]
  /\ UNCHANGED <<host, added, phase, resolvers, gates, on, call, answer, asks>>

TopLevel == {r \in DOMAIN children : Len(r.path) = 1}

\* What the root gets when all paths have their routes: the top level ones in
\* .NET, and then those of the framework.
RootChildren ==
  children[Root] \cup (IF host = "net" THEN TopLevel ELSE {}) \cup FrameworkRoutes

-----------------------------------------------------------------------------
(* Fields of the type of a route: routes, and items, which name their      *)
(* resolver.  In node a field replaces an earlier one of its name, and the *)
(* items come after the routes.  In .NET the items come first, and a route *)
(* takes the field that has its name (HotChocolate's descriptor.Field) and *)
(* makes it its own; if two items have the name it takes that of the first *)
(* of them, and the library keeps the last field of a name.                *)

Item(i) == [resolver |-> i]
NoField == Item(0)  \* no resolver has this number

\* The place a resolver was declared for.
Place(i) == Append(resolvers[i].path, resolvers[i].name)

\* A resolver that a route of its place does not take the field of.
Keeps(i) == host = "node" \/ \E j \in DOMAIN resolvers \ {i} : Place(j) = Place(i)

ItemsNamed(r, n) ==
  IF r \in FrameworkRoutes THEN {} ELSE {i \in items[r] : resolvers[i].name = n}

\* Of two routes of one name the later one is kept, that of the framework.
RoutesNamed(tree, r, n) ==
  LET named == {c \in tree[r] : Last(c.path) = n}
  IN IF named \cap FrameworkRoutes # {} THEN named \cap FrameworkRoutes ELSE named

RoutesOverItems(tree, r, n) ==
  IF RoutesNamed(tree, r, n) # {} THEN RoutesNamed(tree, r, n)
  ELSE {Item(i) : i \in ItemsNamed(r, n)}

FieldsOf(tree, r, n) ==
  IF RoutesNamed(tree, r, n) # {} /\ \A i \in ItemsNamed(r, n) : ~Keeps(i)
  THEN RoutesNamed(tree, r, n)
  ELSE {Item(i) : i \in ItemsNamed(r, n)}

\* What a field leads to, or that there is none.
FieldsBelow(tree, x, n) ==
  IF x \in DOMAIN tree /\ FieldsOf(tree, x, n) # {} THEN FieldsOf(tree, x, n) ELSE {NoField}

\* What the fields along a path lead to.
Along(tree, p) ==
  LET at[k \in 0..Len(p)] ==
        IF k = 0 THEN {Root} ELSE UNION {FieldsBelow(tree, x, p[k]) : x \in at[k - 1]}
  IN at

Reached(tree, p) == Along(tree, p)[Len(p)]

\* A route's type is named after its last segment alone.
WholePath(r) == <<r.path, r.by>>
TypeName(r) == <<Last(r.path), r.by>>

\* Two types of one name that the schema reaches: it is not built.
NameTaken(tree) ==
  LET reached == (UNION {Reached(tree, r.path) : r \in DOMAIN tree \ {Root}}) \cap DOMAIN tree
  IN \E r, s \in reached : r # s /\ TypeName(r) = TypeName(s)

Finish ==
  /\ phase = "routing"
  /\ todo = {}
  /\ LET tree == [r \in DOMAIN children \cup FrameworkRoutes |->
                    IF r = Root THEN RootChildren
                    ELSE IF r \in FrameworkRoutes THEN {} ELSE children[r]]
     IN /\ children' = tree
        /\ phase' = IF NameTaken(tree) THEN "failed" ELSE "serving"
  /\ UNCHANGED <<host, added, resolvers, gates, todo, items, on, call, answer, asks>>

-----------------------------------------------------------------------------
(* Serving                                                                 *)

Switch(f) ==
  /\ phase = "serving"
  /\ asks < MaxAsks \/ call # Nothing
  /\ on' = IF f \in on THEN on \ {f} ELSE on \cup {f}
  /\ call' = IF call = Nothing THEN call
             ELSE [call EXCEPT !.seen = @ \cup on', !.missed = @ \cup (Features \ on')]
  /\ UNCHANGED <<host, added, phase, resolvers, gates, todo, children, items, answer, asks>>

\* What the schema has at the place a resolver was declared for.
Served(i) == Reached(children, Place(i))

\* The resolvers that had the fields of the routes on the way to i.
OnTheWay(i) == {j \in RootFields : IsPrefix(Place(j), resolvers[i].path)}

\* The directives of a field are wrapped around its resolver.  A field that a
\* route has taken keeps them, and is resolved before what is below it.
Tests(i) == gates[i] \cup UNION {gates[j] : j \in OnTheWay(i)}

Ask(i) ==
  /\ phase = "serving"
  /\ call = Nothing
  /\ asks < MaxAsks
  /\ \E j \in {j \in DOMAIN resolvers : Item(j) \in Served(i)} :
       call' = [of |-> j, left |-> Tests(j), seen |-> on, missed |-> Features \ on]
  /\ asks' = asks + 1
  /\ answer' = Nothing
  /\ UNCHANGED <<host, added, phase, resolvers, gates, todo, children, items, on>>

Reply(ran) == /\ answer' = [of |-> call.of, ran |-> ran, seen |-> call.seen, missed |-> call.missed]
              /\ call' = Nothing

\* In node all of them are tested in one go: a wrapper calls the next one
\* before it waits.
TestAll ==
  /\ host = "node"
  /\ call # Nothing
  /\ Reply(call.left \subseteq on)
  /\ UNCHANGED <<host, added, phase, resolvers, gates, todo, children, items, on, asks>>

\* In .NET each one is tested by itself, while other threads load features.
Test(f) ==
  /\ host = "net"
  /\ call # Nothing
  /\ f \in call.left
  /\ IF f \in on THEN call' = [call EXCEPT !.left = @ \ {f}] /\ UNCHANGED answer
                 ELSE Reply(FALSE)
  /\ UNCHANGED <<host, added, phase, resolvers, gates, todo, children, items, on, asks>>

Run ==
  /\ host = "net"
  /\ call # Nothing
  /\ call.left = {}
  /\ Reply(TRUE)
  /\ UNCHANGED <<host, added, phase, resolvers, gates, todo, children, items, on, asks>>

Next ==
  \/ \E class \in Paths \cup {Nothing}, own \in Paths, n \in Segments, d \in Decorations :
       Declare(class, own, n, d)
  \/ Begin \/ Finish \/ TestAll \/ Run
  \/ \E p \in todo : MakeRoutes(p)
  \/ \E f \in Features : Switch(f) \/ Test(f)
  \/ \E i \in DOMAIN resolvers : Ask(i)

Spec == Init /\ [][Next]_vars

-----------------------------------------------------------------------------
(* What the tree is, said of the resolvers as they were declared           *)

RoutePaths == UNION {Stops(resolvers[i].path) : i \in RootFields}

\* The place p, or one above it, is that of a route of the framework, or of a
\* resolver that no route takes the place of.
Covered(p) ==
  /\ p # <<>>
  /\ p[1] \in added \/ \E j \in RootFields : Keeps(j) /\ IsPrefix(Place(j), p)

\* A later resolver has replaced it, something else is on the way to it, or a
\* route has taken its field.
Hidden(i) ==
  \/ i \notin RootFields
  \/ Covered(resolvers[i].path)
  \/ ~Keeps(i) /\ (Place(i) \in RoutePaths \/ Place(i) \in {<<n>> : n \in added})

\* Every resolver is served where it was declared, whatever else is declared
\* and in whatever order, unless it is hidden: by a later one of the same place
\* or, in node, of the same name; in node, by one that has the name of a segment
\* of its path; in .NET, by a route of its place, unless it is one of two there,
\* and then they hide what the route leads to; or by the route of the events or,
\* in the queries of .NET, of the system (GraphQLSchemaRouteBuilder.ts:36,
\* SchemaRoute.ts, SchemaRoute.cs:66, GraphQLServiceCollectionExtensions.cs:74).
ServedUnlessHidden ==
  phase = "serving" => \A i \in DOMAIN resolvers : Served(i) = {Item(i)} <=> ~Hidden(i)

\* Two routes of the schema end in the same segment.
TwoOfOneName == \E p, q \in RoutePaths : /\ p # q /\ Last(p) = Last(q)
                                         /\ ~Covered(p) /\ ~Covered(q)

\* A schema is refused exactly when two of its routes end in the same segment:
\* types are named after the last segment, so that `orders/list' and
\* `carts/list' cannot both be routes (GraphQLSchemaRouteBuilder.ts:83).
RefusedForNames ==
  phase \in {"serving", "failed"} => (phase = "failed" <=> TwoOfOneName)

\* The features of a resolver, of its method and of its class.
Decorated(i) == resolvers[i].own \cup resolvers[i].class

\* A resolver runs only if each of its features was on at some moment of the
\* call, and is refused only if one of them was off at one, however they are
\* switched meanwhile (FeatureDirective.ts:64, FeatureDirectiveType.cs:46).  In
\* .NET it needs the features of the resolvers as well that have lost their
\* fields to the routes it is under.
RunsWithItsFeatures ==
  answer # Nothing =>
    LET needs == Decorated(answer.of) \cup UNION {Decorated(j) : j \in OnTheWay(answer.of)}
    IN IF answer.ran THEN needs \subseteq answer.seen ELSE needs \cap answer.missed # {}
=============================================================================
