------------------------- MODULE GraphQLRoutesProofs -------------------------
(* What holds of GraphQLRoutes for every number of segments and resolvers. *)
EXTENDS GraphQLRoutes, FiniteSetTheorems, WellFoundedInduction, TLAPS

-----------------------------------------------------------------------------
(* Paths                                                                   *)

\* The first k segments of a path.
Upto(p, k) == SubSeq(p, 1, k)

\* What is in the first segments of a path.
LEMMA UptoHas ==
  ASSUME NEW S, NEW p \in Seq(S), NEW k \in 0..Len(p)
  PROVE  /\ Upto(p, k) \in Seq(S)
         /\ Len(Upto(p, k)) = k
         /\ \A i \in 1..k : Upto(p, k)[i] = p[i]
BY DEF Upto

\* A path is all of its segments.
LEMMA UptoAll ==
  ASSUME NEW S, NEW p \in Seq(S)
  PROVE  Upto(p, Len(p)) = p
BY DEF Upto

\* One more segment.
LEMMA UptoNext ==
  ASSUME NEW S, NEW p \in Seq(S), NEW k \in 0..(Len(p) - 1)
  PROVE  Upto(p, k + 1) = Append(Upto(p, k), p[k + 1])
BY DEF Upto

\* The first segments of the first segments.
LEMMA UptoUpto ==
  ASSUME NEW S, NEW p \in Seq(S), NEW k \in 0..Len(p), NEW m \in 0..k
  PROVE  Upto(Upto(p, k), m) = Upto(p, m)
BY DEF Upto

\* Taking apart what was appended.
LEMMA AppendParts ==
  ASSUME NEW S, NEW q \in Seq(S), NEW n \in S
  PROVE  /\ Append(q, n) \in Seq(S) /\ Len(Append(q, n)) = Len(q) + 1
         /\ Front(Append(q, n)) = q
         /\ Last(Append(q, n)) = n
         /\ \A k \in 0..Len(q) : Upto(Append(q, n), k) = Upto(q, k)
BY DEF Front, Last, Upto

\* A path that has segments is all but the last, and the last.
LEMMA Parts ==
  ASSUME NEW S, NEW q \in Seq(S), q # <<>>
  PROVE  /\ Front(q) \in Seq(S) /\ Last(q) \in S /\ Len(q) \in Nat \ {0}
         /\ Len(Front(q)) = Len(q) - 1
         /\ Front(q) = Upto(q, Len(q) - 1)
         /\ q = Append(Front(q), Last(q))
<1>1. Len(q) \in Nat \ {0} /\ Last(q) \in S
  BY DEF Last
<1>2. Front(q) = Upto(q, Len(q) - 1)
  BY DEF Front, Upto
<1>3. Front(q) \in Seq(S) /\ Len(Front(q)) = Len(q) - 1
  BY <1>1, <1>2, UptoHas
<1>4. q = Append(Upto(q, Len(q) - 1), q[Len(q)])
  BY <1>1, UptoAll, UptoNext
<1> QED  BY <1>1, <1>2, <1>3, <1>4 DEF Last

\* What it is to begin with a path.
LEMMA PrefixIsUpto ==
  ASSUME NEW S, NEW p \in Seq(S), NEW q \in Seq(S)
  PROVE  IsPrefix(q, p) <=> Len(q) <= Len(p) /\ q = Upto(p, Len(q))
BY DEF IsPrefix, Upto

\* The segments of a path's stops.
LEMMA StopsHas ==
  ASSUME NEW S, NEW p \in Seq(S), NEW q
  PROVE  q \in Stops(p) <=> \E k \in 1..Len(p) : q = Upto(p, k)
BY DEF Stops, Upto

\* Routes, items and the lack of one are never each other.
LEMMA KindsDiffer ==
  ASSUME NEW p, NEW i, NEW q, NEW j, NEW n
  PROVE  /\ RouteAt(p) # Item(i) /\ FrameworkRoute(n) # Item(i) /\ RouteAt(p) # FrameworkRoute(n)
         /\ RouteAt(p) = RouteAt(q) => p = q
         /\ Item(i) = Item(j) => i = j
         /\ RouteAt(p).path = p /\ RouteAt(p).by = "paths"
         /\ FrameworkRoute(n).path = <<n>> /\ FrameworkRoute(n).by = "framework"
         /\ Root = RouteAt(<<>>)
BY DEF RouteAt, FrameworkRoute, Item, Root

LEMMA RouteParts ==
  /\ Root = RouteAt(<<>>)
  /\ \A p : RouteAt(p).path = p /\ RouteAt(p).by = "paths"
BY DEF RouteAt, Root

\* There is a least number of those that have a property.
LEMMA LeastNumber ==
  ASSUME NEW T \in SUBSET Nat, T # {}
  PROVE  \E n \in T : \A m \in T : n <= m
<1>1. PICK n \in T : \A m \in T : ~(<<m, n>> \in OpToRel(<, Nat))
  BY NatLessThanWellFounded, WFMin
<1>2. \A m \in T : ~(m < n)
  BY <1>1 DEF OpToRel
<1> QED  BY <1>2

-----------------------------------------------------------------------------
(* The tree of routes                                                      *)

FieldPaths == {resolvers[i].path : i \in RootFields}

\* The routes of some paths.
RoutesOf(ps) == {Root} \cup {RouteAt(q) : q \in UNION {Stops(p) : p \in ps}}

\* The routes below one, among some; the root of .NET gets its own at the end.
Under(routes, r, ofRoot) ==
  {c \in routes \ {Root} : /\ r.by = "paths" /\ Front(c.path) = r.path
                           /\ r = Root => ofRoot}

\* The tree when it is made.
AllRoutes == RoutesOf(FieldPaths) \cup FrameworkRoutes
Tree == [r \in AllRoutes |-> Under(AllRoutes, r, TRUE)]

ItemsAt(routes, ps) == [r \in routes |-> IF r.path \in ps THEN At(r.path) ELSE {}]

RoutesTypeOK ==
  /\ host \in {"node", "net"} /\ added \subseteq Segments
  /\ resolvers \in Seq(Resolvers)
  /\ phase \in {"declaring", "routing", "serving", "failed"}

\* While routes are made, the tree is that of the paths taken so far.
TreeOfPaths ==
  /\ phase = "declaring" =>
       /\ children = [r \in {Root} |-> {}]
       /\ items = [r \in {Root} |-> {}]
  /\ phase = "routing" =>
       LET done == FieldPaths \ todo
       IN /\ todo \subseteq FieldPaths
          /\ children = [r \in RoutesOf(done) |-> Under(RoutesOf(done), r, host = "node")]
          /\ items = ItemsAt(RoutesOf(done), done)
  /\ phase \in {"serving", "failed"} =>
       /\ children = Tree
       /\ items = ItemsAt(RoutesOf(FieldPaths), FieldPaths)
       /\ phase = "failed" <=> TwoOfOneName

TreeIsKept == RoutesTypeOK /\ TreeOfPaths

\* Declared paths are sequences of segments.
LEMMA PathsAreSequences ==
  ASSUME RoutesTypeOK
  PROVE  /\ \A i \in DOMAIN resolvers : /\ resolvers[i].path \in Seq(Segments)
                                        /\ resolvers[i].name \in Segments
                                        /\ resolvers[i] \in Resolvers
         /\ RootFields \subseteq DOMAIN resolvers
         /\ DOMAIN resolvers = 1..Len(resolvers)
         /\ FieldPaths \subseteq Seq(Segments)
<1>1. Paths \subseteq Seq(Segments)
  BY DEF Paths, SeqOf
<1>2. \A i \in DOMAIN resolvers : resolvers[i] \in Resolvers
  BY DEF RoutesTypeOK
<1>3. \A i \in DOMAIN resolvers : resolvers[i].path \in Seq(Segments) /\ resolvers[i].name \in Segments
  BY <1>1, <1>2 DEF Resolvers
<1>4. RootFields \subseteq DOMAIN resolvers
  BY DEF RootFields
<1> QED  BY <1>2, <1>3, <1>4 DEF RoutesTypeOK, FieldPaths

\* The stops of a path are paths with segments, and so are those above them.
LEMMA StopsOfPaths ==
  ASSUME NEW ps, ps \subseteq Seq(Segments), NEW q \in UNION {Stops(p) : p \in ps}
  PROVE  /\ q \in Seq(Segments) /\ q # <<>>
         /\ \A k \in 1..Len(q) : Upto(q, k) \in UNION {Stops(p) : p \in ps}
<1>1. PICK p \in ps : q \in Stops(p)
  OBVIOUS
<1>2. p \in Seq(Segments)
  BY <1>1
<1>3. PICK k \in 1..Len(p) : q = Upto(p, k)
  BY <1>1, <1>2, StopsHas
<1>4. q \in Seq(Segments) /\ Len(q) = k
  BY <1>2, <1>3, UptoHas
<1>5. q # <<>>
  BY <1>3, <1>4
<1>6. ASSUME NEW m \in 1..Len(q)  PROVE Upto(q, m) \in Stops(p)
  <2>1. Upto(q, m) = Upto(p, m)
    BY <1>2, <1>3, <1>4, UptoUpto
  <2> QED  BY <1>2, <1>3, <1>4, <2>1, StopsHas
<1> QED  BY <1>1, <1>4, <1>5, <1>6

\* The root and the routes of paths: where they are.
LEMMA RoutesOfPaths ==
  ASSUME NEW ps, ps \subseteq Seq(Segments)
  PROVE  /\ \A r \in RoutesOf(ps) : r.by = "paths" /\ r = RouteAt(r.path) /\ r.path \in Seq(Segments)
                                    /\ (r # Root <=> r.path # <<>>)
         /\ \A c \in RoutesOf(ps) \ {Root} : RouteAt(Front(c.path)) \in RoutesOf(ps)
         /\ \A n : FrameworkRoute(n) \notin RoutesOf(ps)
         /\ \A q \in Seq(Segments) :
              RouteAt(q) \in RoutesOf(ps) <=> q = <<>> \/ q \in UNION {Stops(p) : p \in ps}
<1> DEFINE stops == UNION {Stops(p) : p \in ps}
<1>1. \A q \in stops : /\ q \in Seq(Segments) /\ q # <<>>
                       /\ \A k \in 1..Len(q) : Upto(q, k) \in stops
  BY StopsOfPaths
<1>2. RoutesOf(ps) = {Root} \cup {RouteAt(q) : q \in stops}
  BY DEF RoutesOf
<1> HIDE DEF stops
<1>3. ASSUME NEW r \in RoutesOf(ps)
      PROVE  r = Root \/ \E q \in stops : r = RouteAt(q) /\ r.path = q
  BY <1>2, KindsDiffer
<1>4. ASSUME NEW r \in RoutesOf(ps)
      PROVE  r.by = "paths" /\ r = RouteAt(r.path) /\ r.path \in Seq(Segments)
                                    /\ (r # Root <=> r.path # <<>>)
  <2>1. PICK q \in stops \cup {<<>>} : r = RouteAt(q)
    BY <1>3, RouteParts
  <2>2. q \in Seq(Segments)
    <3>1. <<>> \in Seq(Segments)
      OBVIOUS
    <3> QED  BY <1>1, <3>1
  <2>3. r # Root <=> q # <<>>
    BY <2>1, RouteParts
  <2> QED  BY <2>1, <2>2, <2>3, RouteParts
<1>5. ASSUME NEW c \in RoutesOf(ps) \ {Root}  PROVE RouteAt(Front(c.path)) \in RoutesOf(ps)
  <2>1. c.path \in stops
    BY <1>3
  <2>2. c.path \in Seq(Segments) /\ c.path # <<>>
    BY <1>1, <2>1
  <2>3. /\ Front(c.path) = Upto(c.path, Len(c.path) - 1) /\ Len(c.path) \in Nat \ {0}
        /\ Front(c.path) \in Seq(Segments) /\ Len(Front(c.path)) = Len(c.path) - 1
    BY <2>2, Parts
  <2>4. CASE Len(c.path) = 1
    <3>1. Front(c.path) = <<>>
      BY <2>3, <2>4
    <3> QED  BY <3>1, <1>2, RouteParts
  <2>5. CASE Len(c.path) # 1
    <3>0. Len(c.path) - 1 \in 1..Len(c.path)
      <4> DEFINE n == Len(c.path)
      <4>1. n \in Nat \ {0} /\ n # 1
        BY <2>3, <2>5
      <4> HIDE DEF n
      <4>2. n - 1 \in 1..n
        BY ONLY <4>1
      <4> QED  BY <4>2 DEF n
    <3>1. Upto(c.path, Len(c.path) - 1) \in stops
      BY <2>1, <3>0, <1>1
    <3>2. Front(c.path) \in stops
      BY <3>1, <2>3
    <3> QED  BY <3>2, <1>2
  <2> QED  BY <2>4, <2>5
<1>6. \A n : FrameworkRoute(n) \notin RoutesOf(ps)
  BY <1>4, KindsDiffer
<1>7. \A q \in Seq(Segments) : RouteAt(q) \in RoutesOf(ps) <=> q = <<>> \/ q \in stops
  BY <1>2, KindsDiffer
<1> QED  BY <1>4, <1>5, <1>6, <1>7 DEF stops

\* Which routes a path adds, and to what.
LEMMA OnePathMore ==
  ASSUME NEW ps, ps \subseteq Seq(Segments), NEW p \in Seq(Segments)
  PROVE  RoutesOf(ps \cup {p}) = RoutesOf(ps) \cup {RouteAt(q) : q \in Stops(p)}
BY DEF RoutesOf

\* No route that is there is below one that is not.
LEMMA NewRoutesAreLeaves ==
  ASSUME NEW ps, ps \subseteq Seq(Segments), NEW q, RouteAt(q) \notin RoutesOf(ps), NEW ofRoot
  PROVE  Under(RoutesOf(ps), RouteAt(q), ofRoot) = {}
<1> SUFFICES ASSUME NEW c \in RoutesOf(ps) \ {Root}, Front(c.path) = q
             PROVE  FALSE
  BY RouteParts DEF Under
<1> QED
  BY RoutesOfPaths

\* In the beginning there is the root.
LEMMA NoPathsTaken ==
  /\ RoutesOf({}) = {Root}
  /\ [r \in RoutesOf({}) |-> Under(RoutesOf({}), r, host = "node")] = [r \in {Root} |-> {}]
  /\ ItemsAt(RoutesOf({}), {}) = [r \in {Root} |-> {}]
BY DEF RoutesOf, Under, ItemsAt

LEMMA TreeIsKeptByInit == Init => TreeIsKept
BY RoutesAssumption DEF Init, TreeIsKept, RoutesTypeOK, TreeOfPaths

LEMMA TreeIsKeptByDeclare ==
  ASSUME TreeIsKept,
         NEW class \in Paths \cup {Nothing}, NEW own \in Paths, NEW n \in Segments, NEW d \in Decorations,
         Declare(class, own, n, d)
  PROVE  TreeIsKept'
<1>1. [path |-> GraphRoot(class, own), name |-> n, class |-> d.class, own |-> d.own] \in Resolvers
  BY DEF Declare, Resolvers, Decorations
<1>2. resolvers' \in Seq(Resolvers)
  BY <1>1 DEF Declare, TreeIsKept, RoutesTypeOK
<1> QED
  BY <1>2 DEF Declare, TreeIsKept, RoutesTypeOK, TreeOfPaths

\* What is declared does not change any more.
LEMMA SameFields ==
  ASSUME UNCHANGED <<host, resolvers>>
  PROVE  RootFields' = RootFields /\ FieldPaths' = FieldPaths /\ (\A p : At(p)' = At(p))
         /\ \A routes, ps : ItemsAt(routes, ps)' = ItemsAt(routes, ps)
BY DEF RootFields, Replaces, FieldPaths, At, ItemsAt

LEMMA TreeIsKeptByBegin ==
  ASSUME TreeIsKept, Begin
  PROVE  TreeIsKept'
<1>1. UNCHANGED <<host, added, resolvers, children, items>> /\ phase' = "routing" /\ phase = "declaring"
  BY DEF Begin
<1>2. todo' = FieldPaths /\ FieldPaths' = FieldPaths
  BY <1>1, SameFields DEF Begin, FieldPaths
<1>3. FieldPaths' \ todo' = {}
  BY <1>2
<1>4. TreeOfPaths'
  BY <1>1, <1>2, <1>3, NoPathsTaken DEF TreeIsKept, TreeOfPaths, ItemsAt
<1> QED
  BY <1>1, <1>4 DEF TreeIsKept, RoutesTypeOK

LEMMA TreeIsKeptByMakeRoutes ==
  ASSUME TreeIsKept, NEW p \in todo, MakeRoutes(p)
  PROVE  TreeIsKept'
<1> DEFINE done == FieldPaths \ todo
           done2 == FieldPaths \ todo'
           old == RoutesOf(done)
           all == RoutesOf(done2)
           new == Missing(p)
           ofRoot == host = "node"
<1>1. /\ UNCHANGED <<host, added, resolvers, phase>> /\ phase = "routing" /\ todo' = todo \ {p}
      /\ todo \subseteq FieldPaths
      /\ children = [r \in old |-> Under(old, r, ofRoot)] /\ items = ItemsAt(old, done)
  BY DEF MakeRoutes, TreeIsKept, TreeOfPaths
<1>2. /\ FieldPaths \subseteq Seq(Segments) /\ p \in FieldPaths /\ p \in Seq(Segments)
      /\ done2 = done \cup {p} /\ done \subseteq Seq(Segments) /\ done2 \subseteq Seq(Segments)
  BY <1>1, PathsAreSequences DEF TreeIsKept
<1>3. DOMAIN children = old /\ DOMAIN items = old
  BY <1>1 DEF ItemsAt
<1>4. /\ new = {RouteAt(q) : q \in Stops(p)} \ old
      /\ all = old \cup new
  <2>1. all = old \cup {RouteAt(q) : q \in Stops(p)}
    BY <1>2, OnePathMore
  <2>2. new = {RouteAt(q) : q \in Stops(p)} \ old
    BY <1>3 DEF Missing
  <2> QED  BY <2>1, <2>2
<1>5. /\ children' = [r \in all |-> (IF r \in new THEN {} ELSE children[r]) \cup Linked(r, new)]
      /\ items' = [r \in all |-> (IF r \in new THEN {} ELSE items[r])
                                   \cup (IF r = RouteAt(p) THEN At(p) ELSE {})]
  BY <1>3, <1>4 DEF MakeRoutes
<1>6. ASSUME NEW r \in all
      PROVE  (IF r \in new THEN {} ELSE children[r]) = Under(old, r, ofRoot)
  <2>1. CASE r \in new
    <3>1. r \notin old /\ r = RouteAt(r.path)
      BY <1>2, <1>4, <2>1, RoutesOfPaths
    <3> QED  BY <1>2, <2>1, <3>1, NewRoutesAreLeaves
  <2>2. CASE r \notin new
    BY <1>1, <1>4, <2>2
  <2> QED  BY <2>1, <2>2
<1>7. ASSUME NEW r \in all
      PROVE  Under(old, r, ofRoot) \cup Linked(r, new) = Under(all, r, ofRoot)
  <2>1. r.by = "paths" /\ Root \in old /\ Root \notin new
    BY <1>2, <1>4, RoutesOfPaths DEF RoutesOf
  <2>2. Linked(r, new) = {c \in new : Front(c.path) = r.path /\ (host = "node" \/ r # Root)}
    BY DEF Linked
  <2> QED  BY <1>4, <2>1, <2>2 DEF Under
<1>8. children' = [r \in all |-> Under(all, r, ofRoot)]
  BY <1>5, <1>6, <1>7
<1>9. ASSUME NEW r \in all
      PROVE  (IF r \in new THEN {} ELSE items[r]) \cup (IF r = RouteAt(p) THEN At(p) ELSE {})
               = IF r.path \in done2 THEN At(r.path) ELSE {}
  <2>1. r = RouteAt(r.path) /\ (r = RouteAt(p) <=> r.path = p)
    BY <1>2, RoutesOfPaths, RouteParts
  <2>2. p \notin done
    OBVIOUS
  <2>3. CASE r \in new
    <3>1. r.path \notin done
      <4> SUFFICES ASSUME r.path \in done  PROVE FALSE
        OBVIOUS
      <4>1. r.path \in Seq(Segments)
        BY <1>2
      <4>2. r.path = <<>> \/ r.path \in Stops(r.path)
        BY <4>1, StopsHas, UptoAll
      <4>3. RouteAt(r.path) \in old
        BY <1>2, <4>1, <4>2, RoutesOfPaths
      <4> QED  BY <1>4, <2>1, <2>3, <4>3
    <3> QED  BY <1>2, <2>1, <2>3, <3>1
  <2>4. CASE r \notin new
    <3>1. items[r] = IF r.path \in done THEN At(r.path) ELSE {}
      BY <1>1, <1>4, <2>4 DEF ItemsAt
    <3> QED  BY <1>2, <2>1, <2>2, <2>4, <3>1
  <2> QED  BY <2>3, <2>4
<1>10. items' = ItemsAt(all, done2)
  BY <1>5, <1>9 DEF ItemsAt
<1>11. FieldPaths' \ todo' = done2 /\ FieldPaths' = FieldPaths /\ (\A q : At(q)' = At(q))
  BY <1>1, SameFields
<1>12. RoutesTypeOK'
  BY <1>1 DEF TreeIsKept, RoutesTypeOK
<1>13. TreeOfPaths'
  <2>1. todo' \subseteq FieldPaths'
    BY <1>1, <1>11
  <2>2. children' = [r \in RoutesOf(FieldPaths' \ todo') |->
                       Under(RoutesOf(FieldPaths' \ todo'), r, host' = "node")]
    BY <1>1, <1>8, <1>11
  <2>3. items' = [r \in RoutesOf(FieldPaths' \ todo') |->
                    IF r.path \in FieldPaths' \ todo' THEN At(r.path)' ELSE {}]
    BY <1>10, <1>11 DEF ItemsAt
  <2> HIDE DEF done, done2, old, all, new
  <2> QED  BY <1>1, <2>1, <2>2, <2>3 DEF TreeOfPaths, ItemsAt
<1> QED
  BY <1>12, <1>13 DEF TreeIsKept

-----------------------------------------------------------------------------
(* Where a path leads                                                      *)

\* The routes are made and the items given to them.
TreeMade == RoutesTypeOK /\ items = ItemsAt(RoutesOf(FieldPaths), FieldPaths)

\* What there is of a path: its route, one of the framework, resolvers.
RouteOf(q) == IF q \in RoutePaths THEN {RouteAt(q)} ELSE {}
FrameworkOf(q) == {FrameworkRoute(n) : n \in {n \in added : q = <<n>>}}
ItemsOf(q) == {j \in RootFields : Place(j) = q}

\* The route that is kept: the framework's over the declared one.
KeptOf(q) == IF FrameworkOf(q) # {} THEN FrameworkOf(q) ELSE RouteOf(q)

\* What the last field of a path leads to.
Standing(q) ==
  IF KeptOf(q) # {} /\ \A j \in ItemsOf(q) : ~Keeps(j) THEN KeptOf(q) ELSE {Item(j) : j \in ItemsOf(q)}

\* A path that is taken by something else than its route.
Blocked(q) == FrameworkOf(q) # {} \/ \E j \in ItemsOf(q) : Keeps(j)

LEMMA RoutePathsAre == RoutePaths = UNION {Stops(p) : p \in FieldPaths}
BY DEF RoutePaths, FieldPaths

\* Where a resolver was declared for.
LEMMA PlaceHas ==
  ASSUME RoutesTypeOK, NEW i \in DOMAIN resolvers
  PROVE  /\ Place(i) \in Seq(Segments) /\ Len(Place(i)) = Len(resolvers[i].path) + 1
         /\ Front(Place(i)) = resolvers[i].path /\ Last(Place(i)) = resolvers[i].name
         /\ \A k \in 0..Len(resolvers[i].path) : Upto(Place(i), k) = Upto(resolvers[i].path, k)
         /\ \A q \in Seq(Segments), n \in Segments :
              Place(i) = Append(q, n) <=> resolvers[i].path = q /\ resolvers[i].name = n
<1>1. resolvers[i].path \in Seq(Segments) /\ resolvers[i].name \in Segments
  BY PathsAreSequences
<1> DEFINE path == resolvers[i].path
           name == resolvers[i].name
<1> HIDE DEF path, name
<1>2. Place(i) = Append(path, name)
  BY DEF Place, path, name
<1>3. path \in Seq(Segments) /\ name \in Segments
  BY <1>1 DEF path, name
<1>4. \A q \in Seq(Segments), n \in Segments : Append(path, name) = Append(q, n) <=> path = q /\ name = n
  BY <1>3, AppendParts
<1> QED  BY <1>2, <1>3, <1>4, AppendParts DEF path, name

\* Who the routes are.
LEMMA AllRoutesAre ==
  ASSUME RoutesTypeOK
  PROVE  /\ \A r \in AllRoutes : \/ \E n \in added : r = FrameworkRoute(n)
                                 \/ r = RouteAt(r.path) /\ (r.path = <<>> \/ r.path \in RoutePaths)
         /\ \A q \in Seq(Segments) : RouteAt(q) \in AllRoutes <=> q = <<>> \/ q \in RoutePaths
         /\ \A n \in added : FrameworkRoute(n) \in AllRoutes
         /\ \A q \in RoutePaths : q \in Seq(Segments) /\ q # <<>>
<1>1. FieldPaths \subseteq Seq(Segments)
  BY PathsAreSequences
<1>2. \A q \in RoutePaths : q \in Seq(Segments) /\ q # <<>>
  BY <1>1, StopsOfPaths, RoutePathsAre
<1>3. \A q \in Seq(Segments) : RouteAt(q) \in RoutesOf(FieldPaths) <=> q = <<>> \/ q \in RoutePaths
  BY <1>1, RoutesOfPaths, RoutePathsAre
<1>4. \A r \in RoutesOf(FieldPaths) : r = RouteAt(r.path) /\ r.path \in Seq(Segments)
  BY <1>1, RoutesOfPaths
<1>5. \A q, n : RouteAt(q) # FrameworkRoute(n)
  BY KindsDiffer
<1>6. \A r : r \in AllRoutes <=> r \in RoutesOf(FieldPaths) \/ \E n \in added : r = FrameworkRoute(n)
  BY DEF AllRoutes, FrameworkRoutes
<1> QED  BY <1>2, <1>3, <1>4, <1>5, <1>6

\* A route of the framework is one of the root.
LEMMA FrameworkRouteHas ==
  ASSUME NEW n \in Segments
  PROVE  /\ FrameworkRoute(n).path = <<n>> /\ FrameworkRoute(n).by = "framework"
         /\ FrameworkRoute(n) # Root
         /\ <<n>> \in Seq(Segments) /\ <<n>> # <<>> /\ Front(<<n>>) = <<>> /\ Last(<<n>>) = n
         /\ Append(<<>>, n) = <<n>>
BY DEF FrameworkRoute, Root, Front, Last

\* The routes below a route that have a name.
LEMMA RoutesBelow ==
  ASSUME TreeMade, NEW q \in Seq(Segments), RouteAt(q) \in AllRoutes, NEW n \in Segments
  PROVE  RoutesNamed(Tree, RouteAt(q), n) = KeptOf(Append(q, n))
<1> DEFINE Q == Append(q, n)
           named == {c \in Tree[RouteAt(q)] : Last(c.path) = n}
<1>1. Q \in Seq(Segments) /\ Front(Q) = q /\ Last(Q) = n /\ Q # <<>>
  BY AppendParts
<1>2. Tree[RouteAt(q)] = {c \in AllRoutes \ {Root} : Front(c.path) = q}
  BY RouteParts DEF Tree, Under
<1>3. RoutesTypeOK /\ added \subseteq Segments
  BY DEF TreeMade, RoutesTypeOK
<1>4. ASSUME NEW c \in AllRoutes \ {Root}, Front(c.path) = q, Last(c.path) = n
      PROVE  c \in RouteOf(Q) \cup FrameworkOf(Q)
  <2>1. CASE \E m \in added : c = FrameworkRoute(m)
    <3>1. PICK m \in added : c = FrameworkRoute(m)
      BY <2>1
    <3>2. m = n /\ q = <<>> /\ Q = <<n>>
      BY <1>3, <1>4, <3>1, FrameworkRouteHas
    <3> HIDE DEF Q
    <3> QED  BY <3>1, <3>2 DEF FrameworkOf
  <2>2. CASE ~ \E m \in added : c = FrameworkRoute(m)
    <3>1. c = RouteAt(c.path) /\ c.path \in RoutePaths
      BY <1>3, <1>4, <2>2, AllRoutesAre, RouteParts
    <3>2. c.path \in Seq(Segments) /\ c.path # <<>>
      BY <1>3, <3>1, AllRoutesAre
    <3>3. c.path = Q
      BY <1>4, <3>2, Parts
    <3> HIDE DEF Q
    <3> QED  BY <3>1, <3>3 DEF RouteOf
  <2> QED  BY <2>1, <2>2
<1> HIDE DEF Q
<1>5. ASSUME NEW c \in RouteOf(Q)
      PROVE  c \in AllRoutes \ {Root} /\ Front(c.path) = q /\ Last(c.path) = n
  <2>1. c = RouteAt(Q) /\ Q \in RoutePaths
    BY DEF RouteOf
  <2> QED  BY <1>1, <1>3, <2>1, AllRoutesAre, RouteParts
<1>6. ASSUME NEW c \in FrameworkOf(Q)
      PROVE  c \in AllRoutes \ {Root} /\ Front(c.path) = q /\ Last(c.path) = n
  <2>1. PICK m \in added : c = FrameworkRoute(m) /\ Q = <<m>>
    BY DEF FrameworkOf
  <2> QED  BY <1>1, <1>3, <2>1, AllRoutesAre, FrameworkRouteHas
<1>7. named = RouteOf(Q) \cup FrameworkOf(Q)
  BY <1>2, <1>4, <1>5, <1>6
<1>8. RouteOf(Q) \cap FrameworkRoutes = {} /\ FrameworkOf(Q) \subseteq FrameworkRoutes
  BY KindsDiffer DEF RouteOf, FrameworkOf, FrameworkRoutes
<1>9. RoutesNamed(Tree, RouteAt(q), n) = IF named \cap FrameworkRoutes # {} THEN named \cap FrameworkRoutes
                                                                        ELSE named
  BY DEF RoutesNamed
<1> HIDE DEF named
<1> QED
  BY <1>7, <1>8, <1>9 DEF KeptOf, Q

\* The items of a route that have a name.
LEMMA ItemsBelow ==
  ASSUME TreeMade, NEW q \in Seq(Segments), RouteAt(q) \in AllRoutes, NEW n \in Segments
  PROVE  ItemsNamed(RouteAt(q), n) = ItemsOf(Append(q, n))
<1>1. RoutesTypeOK /\ RootFields \subseteq DOMAIN resolvers
  BY DEF TreeMade, RootFields
<1>2. RouteAt(q) \notin FrameworkRoutes /\ RouteAt(q).path = q
  BY KindsDiffer DEF FrameworkRoutes
<1>3. RouteAt(q) \in RoutesOf(FieldPaths)
  BY <1>2 DEF AllRoutes
<1>4. items[RouteAt(q)] = IF q \in FieldPaths THEN At(q) ELSE {}
  BY <1>2, <1>3 DEF TreeMade, ItemsAt
<1>5. items[RouteAt(q)] = {j \in RootFields : resolvers[j].path = q}
  BY <1>4 DEF At, FieldPaths
<1>6. \A j \in RootFields : Place(j) = Append(q, n) <=> resolvers[j].path = q /\ resolvers[j].name = n
  BY <1>1, PlaceHas
<1>7. {j \in items[RouteAt(q)] : resolvers[j].name = n} = {j \in RootFields : Place(j) = Append(q, n)}
  BY <1>5, <1>6
<1> QED
  BY <1>2, <1>7 DEF ItemsNamed, ItemsOf

\* What a field of a route leads to.
LEMMA BelowRoute ==
  ASSUME TreeMade, NEW q \in Seq(Segments), RouteAt(q) \in AllRoutes, NEW n \in Segments
  PROVE  FieldsBelow(Tree, RouteAt(q), n) =
           IF Standing(Append(q, n)) = {} THEN {NoField} ELSE Standing(Append(q, n))
<1> DEFINE Q == Append(q, n)
<1>1. /\ RoutesNamed(Tree, RouteAt(q), n) = KeptOf(Q)
      /\ ItemsNamed(RouteAt(q), n) = ItemsOf(Q)
  BY RoutesBelow, ItemsBelow
<1> HIDE DEF Q
<1>2. FieldsOf(Tree, RouteAt(q), n) = Standing(Q)
  BY <1>1 DEF FieldsOf, Standing
<1>3. RouteAt(q) \in DOMAIN Tree
  BY DEF Tree
<1> QED
  BY <1>2, <1>3 DEF FieldsBelow, Q

\* Below anything else there is nothing.
LEMMA BelowOthers ==
  ASSUME TreeMade, NEW x, NEW n,
         (\E m \in added : x = FrameworkRoute(m)) \/ \E i : x = Item(i)
  PROVE  FieldsBelow(Tree, x, n) = {NoField}
<1>1. CASE \E m \in added : x = FrameworkRoute(m)
  <2>0. x \in FrameworkRoutes /\ x.by # "paths"
    BY <1>1, KindsDiffer DEF FrameworkRoutes
  <2>1. x \in DOMAIN Tree => RoutesNamed(Tree, x, n) = {}
    BY <2>0 DEF Tree, Under, RoutesNamed
  <2>2. ItemsNamed(x, n) = {}
    BY <2>0 DEF ItemsNamed
  <2>3. x \in DOMAIN Tree => FieldsOf(Tree, x, n) = {}
    BY <2>1, <2>2 DEF FieldsOf
  <2> QED  BY <2>3 DEF FieldsBelow
<1>2. CASE \E i : x = Item(i)
  <2>1. x \notin AllRoutes
    BY <1>2, AllRoutesAre, KindsDiffer DEF TreeMade
  <2> QED  BY <2>1 DEF FieldsBelow, Tree
<1> QED  BY <1>1, <1>2

\* One resolver at most is left at a place.
LEMMA OneItem ==
  ASSUME RoutesTypeOK, NEW i \in RootFields, NEW j \in RootFields, Place(i) = Place(j)
  PROVE  i = j
<1>1. i \in DOMAIN resolvers /\ j \in DOMAIN resolvers /\ DOMAIN resolvers \subseteq Nat
  BY PathsAreSequences
<1>2. resolvers[i].name = resolvers[j].name /\ resolvers[i].path = resolvers[j].path
  BY <1>1, PlaceHas
<1>3. ~(j > i) /\ ~(i > j)
  BY <1>1, <1>2 DEF RootFields, Replaces
<1> QED  BY <1>1, <1>3

\* What stands at a path, and who that is.
LEMMA StandingHas ==
  ASSUME RoutesTypeOK, NEW q
  PROVE  /\ RouteAt(q) \in Standing(q) <=> q \in RoutePaths /\ ~Blocked(q)
         /\ \A j \in RootFields :
              Item(j) \in Standing(q) <=> Place(j) = q /\ (Keeps(j) \/ KeptOf(q) = {})
         /\ \A x \in Standing(q) : \/ x = RouteAt(q)
                                   \/ \E n \in added : x = FrameworkRoute(n)
                                   \/ \E j \in RootFields : x = Item(j)
         /\ Standing(q) # {} => \E v : Standing(q) = {v}
<1>1. \A x : x \in RouteOf(q) <=> x = RouteAt(q) /\ q \in RoutePaths
  BY DEF RouteOf
<1>2. \A x : x \in FrameworkOf(q) <=> \E n \in added : x = FrameworkRoute(n) /\ q = <<n>>
  BY DEF FrameworkOf
<1>3. \A j : j \in ItemsOf(q) <=> j \in RootFields /\ Place(j) = q
  BY DEF ItemsOf
<1>4. \A i, j, n : /\ RouteAt(q) # Item(i) /\ FrameworkRoute(n) # Item(i) /\ RouteAt(q) # FrameworkRoute(n)
                   /\ Item(i) = Item(j) => i = j
  BY KindsDiffer
<1>5. \A i, j \in ItemsOf(q) : i = j
  BY <1>3, OneItem
<1>6. \A x : x \in KeptOf(q) <=> x \in FrameworkOf(q) \/ (x \in RouteOf(q) /\ FrameworkOf(q) = {})
  BY DEF KeptOf
<1>7. CASE KeptOf(q) # {} /\ \A j \in ItemsOf(q) : ~Keeps(j)
  <2>1. Standing(q) = KeptOf(q)
    BY <1>7 DEF Standing
  <2>2. RouteAt(q) \in Standing(q) <=> q \in RoutePaths /\ ~Blocked(q)
    BY <1>1, <1>2, <1>4, <1>6, <1>7, <2>1 DEF Blocked
  <2>3. \A j : Item(j) \notin Standing(q)
    BY <1>1, <1>2, <1>4, <1>6, <2>1
  <2>4. \E v : Standing(q) = {v}
    <3>1. CASE FrameworkOf(q) # {}
      <4>1. PICK n \in added : q = <<n>>
        BY <1>2, <3>1
      <4>2. \A x : x \in FrameworkOf(q) <=> x = FrameworkRoute(n)
        <5>1. \A m : <<n>> = <<m>> => m = n
          OBVIOUS
        <5> QED  BY <1>2, <4>1, <5>1
      <4>3. KeptOf(q) = {FrameworkRoute(n)}
        BY <3>1, <4>2 DEF KeptOf
      <4> QED  BY <2>1, <4>3
    <3>2. CASE FrameworkOf(q) = {}
      <4>1. KeptOf(q) = {RouteAt(q)}
        BY <1>7, <3>2 DEF KeptOf, RouteOf
      <4> QED  BY <2>1, <4>1
    <3> QED  BY <3>1, <3>2
  <2> QED
    BY <1>1, <1>2, <1>3, <1>6, <1>7, <2>1, <2>2, <2>3, <2>4
<1>8. CASE ~(KeptOf(q) # {} /\ \A j \in ItemsOf(q) : ~Keeps(j))
  <2>1. Standing(q) = {Item(j) : j \in ItemsOf(q)}
    BY <1>8 DEF Standing
  <2>2. RouteAt(q) \notin Standing(q)
    BY <1>4, <2>1
  <2>3. q \in RoutePaths => Blocked(q)
    BY <1>1, <1>6, <1>8 DEF Blocked
  <2>4. ASSUME NEW j \in RootFields
        PROVE  Item(j) \in Standing(q) <=> Place(j) = q /\ (Keeps(j) \/ KeptOf(q) = {})
    <3>1. Item(j) \in Standing(q) <=> j \in ItemsOf(q)
      BY <1>4, <2>1
    <3>2. j \in ItemsOf(q) => Keeps(j) \/ KeptOf(q) = {}
      BY <1>5, <1>8
    <3> QED  BY <1>3, <3>1, <3>2
  <2>5. ASSUME Standing(q) # {}  PROVE \E v : Standing(q) = {v}
    <3>1. PICK j \in ItemsOf(q) : TRUE
      BY <2>1, <2>5
    <3>2. Standing(q) = {Item(j)}
      BY <1>5, <2>1, <3>1
    <3> QED  BY <3>2
  <2>6. \A x \in Standing(q) : \E j \in RootFields : x = Item(j)
    BY <1>3, <2>1
  <2> QED
    BY <2>2, <2>3, <2>4, <2>5, <2>6
<1> QED
  BY <1>7, <1>8

\* The fields along a path, one by one.
AreAlong(at, p) ==
  /\ at[0] = {Root}
  /\ \A k \in 0..(Len(p) - 1) : at[k + 1] = UNION {FieldsBelow(Tree, x, p[k + 1]) : x \in at[k]}

\* They are what the definition says: the ends of the walks along the path.
LEMMA AlongIsDefined ==
  ASSUME NEW p \in Seq(Segments)
  PROVE  AreAlong(Along(Tree, p), p)
<1> DEFINE Step(x, n) == FieldsBelow(Tree, x, n)
           Led == UNION {UNION {Step(x, p[m]) : m \in 1..Len(p)} : x \in DOMAIN Tree}
           Nodes == {Root, NoField} \cup Led
           IsWalk(w, k) == w[0] = Root /\ \A m \in 1..k : w[m] \in Step(w[m - 1], p[m])
           Ends == [k \in 0..Len(p) |-> {w[k] : w \in {w \in [0..k -> Nodes] : IsWalk(w, k)}}]
           Body(at, k) == IF k = 0 THEN {Root} ELSE UNION {Step(x, p[k]) : x \in at[k - 1]}
           Is(at) == at = [k \in 0..Len(p) |-> Body(at, k)]
<1>1. Len(p) \in Nat
  OBVIOUS
<1> HIDE DEF Step
<1>2. ASSUME NEW x, NEW m \in 1..Len(p)  PROVE Step(x, p[m]) \subseteq Nodes
  <2>1. CASE x \in DOMAIN Tree
    BY <2>1
  <2>2. CASE x \notin DOMAIN Tree
    <3>1. Step(x, p[m]) = {NoField}
      BY <2>2 DEF Step, FieldsBelow
    <3> HIDE DEF Led
    <3>2. NoField \in Nodes
      OBVIOUS
    <3> HIDE DEF Nodes
    <3> QED  BY <3>1, <3>2
  <2> QED  BY <2>1, <2>2
<1> DEFINE EndsAt(k) == {w[k] : w \in {w \in [0..k -> Nodes] : IsWalk(w, k)}}
<1>0. \A k \in 0..Len(p) : Ends[k] = EndsAt(k)
  OBVIOUS
<1> HIDE DEF Nodes, Ends
<1>3. Ends[0] = {Root}
  <2> DEFINE only == [m \in 0..0 |-> Root]
  <2>1. only \in [0..0 -> Nodes] /\ IsWalk(only, 0) /\ only[0] = Root
    BY DEF Nodes
  <2>2. Ends[0] = {w[0] : w \in {w \in [0..0 -> Nodes] : IsWalk(w, 0)}}
    <3>1. 0 \in 0..Len(p)
      BY <1>1
    <3>2. Ends[0] = EndsAt(0)
      BY ONLY <1>0, <3>1
    <3> QED  BY <3>2
  <2> HIDE DEF only
  <2>3. Root \in Ends[0]
    BY <2>1, <2>2
  <2>4. Ends[0] \subseteq {Root}
    BY <2>2
  <2> QED  BY <2>3, <2>4
<1>4. ASSUME NEW k \in 1..Len(p)
      PROVE  Ends[k] = UNION {Step(x, p[k]) : x \in Ends[k - 1]}
  <2>1. /\ k \in Nat \ {0} /\ k - 1 \in 0..Len(p) /\ k \in 0..Len(p)
        /\ Ends[k] = {w[k] : w \in {w \in [0..k -> Nodes] : IsWalk(w, k)}}
        /\ Ends[k - 1] = {w[k - 1] : w \in {w \in [0..(k - 1) -> Nodes] : IsWalk(w, k - 1)}}
    <3>1. k \in Nat \ {0} /\ k - 1 \in 0..Len(p) /\ k \in 0..Len(p)
      BY <1>1
    <3>2. Ends[k] = EndsAt(k) /\ Ends[k - 1] = EndsAt(k - 1)
      BY ONLY <1>0, <3>1
    <3> QED  BY <3>1, <3>2
  <2>2. ASSUME NEW y \in Ends[k]  PROVE \E x \in Ends[k - 1] : y \in Step(x, p[k])
    <3>1. PICK w \in [0..k -> Nodes] : IsWalk(w, k) /\ y = w[k]
      BY <2>1
    <3> DEFINE v == [m \in 0..(k - 1) |-> w[m]]
    <3>2. v \in [0..(k - 1) -> Nodes] /\ IsWalk(v, k - 1)
      BY <2>1, <3>1
    <3>3. v[k - 1] = w[k - 1] /\ v[k - 1] \in Ends[k - 1]
      <4>1. v[k - 1] = w[k - 1]
        BY <2>1
      <4> HIDE DEF v
      <4>2. v[k - 1] \in Ends[k - 1]
        BY <2>1, <3>2
      <4> QED  BY <4>1, <4>2
    <3>4. y \in Step(w[k - 1], p[k])
      BY <2>1, <3>1
    <3> QED  BY <3>3, <3>4
  <2>3. ASSUME NEW x \in Ends[k - 1], NEW y \in Step(x, p[k])  PROVE y \in Ends[k]
    <3>1. PICK v \in [0..(k - 1) -> Nodes] : IsWalk(v, k - 1) /\ x = v[k - 1]
      BY <2>1
    <3> DEFINE w == [m \in 0..k |-> IF m = k THEN y ELSE v[m]]
    <3>2. y \in Nodes
      BY <1>2
    <3>3. w \in [0..k -> Nodes] /\ w[k] = y /\ \A m \in 0..(k - 1) : w[m] = v[m]
      BY <2>1, <3>1, <3>2
    <3> HIDE DEF w
    <3>4. w[0] = Root
      BY <2>1, <3>1, <3>3
    <3>5. ASSUME NEW m \in 1..k  PROVE w[m] \in Step(w[m - 1], p[m])
      <4>1. m - 1 \in 0..(k - 1)
        BY <2>1
      <4>2. CASE m = k
        BY <3>1, <3>3, <4>1, <4>2
      <4>3. CASE m # k
        <5>1. m \in 1..(k - 1) /\ m \in 0..(k - 1)
          BY <2>1, <4>3
        <5> QED  BY <3>1, <3>3, <4>1, <5>1
      <4> QED  BY <4>2, <4>3
    <3>6. IsWalk(w, k)
      BY <3>4, <3>5
    <3> QED  BY <2>1, <3>3, <3>6
  <2> QED  BY <2>2, <2>3
<1>5. Is(Ends)
  <2>1. Ends = [k \in 0..Len(p) |-> Ends[k]]
    BY DEF Ends
  <2>2. ASSUME NEW k \in 0..Len(p)  PROVE Ends[k] = Body(Ends, k)
    <3>1. CASE k = 0
      BY <1>3, <3>1
    <3>2. CASE k # 0
      <4>1. k \in 1..Len(p)
        BY <1>1, <3>2
      <4> QED  BY <1>4, <3>2, <4>1
    <3> QED  BY <3>1, <3>2
  <2> QED  BY <2>1, <2>2
<1>6. Along(Tree, p) = CHOOSE at : Is(at)
  BY DEF Along, Step
<1>7. Is(Along(Tree, p))
  BY <1>5, <1>6
<1> DEFINE at == Along(Tree, p)
<1>8. \A k \in 0..Len(p) : at[k] = Body(at, k)
  <2> HIDE DEF at, Body
  <2> QED  BY <1>7 DEF at
<1> HIDE DEF at
<1>9. ASSUME NEW k \in 0..(Len(p) - 1)
      PROVE  at[k + 1] = UNION {Step(x, p[k + 1]) : x \in at[k]}
  <2>1. k + 1 \in 0..Len(p) /\ k + 1 # 0 /\ (k + 1) - 1 = k
    BY <1>1
  <2> QED  BY <1>8, <2>1
<1>10. at[0] = {Root}
  <2>1. 0 \in 0..Len(p)
    BY <1>1
  <2> QED  BY <1>8, <2>1
<1> QED
  BY <1>9, <1>10 DEF AreAlong, at, Step

\* The routes of a path's first segments are there, and nothing takes the
\* place of one.
Straight(p, k) == \A m \in 1..k : Upto(p, m) \in RoutePaths /\ ~Blocked(Upto(p, m))

\* What the first fields of a path lead to.
Leads(at, p, k) ==
  LET q == Upto(p, k)
  IN /\ \A x \in at[k] : \/ x = RouteAt(q)
                         \/ \E n \in added : x = FrameworkRoute(n)
                         \/ \E j \in RootFields \cup {0} : x = Item(j)
     /\ RouteAt(q) \in at[k] <=> Straight(p, k)
     /\ \A j \in RootFields : Item(j) \in at[k] <=> /\ k # 0 /\ Straight(p, k - 1)
                                                   /\ Item(j) \in Standing(q)
     /\ \E v : at[k] = {v}

LEMMA LeadsAtRoot ==
  ASSUME TreeMade, NEW p \in Seq(Segments), NEW at, AreAlong(at, p)
  PROVE  Leads(at, p, 0)
<1>1. Upto(p, 0) = <<>> /\ at[0] = {RouteAt(<<>>)}
  BY RouteParts DEF Upto, AreAlong
<1>2. Straight(p, 0)
  BY DEF Straight
<1>3. \A j : Item(j) # RouteAt(<<>>)
  BY KindsDiffer
<1> QED
  BY <1>1, <1>2, <1>3 DEF Leads

LEMMA LeadsOneFurther ==
  ASSUME TreeMade, NEW p \in Seq(Segments), NEW at, AreAlong(at, p),
         NEW k \in 0..(Len(p) - 1), Leads(at, p, k)
  PROVE  Leads(at, p, k + 1)
<1> DEFINE q == Upto(p, k)
           n == p[k + 1]
           Q == Upto(p, k + 1)
           From(x) == FieldsBelow(Tree, x, n)
<1>1. /\ Q = Append(q, n) /\ q \in Seq(Segments) /\ n \in Segments /\ Q \in Seq(Segments)
      /\ k \in Nat /\ k + 1 # 0 /\ (k + 1) - 1 = k
  <2>1. k \in 0..Len(p) /\ k + 1 \in 0..Len(p) /\ k \in Nat /\ k + 1 # 0 /\ (k + 1) - 1 = k
    OBVIOUS
  <2>2. p[k + 1] \in Segments
    BY <2>1
  <2> QED  BY <2>1, <2>2, UptoNext, UptoHas
<1>2. at[k + 1] = UNION {From(x) : x \in at[k]}
  BY DEF AreAlong
<1>3. RoutesTypeOK
  BY DEF TreeMade
<1>4. Straight(p, k + 1) <=> Straight(p, k) /\ Q \in RoutePaths /\ ~Blocked(Q)
  <2>1. \A m \in 1..(k + 1) : m \in 1..k \/ m = k + 1
    BY <1>1
  <2>2. k + 1 \in 1..(k + 1) /\ 1..k \subseteq 1..(k + 1)
    BY <1>1
  <2> QED  BY <2>1, <2>2 DEF Straight
<1>5. RouteAt(q) \in at[k] => RouteAt(q) \in AllRoutes
  <2>1. CASE k = 0
    <3>1. q = <<>>
      BY <2>1 DEF Upto
    <3> QED  BY <1>1, <1>3, <3>1, AllRoutesAre
  <2>2. CASE k # 0
    <3>1. Straight(p, k) => q \in RoutePaths
      BY <1>1, <2>2 DEF Straight
    <3> QED  BY <1>1, <1>3, <3>1, AllRoutesAre DEF Leads
  <2> QED  BY <2>1, <2>2
<1> HIDE DEF q, n, Q, From
<1>6. PICK u : at[k] = {u}
  BY DEF Leads
<1>7. at[k + 1] = From(u)
  BY <1>2, <1>6
<1>8. /\ \A j \in RootFields : j # 0
      /\ \A i, j : Item(i) # RouteAt(Q) /\ (Item(i) = Item(j) => i = j)
  BY <1>3, PathsAreSequences, KindsDiffer
<1>9. RouteAt(q) \in at[k] <=> Straight(p, k)
  BY DEF Leads, q
<1>10. /\ RouteAt(Q) \in Standing(Q) <=> Q \in RoutePaths /\ ~Blocked(Q)
       /\ \A x \in Standing(Q) : \/ x = RouteAt(Q)
                                 \/ \E m \in added : x = FrameworkRoute(m)
                                 \/ \E j \in RootFields : x = Item(j)
       /\ Standing(Q) # {} => \E v : Standing(Q) = {v}
  BY <1>3, StandingHas
<1>11. /\ \A x \in at[k + 1] : \/ x = RouteAt(Q)
                               \/ \E m \in added : x = FrameworkRoute(m)
                               \/ \E j \in RootFields \cup {0} : x = Item(j)
       /\ RouteAt(Q) \in at[k + 1] <=> Straight(p, k + 1)
       /\ \A j \in RootFields : Item(j) \in at[k + 1] <=> Straight(p, k) /\ Item(j) \in Standing(Q)
       /\ \E v : at[k + 1] = {v}
  <2>1. CASE u = RouteAt(q)
    <3>1. From(u) = IF Standing(Q) = {} THEN {NoField} ELSE Standing(Q)
      BY <1>1, <1>5, <1>6, <2>1, BelowRoute DEF From
    <3>2. Straight(p, k)
      BY <1>6, <1>9, <2>1
    <3>3. CASE Standing(Q) = {}
      <4>1. at[k + 1] = {Item(0)}
        BY <1>7, <3>1, <3>3 DEF NoField
      <4> QED  BY <1>4, <1>8, <1>10, <3>3, <4>1
    <3>4. CASE Standing(Q) # {}
      <4>1. at[k + 1] = Standing(Q)
        BY <1>7, <3>1, <3>4
      <4> QED  BY <1>4, <1>10, <3>2, <3>4, <4>1
    <3> QED  BY <3>3, <3>4
  <2>2. CASE u # RouteAt(q)
    <3>1. (\E m \in added : u = FrameworkRoute(m)) \/ \E i : u = Item(i)
      BY <1>6, <2>2 DEF Leads, q
    <3>2. at[k + 1] = {Item(0)}
      BY <1>7, <3>1, BelowOthers DEF From, NoField
    <3>3. ~Straight(p, k)
      BY <1>6, <1>9, <2>2
    <3> QED  BY <1>4, <1>8, <3>2, <3>3
  <2> QED  BY <2>1, <2>2
<1> QED
  BY <1>1, <1>11 DEF Leads, Q

\* What any of a path's first fields lead to.
LEMMA WhereItLeads ==
  ASSUME TreeMade, NEW p \in Seq(Segments), NEW at, AreAlong(at, p), NEW k \in 0..Len(p)
  PROVE  Leads(at, p, k)
<1> DEFINE astray == {m \in 0..Len(p) : ~Leads(at, p, m)}
<1>1. SUFFICES ASSUME astray # {}  PROVE FALSE
  OBVIOUS
<1>2. astray \in SUBSET Nat
  OBVIOUS
<1>3. PICK m \in astray : \A l \in astray : m <= l
  BY <1>1, <1>2, LeastNumber
<1>4. CASE m = 0
  BY <1>3, <1>4, LeadsAtRoot
<1>5. CASE m # 0
  <2>1. m \in Nat /\ m - 1 \in 0..(Len(p) - 1) /\ m - 1 \in 0..Len(p) /\ (m - 1) + 1 = m /\ ~(m <= m - 1)
    BY <1>2, <1>5
  <2>2. Leads(at, p, m - 1)
    BY <1>3, <2>1
  <2>3. Leads(at, p, (m - 1) + 1)
    BY <2>1, <2>2, LeadsOneFurther
  <2> QED  BY <2>1, <2>3
<1> QED
  BY <1>4, <1>5

\* Who takes the place of a path's first segments.
LEMMA BlockedOnTheWay ==
  ASSUME RoutesTypeOK, NEW q \in Seq(Segments)
  PROVE  (\E m \in 1..Len(q) : Blocked(Upto(q, m))) <=> Covered(q)
<1>1. \A j \in RootFields : Place(j) \in Seq(Segments) /\ Len(Place(j)) \in Nat \ {0}
  <2> SUFFICES ASSUME NEW j \in RootFields
               PROVE  Place(j) \in Seq(Segments) /\ Len(Place(j)) \in Nat \ {0}
    OBVIOUS
  <2>1. j \in DOMAIN resolvers /\ resolvers[j].path \in Seq(Segments)
    BY PathsAreSequences
  <2>2. Place(j) \in Seq(Segments) /\ Len(Place(j)) = Len(resolvers[j].path) + 1
    BY <2>1, PlaceHas
  <2>3. Len(resolvers[j].path) \in Nat
    BY <2>1
  <2> QED  BY <2>2, <2>3
<1>2. \A m \in 1..Len(q) : /\ Upto(q, m) \in Seq(Segments) /\ Len(Upto(q, m)) = m
                           /\ Upto(q, m)[1] = q[1]
  BY UptoHas
<1>3. ASSUME NEW m \in 1..Len(q), Blocked(Upto(q, m))
      PROVE  Covered(q)
  <2>0. q # <<>>
    OBVIOUS
  <2>1. ASSUME NEW j \in ItemsOf(Upto(q, m)), Keeps(j)  PROVE Covered(q)
    <3>1. j \in RootFields /\ Place(j) = Upto(q, m)
      BY <2>1 DEF ItemsOf
    <3>2. Len(Place(j)) = m /\ m <= Len(q)
      BY <1>2, <3>1
    <3>3. IsPrefix(Place(j), q)
      BY <1>1, <3>1, <3>2, PrefixIsUpto
    <3> QED  BY <2>0, <2>1, <3>1, <3>3 DEF Covered
  <2>2. CASE FrameworkOf(Upto(q, m)) # {}
    <3>1. PICK n \in added : Upto(q, m) = <<n>>
      BY <2>2 DEF FrameworkOf
    <3>2. q[1] = n
      BY <1>2, <3>1
    <3> QED  BY <2>0, <3>1, <3>2 DEF Covered
  <2> QED  BY <1>3, <2>1, <2>2 DEF Blocked
<1>4. ASSUME NEW j \in RootFields, Keeps(j), IsPrefix(Place(j), q)
      PROVE  \E m \in 1..Len(q) : Blocked(Upto(q, m))
  <2>1. Len(Place(j)) <= Len(q) /\ Place(j) = Upto(q, Len(Place(j))) /\ Len(q) \in Nat
    BY <1>1, <1>4, PrefixIsUpto
  <2>2. Len(Place(j)) \in 1..Len(q)
    BY <1>1, <2>1
  <2>3. j \in ItemsOf(Upto(q, Len(Place(j))))
    BY <2>1 DEF ItemsOf
  <2> QED  BY <1>4, <2>2, <2>3 DEF Blocked
<1>5. ASSUME q # <<>>, q[1] \in added
      PROVE  \E m \in 1..Len(q) : Blocked(Upto(q, m))
  <2>1. 1 \in 1..Len(q)
    BY <1>5
  <2>2. Upto(q, 1) = <<q[1]>>
    <3> DEFINE u == Upto(q, 1)
    <3>1. u \in Seq(Segments) /\ Len(u) = 1 /\ u[1] = q[1]
      BY <1>2, <2>1
    <3> HIDE DEF u
    <3>2. u = <<q[1]>>
      BY <3>1
    <3> QED  BY <3>2 DEF u
  <2> QED  BY <1>5, <2>1, <2>2 DEF Blocked, FrameworkOf
<1> QED
  BY <1>3, <1>4, <1>5 DEF Covered

\* A route is served unless something covers it.
LEMMA StraightUnlessCovered ==
  ASSUME RoutesTypeOK, NEW q \in RoutePaths
  PROVE  Straight(q, Len(q)) <=> ~Covered(q)
<1>1. q \in Seq(Segments)
  BY AllRoutesAre
<1>2. \A m \in 1..Len(q) : Upto(q, m) \in RoutePaths
  BY PathsAreSequences, StopsOfPaths, RoutePathsAre
<1> QED
  BY <1>1, <1>2, BlockedOnTheWay DEF Straight

\* The routes that a schema reaches.
ReachedRoutes == (UNION {Reached(Tree, r.path) : r \in DOMAIN Tree \ {Root}}) \cap DOMAIN Tree

LEMMA ReachedRoutesAre ==
  ASSUME TreeMade
  PROVE  /\ \A q \in RoutePaths : RouteAt(q) \in ReachedRoutes <=> ~Covered(q)
         /\ \A r \in ReachedRoutes : (\E n \in added : r = FrameworkRoute(n)) \/ \E q \in RoutePaths : r = RouteAt(q)
<1>1. RoutesTypeOK /\ DOMAIN Tree = AllRoutes
  BY DEF TreeMade, Tree
<1>0. \A x : x \in ReachedRoutes <=> /\ x \in AllRoutes
                                     /\ \E r \in AllRoutes \ {Root} : x \in Reached(Tree, r.path)
  <2> DEFINE reached == UNION {Reached(Tree, r.path) : r \in AllRoutes \ {Root}}
  <2>1. ReachedRoutes = reached \cap AllRoutes
    BY <1>1 DEF ReachedRoutes
  <2> QED  BY <2>1
<1>2. ASSUME NEW p \in Seq(Segments)
      PROVE  /\ \A x \in Reached(Tree, p) : \/ x = RouteAt(p) \/ (\E n \in added : x = FrameworkRoute(n)) \/ \E i : x = Item(i)
             /\ RouteAt(p) \in Reached(Tree, p) <=> Straight(p, Len(p))
  <2> DEFINE at == Along(Tree, p)
  <2>1. AreAlong(at, p) /\ Len(p) \in 0..Len(p) /\ Upto(p, Len(p)) = p
    BY AlongIsDefined, UptoAll
  <2> HIDE DEF at
  <2>2. Leads(at, p, Len(p))
    BY <2>1, WhereItLeads
  <2> QED  BY <2>1, <2>2 DEF Leads, Reached, at
<1>3. \A r \in AllRoutes \ {Root} : r.path \in Seq(Segments) /\ r.path # <<>>
  <2>1. \A n \in added : FrameworkRoute(n).path \in Seq(Segments) /\ FrameworkRoute(n).path # <<>>
    BY <1>1, FrameworkRouteHas DEF RoutesTypeOK
  <2> QED  BY <1>1, <2>1, AllRoutesAre, RouteParts
<1>4. ASSUME NEW q \in RoutePaths
      PROVE  RouteAt(q) \in ReachedRoutes <=> ~Covered(q)
  <2>1. q \in Seq(Segments) /\ q # <<>> /\ RouteAt(q) \in AllRoutes \ {Root} /\ RouteAt(q).path = q
    BY <1>1, AllRoutesAre, RouteParts
  <2>2. ~Covered(q) => RouteAt(q) \in ReachedRoutes
    BY <1>0, <1>1, <1>2, <2>1, StraightUnlessCovered
  <2>3. ASSUME RouteAt(q) \in ReachedRoutes  PROVE ~Covered(q)
    <3>1. PICK r \in AllRoutes \ {Root} : RouteAt(q) \in Reached(Tree, r.path)
      BY <1>0, <2>3
    <3>2. RouteAt(q) = RouteAt(r.path)
      BY <1>2, <1>3, <3>1, KindsDiffer
    <3>3. r.path = q
      BY <3>2, RouteParts
    <3> QED  BY <1>1, <1>2, <2>1, <3>1, <3>3, StraightUnlessCovered
  <2> QED  BY <2>2, <2>3
<1>5. ASSUME NEW r \in ReachedRoutes
      PROVE  (\E n \in added : r = FrameworkRoute(n)) \/ \E q \in RoutePaths : r = RouteAt(q)
  <2>1. r \in AllRoutes
    BY <1>0
  <2>2. PICK s \in AllRoutes \ {Root} : r \in Reached(Tree, s.path)
    BY <1>0
  <2>3. r = RouteAt(s.path) \/ \E n \in added : r = FrameworkRoute(n)
    BY <1>1, <1>2, <1>3, <2>1, <2>2, AllRoutesAre, KindsDiffer
  <2> QED  BY <1>1, <1>3, <2>1, <2>3, AllRoutesAre, RouteParts
<1> QED
  BY <1>4, <1>5

\* The types of a tree have a name twice exactly if two of its routes end in
\* the same segment.
LEMMA NamesAreOfSegments ==
  ASSUME TreeMade
  PROVE  NameTaken(Tree) <=> TwoOfOneName
<1>1. NameTaken(Tree) <=> \E r, s \in ReachedRoutes : r # s /\ TypeName(r) = TypeName(s)
  BY DEF NameTaken, ReachedRoutes
<1>2. \A p, q : TypeName(RouteAt(p)) = TypeName(RouteAt(q)) <=> Last(p) = Last(q)
  BY RouteParts DEF TypeName
<1>3. /\ \A p, n : TypeName(RouteAt(p)) # TypeName(FrameworkRoute(n))
      /\ \A n, m : TypeName(FrameworkRoute(n)) = TypeName(FrameworkRoute(m)) => n = m
  BY KindsDiffer DEF TypeName, Last
<1>4. \A p, q : RouteAt(p) = RouteAt(q) <=> p = q
  BY RouteParts
<1> QED
  BY <1>1, <1>2, <1>3, <1>4, ReachedRoutesAre DEF TwoOfOneName

\* Everything about a resolver's own place.
LEMMA OwnPlace ==
  ASSUME RoutesTypeOK, NEW i \in DOMAIN resolvers
  PROVE  LET path == resolvers[i].path
             p == Place(i)
         IN /\ path \in Seq(Segments) /\ p \in Seq(Segments) /\ p # <<>>
            /\ Len(p) - 1 = Len(path) /\ Len(p) \in Nat \ {0}
            /\ \A k \in 0..Len(path) : Upto(p, k) = Upto(path, k)
            /\ i \in RootFields => \A m \in 1..Len(path) : Upto(path, m) \in RoutePaths
<1> DEFINE path == resolvers[i].path
           p == Place(i)
<1>1. path \in Seq(Segments)
  BY PathsAreSequences
<1>2. p \in Seq(Segments) /\ Len(p) = Len(path) + 1 /\ \A k \in 0..Len(path) : Upto(p, k) = Upto(path, k)
  BY PlaceHas
<1>3. ASSUME i \in RootFields, NEW m \in 1..Len(path)  PROVE Upto(path, m) \in RoutePaths
  <2>1. Upto(path, m) \in Stops(path)
    BY <1>1, <1>3, StopsHas
  <2> QED  BY <1>3, <2>1 DEF RoutePaths
<1> HIDE DEF path, p
<1>4. Len(path) \in Nat /\ Len(p) \in Nat \ {0} /\ Len(p) - 1 = Len(path) /\ p # <<>>
  BY <1>1, <1>2
<1> QED
  BY <1>1, <1>2, <1>3, <1>4 DEF path, p

\* Served, unless hidden.
LEMMA ServedAtItsPlace ==
  ASSUME TreeMade, NEW i \in DOMAIN resolvers
  PROVE  Reached(Tree, Place(i)) = {Item(i)} <=> ~Hidden(i)
<1> DEFINE path == resolvers[i].path
           p == Place(i)
           at == Along(Tree, p)
<1>1. /\ path \in Seq(Segments) /\ p \in Seq(Segments) /\ p # <<>>
      /\ Len(p) - 1 = Len(path) /\ Len(p) \in Nat \ {0}
      /\ \A k \in 0..Len(path) : Upto(p, k) = Upto(path, k)
      /\ i \in RootFields => \A m \in 1..Len(path) : Upto(path, m) \in RoutePaths
  BY OwnPlace DEF TreeMade
<1>2. AreAlong(at, p) /\ Len(p) \in 0..Len(p) /\ Upto(p, Len(p)) = p
  BY <1>1, AlongIsDefined, UptoAll
<1> HIDE DEF at, p, path
<1>3. Leads(at, p, Len(p))
  BY <1>1, <1>2, WhereItLeads
<1>4. Reached(Tree, p) = at[Len(p)]
  BY DEF Reached, at
<1>5. at[Len(p)] = {Item(i)} <=> Item(i) \in at[Len(p)]
  BY <1>3 DEF Leads
<1>6. Item(i) \in at[Len(p)] => i \in RootFields
  <2>1. Item(i) # RouteAt(p) /\ (\A n : Item(i) # FrameworkRoute(n)) /\ \A j : Item(i) = Item(j) => i = j
    BY KindsDiffer
  <2>2. i # 0
    BY PathsAreSequences DEF TreeMade
  <2> QED  BY <1>2, <1>3, <2>1, <2>2 DEF Leads
<1>7. i \in RootFields => (Item(i) \in at[Len(p)] <=> Straight(p, Len(path)) /\ Item(i) \in Standing(p))
  BY <1>1, <1>2, <1>3 DEF Leads
<1>8. i \in RootFields => (Straight(p, Len(path)) <=> ~Covered(path))
  <2>1. \A m \in 1..Len(path) : Upto(p, m) = Upto(path, m)
    BY <1>1
  <2>2. (\E m \in 1..Len(path) : Blocked(Upto(path, m))) <=> Covered(path)
    BY <1>1, BlockedOnTheWay DEF TreeMade
  <2> QED  BY <1>1, <2>1, <2>2 DEF Straight
<1>9. i \in RootFields => (Item(i) \in Standing(p) <=> Keeps(i) \/ KeptOf(p) = {})
  BY StandingHas DEF TreeMade, p
<1>10. KeptOf(p) = {} <=> p \notin RoutePaths /\ p \notin {<<n>> : n \in added}
  BY DEF KeptOf, RouteOf, FrameworkOf
<1>11. Hidden(i) <=> \/ i \notin RootFields
                     \/ Covered(path)
                     \/ ~Keeps(i) /\ (p \in RoutePaths \/ p \in {<<n>> : n \in added})
  BY DEF Hidden, path, p
<1> QED
  BY <1>4, <1>5, <1>6, <1>7, <1>8, <1>9, <1>10, <1>11 DEF p

-----------------------------------------------------------------------------
(* The tree, step by step                                                  *)

\* What is declared does not change any more, nor what is said of it.
LEMMA SameTree ==
  ASSUME UNCHANGED <<host, added, resolvers>>
  PROVE  /\ TwoOfOneName' <=> TwoOfOneName
         /\ Tree' = Tree /\ FieldPaths' = FieldPaths
         /\ ItemsAt(RoutesOf(FieldPaths), FieldPaths)' = ItemsAt(RoutesOf(FieldPaths), FieldPaths)
<1>1. RootFields' = RootFields /\ FieldPaths' = FieldPaths /\ \A q : At(q)' = At(q)
  BY SameFields
<1>2. RoutePaths' = RoutePaths
  BY <1>1, RoutePathsAre DEF RoutePaths
<1>3. \A j : Place(j)' = Place(j)
  BY DEF Place
<1>4. \A q : Covered(q)' <=> Covered(q)
  BY <1>1, <1>3 DEF Covered, Keeps
<1>5. TwoOfOneName' <=> TwoOfOneName
  BY <1>2, <1>4 DEF TwoOfOneName
<1>6. Tree' = Tree
  BY <1>1 DEF Tree, AllRoutes, FrameworkRoutes
<1>7. ItemsAt(RoutesOf(FieldPaths), FieldPaths)' = ItemsAt(RoutesOf(FieldPaths), FieldPaths)
  BY <1>1 DEF ItemsAt
<1> QED  BY <1>1, <1>5, <1>6, <1>7

\* A route of one segment is below the root.
LEMMA OneSegment ==
  ASSUME NEW q \in Seq(Segments), q # <<>>
  PROVE  Len(q) = 1 <=> Front(q) = <<>>
<1>1. Front(q) \in Seq(Segments) /\ Len(q) \in Nat \ {0} /\ Len(Front(q)) = Len(q) - 1
  BY Parts
<1> DEFINE f == Front(q)
           n == Len(q)
<1>2. f = <<>> <=> Len(f) = 0
  BY <1>1
<1> HIDE DEF f, n
<1> QED
  BY <1>1, <1>2 DEF f, n

LEMMA TreeIsKeptByFinish ==
  ASSUME TreeIsKept, Finish
  PROVE  TreeIsKept'
<1> DEFINE routes == RoutesOf(FieldPaths)
           tree == [r \in routes \cup FrameworkRoutes |->
                      IF r = Root THEN RootChildren
                      ELSE IF r \in FrameworkRoutes THEN {} ELSE children[r]]
<1>1. /\ UNCHANGED <<host, added, resolvers, items, todo>> /\ phase = "routing" /\ todo = {}
      /\ FieldPaths \ todo = FieldPaths
  BY DEF Finish
<1>2. /\ children = [r \in routes |-> Under(routes, r, host = "node")]
      /\ items = ItemsAt(routes, FieldPaths)
  BY <1>1 DEF TreeIsKept, TreeOfPaths
<1>3. /\ FieldPaths \subseteq Seq(Segments) /\ FrameworkRoutes \cap routes = {} /\ Root \in routes
      /\ \A r \in routes : r.by = "paths" /\ r.path \in Seq(Segments) /\ (r # Root <=> r.path # <<>>)
  <2>1. FieldPaths \subseteq Seq(Segments)
    BY PathsAreSequences DEF TreeIsKept
  <2> QED  BY <2>1, RoutesOfPaths DEF RoutesOf, FrameworkRoutes
<1>4. children' = tree /\ phase' = IF NameTaken(tree) THEN "failed" ELSE "serving"
  BY <1>2 DEF Finish
<1>5. \A r \in FrameworkRoutes : Front(r.path) = <<>> /\ r # Root /\ r.by # "paths"
  BY FrameworkRouteHas DEF FrameworkRoutes, TreeIsKept, RoutesTypeOK
<1>6. AllRoutes = routes \cup FrameworkRoutes
  BY DEF AllRoutes
<1>7. RootChildren = Under(AllRoutes, Root, TRUE)
  <2>1. TopLevel = {c \in routes \ {Root} : Front(c.path) = <<>>}
    <3>1. \A c \in routes : c # Root => (Len(c.path) = 1 <=> Front(c.path) = <<>>)
      BY <1>3, OneSegment
    <3>2. Len(Root.path) # 1
      BY DEF Root
    <3> QED  BY <1>2, <3>1, <3>2 DEF TopLevel
  <2>2. children[Root] = {c \in routes \ {Root} : Front(c.path) = <<>> /\ host = "node"}
    BY <1>2, <1>3 DEF Under, Root
  <2>3. Under(AllRoutes, Root, TRUE) = {c \in AllRoutes \ {Root} : Front(c.path) = <<>>}
    BY DEF Under, Root
  <2>4. host \in {"node", "net"}
    BY DEF TreeIsKept, RoutesTypeOK
  <2> HIDE DEF routes
  <2> QED  BY <1>5, <1>6, <2>1, <2>2, <2>3, <2>4 DEF RootChildren
<1>8. \A r \in FrameworkRoutes : Under(AllRoutes, r, TRUE) = {}
  BY <1>5 DEF Under
<1>9. ASSUME NEW r \in routes, r # Root
      PROVE  children[r] = Under(AllRoutes, r, TRUE)
  <2>1. r.path # <<>>
    BY <1>3, <1>9
  <2> HIDE DEF routes
  <2> QED  BY <1>2, <1>5, <1>6, <1>9, <2>1 DEF Under
<1>10. tree = Tree
  <2> HIDE DEF routes
  <2> QED  BY <1>3, <1>5, <1>6, <1>7, <1>8, <1>9 DEF Tree
<1>11. TreeMade
  BY <1>2 DEF TreeMade, TreeIsKept
<1>12. phase' = IF TwoOfOneName THEN "failed" ELSE "serving"
  BY <1>4, <1>10, <1>11, NamesAreOfSegments
<1>13. /\ TwoOfOneName' <=> TwoOfOneName
       /\ Tree' = Tree /\ FieldPaths' = FieldPaths
       /\ ItemsAt(RoutesOf(FieldPaths), FieldPaths)' = ItemsAt(RoutesOf(FieldPaths), FieldPaths)
  BY <1>1, SameTree
<1> HIDE DEF tree, routes
<1>14. TreeOfPaths'
  BY <1>1, <1>2, <1>4, <1>10, <1>12, <1>13 DEF TreeOfPaths, routes
<1>15. RoutesTypeOK'
  BY <1>1, <1>12 DEF TreeIsKept, RoutesTypeOK
<1> QED
  BY <1>14, <1>15 DEF TreeIsKept

LEMMA TreeIsKeptByOthers ==
  ASSUME TreeIsKept, UNCHANGED <<host, added, phase, resolvers, todo, children, items>>
  PROVE  TreeIsKept'
<1>1. /\ TwoOfOneName' <=> TwoOfOneName
      /\ Tree' = Tree /\ FieldPaths' = FieldPaths
      /\ ItemsAt(RoutesOf(FieldPaths), FieldPaths)' = ItemsAt(RoutesOf(FieldPaths), FieldPaths)
  BY SameTree
<1>2. \A q : At(q)' = At(q)
  BY SameFields
<1>3. ItemsAt(RoutesOf(FieldPaths \ todo), FieldPaths \ todo)'
        = ItemsAt(RoutesOf(FieldPaths \ todo), FieldPaths \ todo)
  BY <1>1, <1>2 DEF ItemsAt
<1>4. RoutesTypeOK'
  BY DEF TreeIsKept, RoutesTypeOK
<1>5. TreeOfPaths'
  BY <1>1, <1>3 DEF TreeIsKept, TreeOfPaths
<1> QED  BY <1>4, <1>5 DEF TreeIsKept

\* The steps that serve.
LEMMA ServingLeavesTheTree ==
  ASSUME \/ \E f \in Features : Switch(f) \/ Test(f)
         \/ \E i \in DOMAIN resolvers : Ask(i)
         \/ TestAll \/ Run \/ UNCHANGED vars
  PROVE  UNCHANGED <<host, added, phase, resolvers, gates, todo, children, items>>
BY DEF Switch, Test, Ask, TestAll, Run, vars

LEMMA TreeIsKeptByNext == TreeIsKept /\ [Next]_vars => TreeIsKept'
<1> SUFFICES ASSUME TreeIsKept, [Next]_vars  PROVE TreeIsKept'
  OBVIOUS
<1>1. CASE \E class \in Paths \cup {Nothing}, own \in Paths, n \in Segments, d \in Decorations :
             Declare(class, own, n, d)
  BY <1>1, TreeIsKeptByDeclare
<1>2. CASE Begin
  BY <1>2, TreeIsKeptByBegin
<1>3. CASE Finish
  BY <1>3, TreeIsKeptByFinish
<1>4. CASE \E p \in todo : MakeRoutes(p)
  BY <1>4, TreeIsKeptByMakeRoutes
<1>5. CASE \/ \E f \in Features : Switch(f) \/ Test(f)
           \/ \E i \in DOMAIN resolvers : Ask(i)
           \/ TestAll \/ Run \/ UNCHANGED vars
  BY <1>5, ServingLeavesTheTree, TreeIsKeptByOthers
<1> QED
  BY <1>1, <1>2, <1>3, <1>4, <1>5 DEF Next

\* While the routes are made one by one, in any order of the paths, the tree
\* is that of the paths taken so far (GraphQLSchemaRouteBuilder.ts:61,
\* GraphQLBuilderExtensions.cs:103).
THEOREM TreeAlwaysKept == Spec => []TreeIsKept
<1>1. Init => TreeIsKept
  BY TreeIsKeptByInit
<1>2. TreeIsKept /\ [Next]_vars => TreeIsKept'
  BY TreeIsKeptByNext
<1> QED
  BY <1>1, <1>2, PTL DEF Spec

\* Whatever else is declared and in whatever order, a resolver that nothing
\* hides is served where it was declared, and one that is hidden is not.
THEOREM WhatIsNotHiddenIsServed == Spec => []ServedUnlessHidden
<1>1. TreeIsKept => ServedUnlessHidden
  <2> SUFFICES ASSUME TreeIsKept, phase = "serving", NEW i \in DOMAIN resolvers
               PROVE  Served(i) = {Item(i)} <=> ~Hidden(i)
    BY DEF ServedUnlessHidden
  <2>1. TreeMade /\ children = Tree
    BY DEF TreeIsKept, TreeOfPaths, TreeMade
  <2> QED  BY <2>1, ServedAtItsPlace DEF Served
<1> QED
  BY <1>1, TreeAlwaysKept, PTL

\* A schema is refused for two routes that end in the same segment, and for
\* nothing else.
THEOREM OnlyNamesAreRefused == Spec => []RefusedForNames
<1>1. TreeIsKept => RefusedForNames
  BY DEF TreeIsKept, TreeOfPaths, RefusedForNames
<1> QED
  BY <1>1, TreeAlwaysKept, PTL

-----------------------------------------------------------------------------
(* Features of the fields                                                  *)

\* Of a resolver, and of those whose fields are on the way to it.
Needs(i) == Decorated(i) \cup UNION {Decorated(j) : j \in OnTheWay(i)}

CallRecords == [of : DOMAIN resolvers, left : SUBSET Features, seen : SUBSET Features,
                missed : SUBSET Features]

\* A call has seen each feature on that it need not test any more, and every
\* feature as it is now; in node it has tested none yet.
CallIsKept ==
  /\ resolvers \in Seq(Resolvers) /\ on \subseteq Features
  /\ phase = "declaring" => call = Nothing /\ answer = Nothing
  /\ phase # "declaring" => gates = [i \in DOMAIN resolvers |-> Decorated(i)]
  /\ call # Nothing =>
       /\ phase # "declaring"
       /\ call \in CallRecords
       /\ call.left \subseteq Needs(call.of)
       /\ Needs(call.of) \ call.left \subseteq call.seen
       /\ on \subseteq call.seen /\ Features \ on \subseteq call.missed
  /\ RunsWithItsFeatures

LEMMA NeedsAreFeatures ==
  ASSUME resolvers \in Seq(Resolvers), NEW i \in DOMAIN resolvers
  PROVE  Needs(i) \subseteq Features
<1>1. \A j \in DOMAIN resolvers : resolvers[j] \in Resolvers
  OBVIOUS
<1>2. \A j \in DOMAIN resolvers : Decorated(j) \subseteq Features
  BY <1>1 DEF Decorated, Resolvers, Features
<1>3. OnTheWay(i) \subseteq DOMAIN resolvers
  BY DEF OnTheWay, RootFields
<1> QED  BY <1>2, <1>3 DEF Needs

\* What a resolver needs does not change any more.
LEMMA SameNeeds ==
  ASSUME UNCHANGED <<host, resolvers>>
  PROVE  (\A i : Decorated(i)' = Decorated(i)) /\ (\A i : Needs(i)' = Needs(i)) /\ CallRecords' = CallRecords
<1>1. RootFields' = RootFields /\ (\A i : Decorated(i)' = Decorated(i)) /\ (\A i : Place(i)' = Place(i))
  BY SameFields DEF Decorated, Place
<1>2. \A i : OnTheWay(i)' = OnTheWay(i)
  BY <1>1 DEF OnTheWay
<1> QED  BY <1>1, <1>2 DEF Needs, CallRecords

\* The property, in terms of the needs.
LEMMA RunsWithItsNeeds ==
  RunsWithItsFeatures <=>
    (answer # Nothing => IF answer.ran THEN Needs(answer.of) \subseteq answer.seen
                                       ELSE Needs(answer.of) \cap answer.missed # {})
BY DEF RunsWithItsFeatures, Needs

\* The features a field tests are those that its resolver needs.
LEMMA TestsAreNeeds ==
  ASSUME NEW i \in DOMAIN resolvers, gates = [j \in DOMAIN resolvers |-> Decorated(j)]
  PROVE  Tests(i) = Needs(i)
<1>1. OnTheWay(i) \subseteq DOMAIN resolvers
  BY DEF OnTheWay, RootFields
<1> QED  BY <1>1 DEF Tests, Needs

\* A reply keeps the property if what ran has seen its features, and what did
\* not has missed one.
LEMMA ReplyIsKept ==
  ASSUME CallIsKept, NEW ran, Reply(ran), UNCHANGED <<host, phase, resolvers, gates, on>>,
         call # Nothing,
         IF ran THEN Needs(call.of) \subseteq call.seen ELSE Needs(call.of) \cap call.missed # {}
  PROVE  CallIsKept'
<1>1. answer' = [of |-> call.of, ran |-> ran, seen |-> call.seen, missed |-> call.missed] /\ call' = Nothing
  BY DEF Reply
<1>2. RunsWithItsFeatures'
  <2>1. answer'.of = call.of /\ answer'.ran = ran /\ answer'.seen = call.seen /\ answer'.missed = call.missed
    BY <1>1
  <2>2. \A i : Needs(i)' = Needs(i)
    BY SameNeeds
  <2> QED  BY <2>1, <2>2 DEF RunsWithItsFeatures, Needs
<1> QED
  BY <1>1, <1>2, SameNeeds DEF CallIsKept

\* A step that leaves the call and the answer, and what they are of.
LEMMA RunsAsBefore ==
  ASSUME RunsWithItsFeatures, UNCHANGED <<host, resolvers, answer>>
  PROVE  RunsWithItsFeatures'
<1>1. \A i : Needs(i)' = Needs(i)
  BY SameNeeds
<1> QED  BY <1>1 DEF RunsWithItsFeatures, Needs

LEMMA CallIsKeptUnchanged ==
  ASSUME CallIsKept, UNCHANGED <<host, resolvers, on, call, answer, gates>>,
         phase' = "declaring" <=> phase = "declaring"
  PROVE  CallIsKept'
BY SameNeeds, RunsAsBefore DEF CallIsKept

LEMMA CallIsKeptByNext == CallIsKept /\ [Next]_vars => CallIsKept'
<1> SUFFICES ASSUME CallIsKept, [Next]_vars  PROVE CallIsKept'
  OBVIOUS
<1>0. call # Nothing => /\ call.of \in DOMAIN resolvers /\ call.left \subseteq Features
                        /\ Needs(call.of) \subseteq Features
  BY NeedsAreFeatures DEF CallIsKept, CallRecords
<1>1. ASSUME NEW class \in Paths \cup {Nothing}, NEW own \in Paths, NEW n \in Segments, NEW d \in Decorations,
             Declare(class, own, n, d)
      PROVE  CallIsKept'
  <2>1. [path |-> GraphRoot(class, own), name |-> n, class |-> d.class, own |-> d.own] \in Resolvers
    BY <1>1 DEF Declare, Resolvers, Decorations
  <2>2. resolvers' \in Seq(Resolvers)
    BY <1>1, <2>1 DEF Declare, CallIsKept
  <2>3. UNCHANGED <<phase, on, call, answer>> /\ phase = "declaring" /\ call' = Nothing /\ answer' = Nothing
    BY <1>1 DEF Declare, CallIsKept
  <2> QED  BY <2>2, <2>3 DEF CallIsKept, RunsWithItsFeatures
<1>2. CASE Begin
  <2>1. UNCHANGED <<resolvers, on, call, answer>> /\ phase' = "routing" /\ phase = "declaring"
    BY <1>2 DEF Begin
  <2>2. gates' = [i \in DOMAIN resolvers |-> Decorated(i)]
    BY <1>2 DEF Begin, Gates, AdornedFeatures, Decorated
  <2>3. call' = Nothing /\ answer' = Nothing
    BY <2>1 DEF CallIsKept
  <2> QED  BY <2>1, <2>2, <2>3 DEF CallIsKept, RunsWithItsFeatures, Decorated
<1>3. CASE Finish \/ \E p \in todo : MakeRoutes(p)
  <2>1. UNCHANGED <<host, resolvers, on, call, answer, gates>> /\ phase' # "declaring" /\ phase # "declaring"
    BY <1>3 DEF Finish, MakeRoutes
  <2> QED  BY <2>1, CallIsKeptUnchanged
<1>4. ASSUME NEW f \in Features, Switch(f)
      PROVE  CallIsKept'
  <2>1. /\ UNCHANGED <<host, phase, resolvers, gates, answer>> /\ on' \subseteq Features
        /\ call' = IF call = Nothing THEN call
                   ELSE [call EXCEPT !.seen = @ \cup on', !.missed = @ \cup (Features \ on')]
    BY <1>4 DEF Switch, CallIsKept
  <2>2. CASE call = Nothing
    BY <2>1, <2>2, SameNeeds, RunsAsBefore DEF CallIsKept
  <2>3. CASE call # Nothing
    <3>1. /\ call \in CallRecords /\ call.left \subseteq Needs(call.of)
          /\ Needs(call.of) \ call.left \subseteq call.seen /\ phase # "declaring"
      BY <2>3 DEF CallIsKept
    <3>2. /\ call' \in CallRecords /\ call'.of = call.of /\ call'.left = call.left
          /\ call'.seen = call.seen \cup on' /\ call'.missed = call.missed \cup (Features \ on')
      BY <2>1, <2>3, <3>1 DEF CallRecords
    <3>3. CallRecords' = CallRecords /\ (\A i : Needs(i)' = Needs(i)) /\ \A i : Decorated(i)' = Decorated(i)
      BY <2>1, SameNeeds
    <3>4. RunsWithItsFeatures'
      BY <2>1, RunsAsBefore DEF CallIsKept
    <3> QED  BY <2>1, <3>1, <3>2, <3>3, <3>4 DEF CallIsKept
  <2> QED  BY <2>2, <2>3
<1>5. ASSUME NEW i \in DOMAIN resolvers, Ask(i)
      PROVE  CallIsKept'
  <2>1. UNCHANGED <<host, phase, resolvers, gates, on>> /\ phase = "serving" /\ answer' = Nothing
    BY <1>5 DEF Ask
  <2>2. PICK j \in DOMAIN resolvers :
          call' = [of |-> j, left |-> Tests(j), seen |-> on, missed |-> Features \ on]
    BY <1>5 DEF Ask
  <2>3. Tests(j) = Needs(j) /\ Needs(j) \subseteq Features /\ on \subseteq Features
    BY <2>1, TestsAreNeeds, NeedsAreFeatures DEF CallIsKept
  <2>4. /\ call'.of = j /\ call'.left = Needs(j) /\ call'.seen = on /\ call'.missed = Features \ on
        /\ call' \in CallRecords
    BY <2>2, <2>3 DEF CallRecords
  <2>5. RunsWithItsFeatures'
    BY <2>1 DEF RunsWithItsFeatures
  <2> QED  BY <2>1, <2>3, <2>4, <2>5, SameNeeds DEF CallIsKept
<1>6. CASE TestAll
  <2>1. call # Nothing /\ Reply(call.left \subseteq on) /\ UNCHANGED <<host, phase, resolvers, gates, on>>
    BY <1>6 DEF TestAll
  <2>2. IF call.left \subseteq on THEN Needs(call.of) \subseteq call.seen
                                  ELSE Needs(call.of) \cap call.missed # {}
    BY <1>0, <2>1 DEF CallIsKept
  <2> QED  BY <2>1, <2>2, ReplyIsKept
<1>7. ASSUME NEW f \in Features, Test(f)
      PROVE  CallIsKept'
  <2>1. call # Nothing /\ f \in call.left /\ UNCHANGED <<host, phase, resolvers, gates, on>>
    BY <1>7 DEF Test
  <2>2. CASE f \notin on
    <3>1. Reply(FALSE)
      BY <1>7, <2>2 DEF Test
    <3>2. Needs(call.of) \cap call.missed # {}
      BY <1>0, <2>1, <2>2 DEF CallIsKept
    <3> QED  BY <2>1, <3>1, <3>2, ReplyIsKept
  <2>3. CASE f \in on
    <3>1. call' = [call EXCEPT !.left = @ \ {f}] /\ UNCHANGED answer
      BY <1>7, <2>3 DEF Test
    <3>2. call \in CallRecords
      BY <2>1 DEF CallIsKept
    <3>3. /\ call' \in CallRecords /\ call'.of = call.of /\ call'.left = call.left \ {f}
          /\ call'.seen = call.seen /\ call'.missed = call.missed
      BY <3>1, <3>2 DEF CallRecords
    <3>4. CallRecords' = CallRecords /\ (\A i : Needs(i)' = Needs(i)) /\ \A i : Decorated(i)' = Decorated(i)
      BY <2>1, SameNeeds
    <3>5. RunsWithItsFeatures'
      BY <2>1, <3>1, RunsAsBefore DEF CallIsKept
    <3>6. /\ call.left \subseteq Needs(call.of) /\ Needs(call.of) \ call.left \subseteq call.seen
          /\ on \subseteq call.seen /\ Features \ on \subseteq call.missed /\ phase # "declaring"
      BY <2>1 DEF CallIsKept
    <3>7. call'.left \subseteq Needs(call.of) /\ Needs(call.of) \ call'.left \subseteq call.seen
      BY <2>3, <3>3, <3>6
    <3> QED  BY <2>1, <3>3, <3>4, <3>5, <3>6, <3>7 DEF CallIsKept
  <2> QED  BY <2>2, <2>3
<1>8. CASE Run
  <2>1. call # Nothing /\ call.left = {} /\ Reply(TRUE) /\ UNCHANGED <<host, phase, resolvers, gates, on>>
    BY <1>8 DEF Run
  <2>2. Needs(call.of) \subseteq call.seen
    BY <2>1 DEF CallIsKept
  <2> QED  BY <2>1, <2>2, ReplyIsKept
<1>9. CASE UNCHANGED vars
  BY <1>9, CallIsKeptUnchanged DEF vars
<1> QED
  BY <1>1, <1>2, <1>3, <1>4, <1>5, <1>6, <1>7, <1>8, <1>9 DEF Next

\* However features are switched during a call, a resolver runs only after all
\* that its method and its class need were on, and is refused only for one
\* that was off.
THEOREM FeaturesGuardResolvers == Spec => []RunsWithItsFeatures
<1>1. Init => CallIsKept
  BY DEF Init, CallIsKept, RunsWithItsFeatures
<1>2. CallIsKept => RunsWithItsFeatures
  BY DEF CallIsKept
<1> QED
  BY <1>1, <1>2, CallIsKeptByNext, PTL DEF Spec
=============================================================================
