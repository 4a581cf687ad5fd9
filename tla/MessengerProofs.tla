--------------------------- MODULE MessengerProofs ---------------------------
(* Proofs about Messenger, for any composition of pages.                    *)
EXTENDS Messenger, SequenceTheorems, FunctionTheorems, FiniteSetTheorems, TLAPS

\* The page that hears what is sent to content is in a window ...
LEMMA ContentTyped ==
  ASSUME TypeOK
  PROVE  content \in [Windows -> Windows \cup {NoDocument}]
BY DEF TypeOK, content, Documents

\* ... and the same one while no page comes or goes and no document is handed over.
LEMMA SameContent == ASSUME UNCHANGED pages PROVE content' = content /\ listens' = listens
BY DEF content, pages

LEMMA SamePagesTyped ==
  ASSUME TypeOK, UNCHANGED pages
  PROVE  /\ open' \subseteq Windows /\ listens' \in [Windows -> BOOLEAN]
         /\ loads' \in [Windows -> Nat] /\ loading' \subseteq open' \ {Top}
         /\ contentDocument' \in [Windows -> Documents]
<1>1. /\ open' = open /\ listens' = listens /\ loads' = loads /\ loading' = loading
      /\ contentDocument' = contentDocument
  BY DEF pages
<1> QED
  BY <1>1 DEF TypeOK

\* What the thread has to do is put together from calls only.
LEMMA CallTypes ==
  ASSUME TypeOK, NEW w \in Windows, NEW source \in {"portal", "content"}
  PROVE  /\ Relayed(w, source) \in Calls
         /\ <<ObserversOf(w)>> \in Seq(Calls)
         /\ ToContent(w) \in Seq(Calls)
         /\ ToParent(w, source) \in Seq(Calls)
<1>1. /\ Relayed(w, source) \in Calls
      /\ \A v \in Windows : EventAt(v) \in Calls /\ ObserversOf(v) \in Calls
  BY DEF Relayed, EventAt, ObserversOf, Calls
<1>2. content[w] # NoDocument => content[w] \in Windows
  BY ContentTyped
<1>3. Parent[w] \in Windows
  BY WindowsAssumption
<1>4. ToContent(w) \in Seq(Calls)
  BY <1>1, <1>2 DEF ToContent
<1>5. ToParent(w, source) \in Seq(Calls)
  BY <1>1, <1>3 DEF ToParent
<1> QED
  BY <1>1, <1>4, <1>5

\* What the thread does next is a call, what follows are calls.
LEMMA NextCall ==
  ASSUME TypeOK, calls # <<>>
  PROVE  Head(calls) \in Calls /\ Head(calls).win \in Windows /\ Tail(calls) \in Seq(Calls)
<1>1. Head(calls) \in Calls /\ Tail(calls) \in Seq(Calls)
  BY HeadTailProperties DEF TypeOK
<1> QED
  BY <1>1 DEF Calls

\* Every variable keeps its type.
THEOREM TypeCorrect == Spec => []TypeOK
<1> USE WindowsAssumption
<1>1. Init => TypeOK
  BY DEF Init, TypeOK, Nobody, Untold, Documents, NoContent
<1>2. TypeOK /\ [Next]_vars => TypeOK'
  <2> SUFFICES ASSUME TypeOK, [Next]_vars PROVE TypeOK'
    OBVIOUS
  <2>1. ASSUME NEW w \in Windows, Open(w) PROVE TypeOK'
    BY <2>1 DEF Open, Unload, Forget, Nobody, Untold, Documents, NoContent, TypeOK
  <2>9. ASSUME NEW w \in Windows, Remove(w) PROVE TypeOK'
    BY <2>9 DEF Remove, Unload, Forget, Nobody, Untold, Documents, NoContent, TypeOK
  <2>2. ASSUME NEW w \in Windows, FrameLoaded(w) PROVE TypeOK'
    BY <2>2 DEF FrameLoaded, Forget, Nobody, Untold, Documents, TypeOK
  <2>3. ASSUME NEW w \in Windows, Observe(w) PROVE TypeOK'
    BY <2>3 DEF Observe, Forget, Nobody, Untold, TypeOK
  <2>4. ASSUME NEW w \in Windows, Publish(w) PROVE TypeOK'
    <3>1. Relayed(w, Source(w)) \in Calls
      BY DEF Relayed, Source, Calls
    <3>2. calls' \in Seq(Calls)
      BY <2>4, <3>1 DEF Publish
    <3>3. /\ UNCHANGED pages /\ opens' = opens /\ messages' = messages + 1
          /\ pub' = w /\ got' = [v \in Windows |-> 0]
      BY <2>4 DEF Publish, Untold
    <3>4. got' \in [Windows -> Nat] /\ messages' \in Nat /\ opens' \in Nat /\ pub' \in Windows
      BY <3>3 DEF TypeOK
    <3> QED
      BY <3>2, <3>3, <3>4, SamePagesTyped DEF TypeOK
  <2>5. CASE Relay
    <3>1. /\ Head(calls) \in Calls /\ Head(calls).do = "relay"
          /\ Head(calls).win \in Windows /\ Tail(calls) \in Seq(Calls)
      BY <2>5, NextCall DEF Relay, Call
    <3>2. Head(calls).source \in {"portal", "content"}
      BY <3>1 DEF Calls
    <3> DEFINE w == Head(calls).win
    <3>3. /\ ToContent(w) \in Seq(Calls) /\ ToParent(w, Head(calls).source) \in Seq(Calls)
          /\ <<ObserversOf(w)>> \in Seq(Calls)
      BY <3>1, <3>2, CallTypes
    <3>4. calls' = ToContent(w) \o ToParent(w, Head(calls).source) \o <<ObserversOf(w)>>
                     \o Tail(calls)
      BY <2>5 DEF Relay
    <3> HIDE DEF w
    <3>5. calls' \in Seq(Calls)
      BY <3>1, <3>3, <3>4, ConcatProperties
    <3> QED
      BY <2>5, <3>5, SamePagesTyped DEF Relay, TypeOK
  <2>6. CASE Hear
    <3>1. /\ Head(calls).win \in Windows /\ Tail(calls) \in Seq(Calls)
      BY <2>6, NextCall DEF Hear, Call
    <3> DEFINE w == Head(calls).win
    <3>2. Relayed(w, OtherSource(w)) \in Calls
      BY <3>1, CallTypes DEF OtherSource
    <3>3. calls' = (IF listens[w] THEN <<Relayed(w, OtherSource(w))>> ELSE <<>>) \o Tail(calls)
      BY <2>6 DEF Hear
    <3>4. (IF listens[w] THEN <<Relayed(w, OtherSource(w))>> ELSE <<>>) \in Seq(Calls)
      BY <3>2
    <3> HIDE DEF w
    <3>5. calls' \in Seq(Calls)
      BY <3>1, <3>3, <3>4, ConcatProperties
    <3> QED
      BY <2>6, <3>5, SamePagesTyped DEF Hear, TypeOK
  <2>7. CASE TellObservers
    <3>1. /\ Head(calls).win \in Windows /\ Tail(calls) \in Seq(Calls)
      BY <2>7, NextCall DEF TellObservers, Call
    <3> DEFINE w == Head(calls).win
    <3>2. /\ UNCHANGED <<pages, pub, opens, messages>> /\ calls' = Tail(calls)
          /\ got' = [got EXCEPT ![w] = IF listens[w] THEN @ + 1 ELSE @]
      BY <2>7 DEF TellObservers
    <3>3. got' \in [Windows -> Nat]
      <4>1. got \in [Windows -> Nat] /\ w \in Windows
        BY <3>1 DEF TypeOK
      <4>2. got[w] \in Nat /\ got[w] + 1 \in Nat
        BY <4>1
      <4> HIDE DEF w
      <4> QED
        BY <3>2, <4>1, <4>2
    <3> QED
      BY <3>1, <3>2, <3>3, SamePagesTyped DEF TypeOK
  <2>8. CASE UNCHANGED vars
    BY <2>8, SamePagesTyped DEF vars, TypeOK
  <2> QED
    BY <2>1, <2>2, <2>3, <2>4, <2>5, <2>6, <2>7, <2>8, <2>9 DEF Next
<1> QED
  BY <1>1, <1>2, PTL DEF Spec

\* The frames within the frames of w are within w ...
LEMMA WithinIsClosed ==
  ASSUME NEW w \in Windows, NEW x \in Windows, x # Top, Parent[x] \in Within(w) \cup {w}
  PROVE  x \in Within(w)
BY DEF Within

\* ... the outermost page is not ...
LEMMA TopIsNotWithin == ASSUME NEW w \in Windows PROVE Top \notin Within(w)
<1> DEFINE S == Within(w) \ {Top}
<1>1. S \in SUBSET Windows
  BY DEF Within
<1>2. {y \in Windows : y # Top /\ Parent[y] \in S \cup {w}} \subseteq S
  BY WithinIsClosed
<1>3. \A x \in Within(w) : x \in S
  <2> HIDE DEF S
  <2> QED
    BY <1>1, <1>2 DEF Within
<1> QED
  BY <1>3

\* ... and nothing else is: what is within w is in a frame of w, or in a frame
\* of a page that is within w itself.
LEMMA WithinFromParent ==
  ASSUME NEW w \in Windows, NEW x \in Within(w)
  PROVE  Parent[x] \in Within(w) \cup {w}
<1> SUFFICES ASSUME Parent[x] \notin Within(w) \cup {w} PROVE FALSE
  OBVIOUS
<1> DEFINE S == Within(w) \ {x}
<1>1. S \in SUBSET Windows
  BY DEF Within
<1>2. {y \in Windows : y # Top /\ Parent[y] \in S \cup {w}} \subseteq S
  BY WithinIsClosed
<1>3. x \in S
  <2> HIDE DEF S
  <2> QED
    BY <1>1, <1>2 DEF Within
<1> QED
  BY <1>3

\* A page is not in a frame within itself: the composition is a tree.
LEMMA ParentIsNotWithin ==
  ASSUME NEW w \in Windows, w # Top
  PROVE  Parent[w] \notin Within(w) \cup {w}
<1> USE WindowsAssumption
<1>1. Parent[w] # w
  OBVIOUS
<1> SUFFICES ASSUME Parent[w] \in Within(w) PROVE FALSE
  BY <1>1
<1> DEFINE S == Within(w) \cup {w}
<1>2. S \in SUBSET Windows /\ S # {}
  BY DEF Within
<1>3. \A x \in S : Parent[x] \in S
  BY WithinFromParent
<1>4. Top \in S
  <2> HIDE DEF S
  <2> QED
    BY <1>2, <1>3
<1> QED
  BY <1>4, TopIsNotWithin

\* A page that goes takes all within it: those left are within pages left.
LEMMA UnloadKeepsNesting ==
  ASSUME TypeOK, KnowsOwnFrames, NEW w \in Windows,
         NEW v \in open \ (Within(w) \cup {w}), v # Top
  PROVE  Parent[v] \in open \ (Within(w) \cup {w})
<1>1. v \in Windows /\ Parent[v] \in open
  BY DEF TypeOK, KnowsOwnFrames
<1> QED
  BY <1>1, WithinIsClosed

\* The pages shown are nested, a messenger keeps documents of the frames in its
\* own page only, and a stale one only until the load event that is due: it is
\* gone with its page, and a page that stays gets the event of every load.
THEOREM MessengersKnowTheirFrames == Spec => []KnowsOwnFrames
<1> USE WindowsAssumption
<1>1. Init => KnowsOwnFrames
  BY DEF Init, KnowsOwnFrames
<1>2. TypeOK /\ KnowsOwnFrames /\ [Next]_vars => KnowsOwnFrames'
  <2> SUFFICES ASSUME TypeOK, KnowsOwnFrames, [Next]_vars PROVE KnowsOwnFrames'
    OBVIOUS
  <2>1. ASSUME NEW w \in Windows, Open(w) PROVE KnowsOwnFrames'
    <3> DEFINE gone == Within(w) \cup {w}
    <3>1. /\ w # Top => Parent[w] \in open
          /\ open' = (open \ gone) \cup {w}
          /\ loads' = [loads EXCEPT ![w] = @ + 1]
          /\ loading' = (loading \ Within(w)) \cup ({w} \ {Top})
          /\ contentDocument' = [v \in Windows |-> IF v \in gone THEN NoContent ELSE contentDocument[v]]
      <4>1. w \notin Within(w)
        <5>1. w = Top => w \notin Within(w)
          BY TopIsNotWithin
        <5>2. w # Top => Parent[w] \notin Within(w) \cup {w}
          BY ParentIsNotWithin
        <5> QED
          BY <5>1, <5>2, WithinFromParent
      <4> QED
        BY <2>1, <4>1 DEF Open, Unload
    <3>2. ASSUME NEW v \in open' PROVE Parent[v] \in open'
      <4>1. CASE v = w
        BY <4>1, <3>1, ParentIsNotWithin
      <4>2. CASE v # w
        <5>1. v \in open \ gone
          BY <4>2, <3>1, <3>2
        <5>2. CASE v = Top
          BY <5>2, <3>2
        <5>3. CASE v # Top
          BY <5>1, <5>3, <3>1, UnloadKeepsNesting
        <5> QED
          BY <5>2, <5>3
      <4> QED
        BY <4>1, <4>2
    <3>3. ASSUME NEW v \in Windows, contentDocument'[v] # NoContent
          PROVE  LET kept == contentDocument'[v] IN
                 /\ v \in open' /\ kept.frame \in Windows \ {Top} /\ Parent[kept.frame] = v
                 /\ kept.frame \in open' \ loading' => kept.nr = loads'[kept.frame]
      <4> DEFINE kept == contentDocument[v]
      <4>1. v \notin gone /\ contentDocument'[v] = kept
        BY <3>1, <3>3
      <4>2. /\ v \in open /\ kept.frame \in Windows \ {Top} /\ Parent[kept.frame] = v
            /\ kept.frame \in open \ loading => kept.nr = loads[kept.frame]
        BY <3>3, <4>1 DEF KnowsOwnFrames
      <4>3. kept.frame \notin Within(w)
        BY <4>1, <4>2, WithinFromParent
      <4> HIDE DEF kept
      <4> QED
        BY <3>1, <4>1, <4>2, <4>3 DEF TypeOK
    <3> QED
      BY <3>2, <3>3 DEF KnowsOwnFrames
  <2>2. ASSUME NEW w \in Windows, FrameLoaded(w) PROVE KnowsOwnFrames'
    <3>1. /\ w \in open /\ w # Top /\ Parent[w] \in open /\ UNCHANGED <<open, loads>>
          /\ loading' = loading \ {w}
          /\ contentDocument' = [contentDocument EXCEPT ![Parent[w]] = [frame |-> w, nr |-> loads[w]]]
      BY <2>2 DEF FrameLoaded, TypeOK, KnowsOwnFrames
    <3>2. ASSUME NEW v \in Windows, contentDocument'[v] # NoContent
          PROVE  LET kept == contentDocument'[v] IN
                 /\ v \in open' /\ kept.frame \in Windows \ {Top} /\ Parent[kept.frame] = v
                 /\ kept.frame \in open' \ loading' => kept.nr = loads'[kept.frame]
      <4>1. CASE v = Parent[w]
        <5>1. contentDocument'[v] = [frame |-> w, nr |-> loads[w]]
          BY <3>1, <4>1 DEF TypeOK
        <5> QED
          BY <3>1, <4>1, <5>1
      <4>2. CASE v # Parent[w]
        <5>1. contentDocument'[v] = contentDocument[v]
          BY <3>1, <4>2 DEF TypeOK
        <5>2. LET kept == contentDocument[v] IN
              /\ v \in open /\ kept.frame \in Windows \ {Top} /\ Parent[kept.frame] = v
              /\ kept.frame \in open \ loading => kept.nr = loads[kept.frame]
          BY <3>2, <5>1 DEF KnowsOwnFrames
        <5>3. contentDocument[v].frame # w
          BY <4>2, <5>2
        <5> QED
          BY <3>1, <5>1, <5>2, <5>3
      <4> QED
        BY <4>1, <4>2
    <3> QED
      BY <3>1, <3>2 DEF KnowsOwnFrames
  <2>3. ASSUME NEW w \in Windows, Remove(w) PROVE KnowsOwnFrames'
    <3> DEFINE gone == Within(w) \cup {w}
    <3>1. /\ w # Top /\ open' = open \ gone /\ loading' = loading \ gone /\ loads' = loads
          /\ contentDocument' = [v \in Windows |-> IF v \in gone THEN NoContent ELSE contentDocument[v]]
      BY <2>3 DEF Remove, Unload
    <3>2. ASSUME NEW v \in open' PROVE Parent[v] \in open'
      BY <3>1, <3>2, UnloadKeepsNesting
    <3>3. ASSUME NEW v \in Windows, contentDocument'[v] # NoContent
          PROVE  LET kept == contentDocument'[v] IN
                 /\ v \in open' /\ kept.frame \in Windows \ {Top} /\ Parent[kept.frame] = v
                 /\ kept.frame \in open' \ loading' => kept.nr = loads'[kept.frame]
      <4>1. v \notin gone /\ contentDocument'[v] = contentDocument[v]
        BY <3>1, <3>3
      <4> QED
        BY <3>1, <3>3, <4>1 DEF KnowsOwnFrames
    <3> QED
      BY <3>2, <3>3 DEF KnowsOwnFrames
  <2>4. CASE UNCHANGED <<open, loads, loading, contentDocument>>
    BY <2>4 DEF KnowsOwnFrames
  <2> QED
    BY <2>1, <2>2, <2>3, <2>4
       DEF Next, Observe, Publish, Relay, Hear, TellObservers, pages, vars
<1> QED
  BY <1>1, <1>2, TypeCorrect, PTL DEF Spec

\* The page that hears what is sent to the content is in a frame of the page
\* that sends it.
LEMMA ContentIsOwnFrame ==
  ASSUME TypeOK, KnowsOwnFrames
  PROVE  \A w \in Windows :
           content[w] # NoDocument =>
             w \in open /\ content[w] \in open /\ content[w] # Top /\ Parent[content[w]] = w
BY WindowsAssumption DEF TypeOK, KnowsOwnFrames, content, Documents, NoContent

-----------------------------------------------------------------------------
(* How often observers are going to be told: counting calls of one kind.   *)

\* How many of the first i of s are in X.
Among(s, X, i) == Cardinality({j \in 1..i : s[j] \in X})

In(y, X) == IF y \in X THEN 1 ELSE 0

LEMMA AmongTyped ==
  ASSUME NEW s, NEW X, NEW i \in Nat
  PROVE  Among(s, X, i) \in Nat /\ Among(s, X, 0) = 0
<1>1. /\ IsFiniteSet(1..i) /\ {j \in 1..i : s[j] \in X} \in SUBSET (1..i)
      /\ {j \in 1..0 : s[j] \in X} = {}
  BY FS_Interval
<1> QED
  BY <1>1, FS_Subset, FS_CardinalityType, FS_EmptySet DEF Among

\* A call put in front is counted if it is of the kind.
LEMMA AmongCons ==
  ASSUME NEW S, NEW s \in Seq(S), NEW y \in S, NEW X, NEW i \in 0..Len(s)
  PROVE  Among(<<y>> \o s, X, i + 1) = Among(s, X, i) + In(y, X)
<1> DEFINE t == <<y>> \o s
           A == {j \in 1..i : s[j] \in X}
           B == {j \in 1..(i + 1) : t[j] \in X}
           C == {j \in 2..(i + 1) : t[j] \in X}
           f == [j \in A |-> j + 1]
<1>1. Len(s) \in Nat /\ <<y>> \in Seq(S)
  OBVIOUS
<1>2. t[1] = y /\ \A j \in 1..i : t[j + 1] = s[j]
  BY <1>1
<1> HIDE DEF t
<1>3. f \in Bijection(A, C)
  <2>1. f \in [A -> C]
    BY <1>1, <1>2
  <2>2. \A j, k \in A : f[j] = f[k] => j = k
    OBVIOUS
  <2>3. \A k \in C : \E j \in A : f[j] = k
    <3>1. ASSUME NEW k \in C PROVE \E j \in A : f[j] = k
      <4>1. k \in 2..(i + 1) /\ k - 1 \in 1..i /\ (k - 1) + 1 = k
        BY <1>1
      <4>2. k - 1 \in A
        BY <1>2, <4>1
      <4> QED
        BY <4>1, <4>2
    <3> QED
      BY <3>1
  <2> HIDE DEF f, A, C
  <2> QED
    BY <2>1, <2>2, <2>3, Fun_IsBij
<1>4. IsFiniteSet(A)
  <2>1. IsFiniteSet(1..i) /\ A \in SUBSET (1..i)
    BY <1>1, FS_Interval
  <2> HIDE DEF A
  <2> QED
    BY <2>1, FS_Subset
<1>5. IsFiniteSet(C) /\ Cardinality(C) = Cardinality(A)
  <2> HIDE DEF A, C, f
  <2> QED
    BY <1>3, <1>4, FS_Bijection DEF ExistsBijection
<1>6. B = (IF y \in X THEN C \cup {1} ELSE C) /\ 1 \notin C
  BY <1>1, <1>2
<1>7. Cardinality(C \cup {1}) = Cardinality(C) + 1
  <2> HIDE DEF C
  <2> QED
    BY <1>5, <1>6, FS_AddElement
<1>8. Cardinality(A) \in Nat
  BY <1>4, FS_CardinalityType
<1>9. Among(t, X, i + 1) = Cardinality(B) /\ Among(s, X, i) = Cardinality(A)
  BY DEF Among
<1> HIDE DEF A, B, C
<1>10. Among(t, X, i + 1) = Among(s, X, i) + In(y, X)
  BY <1>5, <1>6, <1>7, <1>8, <1>9 DEF In
<1> QED
  BY <1>10 DEF t

\* How often x is among the first i of s.
Upto(s, x, i) == Cardinality({j \in 1..i : s[j] = x})

Same(y, x) == IF y = x THEN 1 ELSE 0

LEMMA UptoIsAmong == \A s, x, y, i : Upto(s, x, i) = Among(s, {x}, i) /\ Same(y, x) = In(y, {x})
BY DEF Upto, Among, Same, In

LEMMA UptoTyped ==
  ASSUME NEW s, NEW x, NEW i \in Nat
  PROVE  Upto(s, x, i) \in Nat /\ Upto(s, x, 0) = 0
<1>1. Upto(s, x, i) = Among(s, {x}, i) /\ Upto(s, x, 0) = Among(s, {x}, 0)
  BY UptoIsAmong
<1>2. Among(s, {x}, i) \in Nat /\ Among(s, {x}, 0) = 0
  BY AmongTyped
<1> QED  BY <1>1, <1>2

LEMMA UptoCons ==
  ASSUME NEW S, NEW s \in Seq(S), NEW y \in S, NEW x, NEW i \in 0..Len(s)
  PROVE  Upto(<<y>> \o s, x, i + 1) = Upto(s, x, i) + Same(y, x)
<1>1. Among(<<y>> \o s, {x}, i + 1) = Among(s, {x}, i) + In(y, {x})
  BY AmongCons
<1> QED
  BY <1>1, UptoIsAmong

LEMMA HeadThenTail ==
  ASSUME NEW S, NEW s \in Seq(S), s # <<>>
  PROVE  s = <<Head(s)>> \o Tail(s) /\ Len(s) = Len(Tail(s)) + 1 /\ Len(Tail(s)) \in Nat
OBVIOUS

LEMMA ConsTyped ==
  ASSUME NEW S, NEW s \in Seq(S), NEW y \in S
  PROVE  /\ <<y>> \o s \in Seq(S) /\ Len(<<y>> \o s) = Len(s) + 1 /\ <<y>> \o s # <<>>
         /\ Head(<<y>> \o s) = y /\ (<<y>> \o s)[1] = y
         /\ \A i \in 1..Len(s) : (<<y>> \o s)[i + 1] = s[i]
         /\ Len(s) \in Nat
OBVIOUS

LEMMA Regroup ==
  ASSUME NEW S, NEW a \in Seq(S), NEW b \in Seq(S), NEW c \in Seq(S)
  PROVE  (a \o b) \o c = a \o (b \o c)
BY ConcatAssociative

\* What the thread has to do after a relay: the event for the content and the
\* one for the parent, where there are any, and then the observers.
LEMMA AfterRelay ==
  ASSUME TypeOK, Relay
  PROVE  LET w == Head(calls).win
             source == Head(calls).source
             told == <<ObserversOf(w)>> \o Tail(calls)
             up == IF w # Top /\ source # "portal" THEN <<EventAt(Parent[w])>> \o told ELSE told
         IN calls' = IF content[w] # NoDocument THEN <<EventAt(content[w])>> \o up ELSE up
<1> DEFINE w == Head(calls).win
           source == Head(calls).source
           told == <<ObserversOf(w)>> \o Tail(calls)
           up == IF w # Top /\ source # "portal" THEN <<EventAt(Parent[w])>> \o told ELSE told
<1>1. /\ w \in Windows /\ Tail(calls) \in Seq(Calls) /\ source \in {"portal", "content"}
  BY NextCall DEF Relay, Call, Calls
<1>2. /\ <<ObserversOf(w)>> \in Seq(Calls) /\ ToContent(w) \in Seq(Calls)
      /\ ToParent(w, source) \in Seq(Calls)
  BY <1>1, CallTypes
<1>3. calls' = ToContent(w) \o ToParent(w, source) \o <<ObserversOf(w)>> \o Tail(calls)
  BY DEF Relay
<1>4. calls' = ToContent(w) \o (ToParent(w, source) \o told) /\ told \in Seq(Calls)
  <2> HIDE DEF w, source
  <2>1. ToParent(w, source) \o <<ObserversOf(w)>> \in Seq(Calls)
    BY <1>2, ConcatProperties
  <2>2. ToContent(w) \o ToParent(w, source) \o <<ObserversOf(w)>>
           = ToContent(w) \o (ToParent(w, source) \o <<ObserversOf(w)>>)
    BY <1>2, ConcatAssociative
  <2>3. \A s \in Seq(Calls) : (ToContent(w) \o s) \o Tail(calls) = ToContent(w) \o (s \o Tail(calls))
    BY ONLY <1>1, <1>2, Regroup
  <2>4. (ToParent(w, source) \o <<ObserversOf(w)>>) \o Tail(calls)
           = ToParent(w, source) \o (<<ObserversOf(w)>> \o Tail(calls))
    BY <1>1, <1>2, ConcatAssociative
  <2> QED
    BY <1>1, <1>2, <1>3, <2>1, <2>2, <2>3, <2>4, ConcatProperties
<1>5. ToParent(w, source) \o told = up /\ up \in Seq(Calls)
  <2> HIDE DEF told, w, source
  <2>1. ToParent(w, source) \o told \in Seq(Calls)
    BY <1>2, <1>4, ConcatProperties
  <2> QED
    BY <1>4, <2>1, ConcatEmptySeq DEF ToParent
<1>6. ToContent(w) \o up = IF content[w] # NoDocument THEN <<EventAt(content[w])>> \o up ELSE up
  <2> HIDE DEF up, w
  <2> QED
    BY <1>5, ConcatEmptySeq DEF ToContent
<1> QED
  BY <1>4, <1>5, <1>6

-----------------------------------------------------------------------------
(* Inner pages come first.                                                 *)

\* Up to each time w is told by s, c is told at most d times less often.
Lags(s, w, c, d) ==
  \A i \in 1..Len(s) :
    s[i] = ObserversOf(w) => Upto(s, ObserversOf(w), i) <= Upto(s, ObserversOf(c), i) + d

LEMMA LagsCons ==
  ASSUME NEW s \in Seq(Calls), NEW y \in Calls, NEW w, NEW c, NEW d \in Int
  PROVE  Lags(<<y>> \o s, w, c, d) <=>
           /\ Lags(s, w, c, d + Same(y, ObserversOf(c)) - Same(y, ObserversOf(w)))
           /\ y = ObserversOf(w) => 1 <= d + Same(y, ObserversOf(c))
<1> DEFINE t == <<y>> \o s
           e == d + Same(y, ObserversOf(c)) - Same(y, ObserversOf(w))
<1>1. /\ Len(t) = Len(s) + 1 /\ Len(s) \in Nat /\ t[1] = y
      /\ \A i \in 1..Len(s) : t[i + 1] = s[i]
  BY ConsTyped
<1>2. \A x : \A i \in 0..Len(s) : Upto(t, x, i + 1) = Upto(s, x, i) + Same(y, x)
  BY UptoCons
<1>3. \A x : \A i \in Nat : Upto(s, x, i) \in Nat /\ Upto(s, x, 0) = 0
  BY UptoTyped
<1>4. \A x : Same(y, x) \in {0, 1}
  BY DEF Same
<1> HIDE DEF t
<1>5. \A i \in 1..Len(s) :
        Upto(t, ObserversOf(w), i + 1) <= Upto(t, ObserversOf(c), i + 1) + d
          <=> Upto(s, ObserversOf(w), i) <= Upto(s, ObserversOf(c), i) + e
  BY <1>1, <1>2, <1>3, <1>4
<1>6. Upto(t, ObserversOf(w), 1) = Same(y, ObserversOf(w))
      /\ Upto(t, ObserversOf(c), 1) = Same(y, ObserversOf(c))
  <2>1. 0 \in 0..Len(s) /\ 0 + 1 = 1
    BY <1>1
  <2>2. \A x : Upto(t, x, 0 + 1) = Upto(s, x, 0) + Same(y, x)
    BY <1>2, <2>1
  <2>3. /\ Upto(s, ObserversOf(w), 0) = 0 /\ Upto(s, ObserversOf(c), 0) = 0
        /\ Same(y, ObserversOf(w)) \in {0, 1} /\ Same(y, ObserversOf(c)) \in {0, 1}
    BY <1>3, <1>4
  <2> QED
    BY <2>1, <2>2, <2>3
<1>7. ASSUME Lags(t, w, c, d)
      PROVE  Lags(s, w, c, e) /\ (y = ObserversOf(w) => 1 <= d + Same(y, ObserversOf(c)))
  <2>1. ASSUME NEW i \in 1..Len(s), s[i] = ObserversOf(w)
        PROVE  Upto(s, ObserversOf(w), i) <= Upto(s, ObserversOf(c), i) + e
    <3>1. i + 1 \in 1..Len(t) /\ t[i + 1] = ObserversOf(w)
      BY <1>1, <2>1
    <3>2. Upto(t, ObserversOf(w), i + 1) <= Upto(t, ObserversOf(c), i + 1) + d
      BY <1>7, <3>1 DEF Lags
    <3> QED
      BY <1>5, <3>2
  <2>2. ASSUME y = ObserversOf(w) PROVE 1 <= d + Same(y, ObserversOf(c))
    <3>1. 1 \in 1..Len(t) /\ t[1] = ObserversOf(w)
      BY <1>1, <2>2
    <3>2. Upto(t, ObserversOf(w), 1) <= Upto(t, ObserversOf(c), 1) + d
      BY <1>7, <3>1 DEF Lags
    <3>3. Same(y, ObserversOf(w)) = 1
      BY <2>2 DEF Same
    <3> QED
      BY <1>4, <1>6, <3>2, <3>3
  <2> HIDE DEF e
  <2> QED
    BY <2>1, <2>2 DEF Lags
<1>8. ASSUME Lags(s, w, c, e), y = ObserversOf(w) => 1 <= d + Same(y, ObserversOf(c))
      PROVE  Lags(t, w, c, d)
  <2>1. ASSUME NEW k \in 1..Len(t), t[k] = ObserversOf(w)
        PROVE  Upto(t, ObserversOf(w), k) <= Upto(t, ObserversOf(c), k) + d
    <3>1. CASE k = 1
      <4>1. Same(y, ObserversOf(w)) = 1
        BY <1>1, <2>1, <3>1 DEF Same
      <4> QED
        BY <1>1, <1>4, <1>6, <1>8, <2>1, <3>1, <4>1
    <3>2. CASE k # 1
      <4>1. k - 1 \in 1..Len(s) /\ (k - 1) + 1 = k
        BY <1>1, <3>2
      <4>2. s[k - 1] = ObserversOf(w)
        BY <1>1, <2>1, <4>1
      <4>3. Upto(s, ObserversOf(w), k - 1) <= Upto(s, ObserversOf(c), k - 1) + e
        BY <1>8, <4>1, <4>2 DEF Lags
      <4>4. Upto(t, ObserversOf(w), (k - 1) + 1) <= Upto(t, ObserversOf(c), (k - 1) + 1) + d
        BY <1>5, <4>1, <4>3
      <4> QED
        BY <4>1, <4>4
    <3> QED
      BY <3>1, <3>2
  <2> QED
    BY <2>1 DEF Lags
<1> QED
  BY <1>7, <1>8 DEF t

\* Who lags at most d behind lags at most e behind if that is more.
LEMMA LagsMore ==
  ASSUME NEW s \in Seq(Calls), NEW w, NEW c, NEW d \in Int, NEW e \in Int, d <= e, Lags(s, w, c, d)
  PROVE  Lags(s, w, c, e)
<1>1. ASSUME NEW i \in 1..Len(s), s[i] = ObserversOf(w)
      PROVE  Upto(s, ObserversOf(w), i) <= Upto(s, ObserversOf(c), i) + e
  <2>1. Upto(s, ObserversOf(w), i) \in Nat /\ Upto(s, ObserversOf(c), i) \in Nat
    BY UptoTyped
  <2>2. Upto(s, ObserversOf(w), i) <= Upto(s, ObserversOf(c), i) + d
    BY <1>1 DEF Lags
  <2> QED
    BY <2>1, <2>2
<1> QED
  BY <1>1 DEF Lags

\* A message is on its way to c right now.
Arriving(c) ==
  IF calls # <<>> /\ Head(calls).do # "observers" /\ Head(calls).win = c THEN 1 ELSE 0

\* Each time the observers in a page are told, those in the frame it knows have
\* been told as often: before it on the stack, or by the call under way.
InnerKept ==
  \A w \in Windows :
    content[w] # NoDocument /\ listens[content[w]] =>
      /\ got[w] <= got[content[w]]
      /\ Lags(calls, w, content[w], got[content[w]] - got[w] + Arriving(content[w]))

\* The calls under way keep it.
LEMMA CallsKeepInner ==
  ASSUME TypeOK, KnowsOwnFrames, InnerKept, Relay \/ Hear \/ TellObservers
  PROVE  InnerKept'
<1> DEFINE v == Head(calls).win
           h == Head(calls)
           rest == Tail(calls)
<1>1. calls # <<>> /\ h \in Calls /\ v \in Windows /\ rest \in Seq(Calls)
  BY NextCall DEF Relay, Hear, TellObservers, Call
<1>2. calls = <<h>> \o rest
  BY <1>1, HeadThenTail DEF TypeOK
<1>3. UNCHANGED <<content, listens>>
  BY SameContent DEF Relay, Hear, TellObservers
<1> SUFFICES ASSUME NEW w \in Windows, content[w] # NoDocument, listens[content[w]]
             PROVE  /\ got'[w] <= got'[content[w]]
                    /\ Lags(calls', w, content[w],
                            got'[content[w]] - got'[w] + Arriving(content[w])')
  BY <1>3 DEF InnerKept
<1> DEFINE c == content[w]
           d == got[c] - got[w]
<1>4. c \in Windows /\ c # w /\ got[w] \in Nat /\ got[c] \in Nat
  BY ContentIsOwnFrame, ContentTyped, WindowsAssumption DEF TypeOK
<1>5. got[w] <= got[c] /\ Lags(calls, w, c, d + Arriving(c))
  BY DEF InnerKept
<1>6. Arriving(c) \in {0, 1} /\ Arriving(c)' \in {0, 1} /\ d \in Int
  BY <1>4 DEF Arriving
<1>7. ObserversOf(c) # ObserversOf(w)
  BY <1>4 DEF ObserversOf
<1>8. CASE TellObservers
  <2>1. h = ObserversOf(v) /\ Arriving(c) = 0 /\ calls' = rest
    BY <1>1, <1>8 DEF TellObservers, Call, Calls, ObserversOf, Arriving
  <2>2. /\ Lags(rest, w, c, d + Same(h, ObserversOf(c)) - Same(h, ObserversOf(w)))
        /\ h = ObserversOf(w) => 1 <= d + Same(h, ObserversOf(c))
    <3>2. d + Arriving(c) = d
      BY <1>6, <2>1
    <3>1. Lags(<<h>> \o rest, w, c, d)
      BY <1>2, <1>5, <3>2
    <3> HIDE DEF h, rest, c, d
    <3> QED
      BY <1>1, <1>6, <3>1, LagsCons
  <2>3. \A u \in Windows : got'[u] = IF u = v /\ listens[v] THEN got[u] + 1 ELSE got[u]
    BY <1>1, <1>8 DEF TellObservers, TypeOK
  <2>4. \A u \in Windows : h = ObserversOf(u) <=> u = v
    BY <2>1 DEF ObserversOf
  <2>5. /\ got'[w] <= got'[c] /\ got'[c] - got'[w] \in Int
        /\ d + Same(h, ObserversOf(c)) - Same(h, ObserversOf(w)) <= got'[c] - got'[w] + Arriving(c)'
    <3>1. listens[c]
      OBVIOUS
    <3> HIDE DEF h, rest, c
    <3> QED
      BY <1>4, <1>5, <1>6, <2>2, <2>3, <2>4, <3>1 DEF Same
  <2>6. d + Same(h, ObserversOf(c)) - Same(h, ObserversOf(w)) \in Int
    BY <1>6 DEF Same
  <2> HIDE DEF h, rest, c, d
  <2>7. Lags(rest, w, c, got'[c] - got'[w] + Arriving(c)')
    BY <1>1, <1>6, <2>2, <2>5, <2>6, LagsMore
  <2> QED
    BY <2>1, <2>5, <2>7 DEF c
<1>9. CASE Hear
  <2>1. h.do = "event" /\ h # ObserversOf(c) /\ h # ObserversOf(w) /\ got' = got
    BY <1>9 DEF Hear, Call, ObserversOf
  <2>2. Lags(rest, w, c, d + Arriving(c))
    <3>1. Lags(<<h>> \o rest, w, c, d + Arriving(c))
      BY <1>2, <1>5
    <3>2. Same(h, ObserversOf(c)) = 0 /\ Same(h, ObserversOf(w)) = 0
      BY <2>1 DEF Same
    <3>3. d + Arriving(c) \in Int /\ d + Arriving(c) + 0 - 0 = d + Arriving(c)
      BY <1>6
    <3> HIDE DEF h, rest, c, d
    <3>4. Lags(rest, w, c, d + Arriving(c) + Same(h, ObserversOf(c)) - Same(h, ObserversOf(w)))
      BY <1>1, <3>1, <3>3, LagsCons
    <3> QED
      BY <3>2, <3>3, <3>4
  <2>3. CASE listens[v]
    <3> DEFINE r == Relayed(v, OtherSource(v))
    <3>1. calls' = <<r>> \o rest
      BY <1>9, <2>3 DEF Hear
    <3>2. r \in Calls /\ r # ObserversOf(c) /\ r # ObserversOf(w)
      BY <1>1 DEF Relayed, OtherSource, Calls, ObserversOf
    <3>3. calls' # <<>> /\ Head(calls') = r
      <4> HIDE DEF r, rest
      <4> QED
        BY <1>1, <3>1, <3>2, ConsTyped
    <3>4. Arriving(c)' = Arriving(c)
      BY <1>1, <1>3, <2>1, <3>3 DEF Arriving, Relayed
    <3>5. Same(r, ObserversOf(c)) = 0 /\ Same(r, ObserversOf(w)) = 0
      BY <3>2 DEF Same
    <3>6. d + Arriving(c) \in Int /\ d + Arriving(c) + 0 - 0 = d + Arriving(c)
      BY <1>6
    <3> HIDE DEF h, rest, c, d, r
    <3>7. Lags(<<r>> \o rest, w, c, d + Arriving(c))
      BY <1>1, <2>2, <3>2, <3>5, <3>6, LagsCons
    <3> QED
      BY <1>5, <2>1, <3>1, <3>4, <3>7 DEF c, d
  <2>4. CASE ~listens[v]
    <3>1. calls' = rest
      <4>1. calls' = <<>> \o rest
        BY <1>9, <2>4 DEF Hear
      <4> QED
        BY <1>1, <4>1, ConcatEmptySeq
    <3>2. Arriving(c) = 0
      BY <2>4 DEF Arriving
    <3>3. /\ d + Arriving(c) \in Int /\ d + Arriving(c)' \in Int
          /\ d + Arriving(c) <= d + Arriving(c)'
      BY <1>6, <3>2
    <3> HIDE DEF h, rest, c, d
    <3>4. Lags(rest, w, c, d + Arriving(c)')
      BY <1>1, <2>2, <3>3, LagsMore
    <3> QED
      BY <1>5, <2>1, <3>1, <3>4 DEF c, d
  <2> QED
    BY <2>3, <2>4
<1>10. CASE Relay
  <2>1. h.do = "relay" /\ h # ObserversOf(c) /\ h # ObserversOf(w) /\ got' = got
    BY <1>10 DEF Relay, Call, ObserversOf
  <2>2. Lags(rest, w, c, d + Arriving(c))
    <3>1. Lags(<<h>> \o rest, w, c, d + Arriving(c))
      BY <1>2, <1>5
    <3>2. Same(h, ObserversOf(c)) = 0 /\ Same(h, ObserversOf(w)) = 0
      BY <2>1 DEF Same
    <3>3. d + Arriving(c) \in Int /\ d + Arriving(c) + 0 - 0 = d + Arriving(c)
      BY <1>6
    <3> HIDE DEF h, rest, c, d
    <3>4. Lags(rest, w, c, d + Arriving(c) + Same(h, ObserversOf(c)) - Same(h, ObserversOf(w)))
      BY <1>1, <3>1, <3>3, LagsCons
    <3> QED
      BY <3>2, <3>3, <3>4
  <2> DEFINE o == ObserversOf(v)
             told == <<o>> \o rest
             e == EventAt(Parent[v])
             up == IF v # Top /\ h.source # "portal" THEN <<e>> \o told ELSE told
             n == EventAt(content[v])
             D == d + Arriving(c)'
  <2>3. calls' = IF content[v] # NoDocument THEN <<n>> \o up ELSE up
    BY <1>10, AfterRelay
  <2>4. /\ o \in Calls /\ e \in Calls /\ (content[v] # NoDocument => n \in Calls)
        /\ e # ObserversOf(c) /\ e # ObserversOf(w) /\ n # ObserversOf(c) /\ n # ObserversOf(w)
        /\ (o = ObserversOf(c) <=> v = c) /\ (o = ObserversOf(w) <=> v = w)
    BY <1>1, ContentTyped, WindowsAssumption DEF ObserversOf, EventAt, Calls
  <2>5. Arriving(c) = IF v = c THEN 1 ELSE 0
    BY <1>1, <2>1 DEF Arriving
  <2>6. v = w => Arriving(c)' = 1
    <3> SUFFICES ASSUME v = w PROVE Arriving(c)' = 1
      OBVIOUS
    <3>1. up \in Seq(Calls)
      <4> HIDE DEF o, e, rest
      <4>1. told \in Seq(Calls)
        BY <1>1, <2>4, ConsTyped
      <4> HIDE DEF told
      <4> QED
        BY <2>4, <4>1, ConsTyped
    <3>2. calls' = <<n>> \o up /\ n \in Calls /\ n = EventAt(c)
      BY <2>3, <2>4
    <3>3. calls' # <<>> /\ Head(calls') = n
      <4> HIDE DEF up, n
      <4> QED
        BY <3>1, <3>2, ConsTyped
    <3> QED
      BY <1>3, <3>2, <3>3 DEF Arriving, EventAt
  <2>7. /\ Same(e, ObserversOf(c)) = 0 /\ Same(e, ObserversOf(w)) = 0
        /\ Same(n, ObserversOf(c)) = 0 /\ Same(n, ObserversOf(w)) = 0
        /\ Same(o, ObserversOf(c)) = (IF v = c THEN 1 ELSE 0)
        /\ Same(o, ObserversOf(w)) = (IF v = w THEN 1 ELSE 0)
    BY <2>4 DEF Same
  <2>8. /\ D \in Int /\ d + Arriving(c) \in Int
        /\ d + Arriving(c) <= D + Same(o, ObserversOf(c)) - Same(o, ObserversOf(w))
        /\ D + Same(o, ObserversOf(c)) - Same(o, ObserversOf(w)) \in Int
        /\ o = ObserversOf(w) => 1 <= D + Same(o, ObserversOf(c))
        /\ D + 0 - 0 = D
    <3> HIDE DEF v, h, rest, c, o, e, n
    <3>1. 0 <= d
      BY <1>4, <1>5
    <3> HIDE DEF d
    <3> QED
      BY <1>4, <1>6, <2>4, <2>5, <2>6, <2>7, <3>1
  <2> HIDE DEF v, h, rest, c, d, o, e, n, D
  <2>9. told \in Seq(Calls) /\ Lags(told, w, c, D)
    <3>1. Lags(rest, w, c, D + Same(o, ObserversOf(c)) - Same(o, ObserversOf(w)))
      BY <1>1, <2>2, <2>8, LagsMore
    <3> QED
      BY <1>1, <2>4, <2>8, <3>1, LagsCons, ConsTyped
  <2> HIDE DEF told
  <2>10. up \in Seq(Calls) /\ Lags(up, w, c, D)
    <3>1. <<e>> \o told \in Seq(Calls) /\ Lags(<<e>> \o told, w, c, D)
      BY <2>4, <2>7, <2>8, <2>9, LagsCons, ConsTyped
    <3> QED
      BY <2>9, <3>1
  <2> HIDE DEF up
  <2>11. Lags(calls', w, c, D)
    <3>1. content[v] # NoDocument => Lags(<<n>> \o up, w, c, D)
      BY <2>4, <2>7, <2>8, <2>10, LagsCons
    <3> QED
      BY <2>3, <2>10, <3>1
  <2> QED
    BY <1>5, <2>1, <2>11 DEF c, d, D
<1> QED
  BY <1>8, <1>9, <1>10

\* When the observers in a page are told of a message, those in the frame it
\* knows have been told of it as often, in any composition of pages.
THEOREM InnerPagesComeFirst == Spec => []InnerFirst
<1>1. Init => InnerKept
  BY DEF Init, InnerKept, content, NoContent
<1>2. TypeOK /\ TypeOK' /\ KnowsOwnFrames /\ InnerKept /\ [Next]_vars => InnerKept'
  <2> SUFFICES ASSUME TypeOK, TypeOK', KnowsOwnFrames, InnerKept, [Next]_vars PROVE InnerKept'
    OBVIOUS
  <2>1. ASSUME calls' = <<>>, Forget, content' \in [Windows -> Windows \cup {NoDocument}] PROVE InnerKept'
    <3>1. \A w \in Windows : got'[w] = 0
      BY <2>1 DEF Forget, Untold
    <3>2. \A w, c, d : Lags(<<>>, w, c, d)
      BY DEF Lags
    <3> QED
      BY <2>1, <3>1, <3>2 DEF InnerKept
  <2>2. ASSUME NEW w \in Windows, Open(w) \/ Remove(w) \/ FrameLoaded(w) \/ Observe(w) PROVE InnerKept'
    <3>1. content' \in [Windows -> Windows \cup {NoDocument}]
      BY DEF content, Documents, TypeOK
    <3> QED
      BY <2>1, <2>2, <3>1 DEF Open, Remove, FrameLoaded, Observe
  <2>3. ASSUME NEW w \in Windows, Publish(w) PROVE InnerKept'
    <3> DEFINE r == Relayed(w, Source(w))
    <3>1. /\ calls' = <<r>> /\ UNCHANGED <<content, listens>>
          /\ \A v \in Windows : got'[v] = 0
      BY <2>3, SameContent DEF Publish, Untold
    <3>2. \A v : r # ObserversOf(v)
      BY DEF Relayed, ObserversOf
    <3> HIDE DEF r
    <3>3. \A v, c, d : Lags(<<r>>, v, c, d)
      BY <3>2 DEF Lags
    <3> QED
      BY <3>1, <3>3, ContentTyped DEF InnerKept
  <2>4. CASE UNCHANGED vars
    BY <2>4, SameContent DEF vars, InnerKept, Arriving
  <2> QED
    BY <2>2, <2>3, <2>4, CallsKeepInner DEF Next
<1>3. InnerKept => InnerFirst
  BY DEF InnerKept, InnerFirst
<1> QED
  BY <1>1, <1>2, <1>3, TypeCorrect, MessengersKnowTheirFrames, PTL DEF Spec

-----------------------------------------------------------------------------
(* Nobody is told too often.                                               *)

\* How often s is going to tell the observers in w.
Tells(s, w) == Upto(s, ObserversOf(w), Len(s))

\* How often they are told of the message when the calls under way return.
Told(w) == got[w] + Tells(calls, w)

\* The event for the parent of the publisher waits until the frames below have
\* been told: until then nobody is told twice.
Most(s) == IF Len(s) >= 3 /\ s[Len(s) - 1].do = "event" THEN 1 ELSE 2

\* What waits behind the call under way: observers, and an event only before the
\* last of them.
Behind(s) ==
  \A i \in 1..Len(s) : s[i].do # "relay" /\ (s[i].do = "event" => i = Len(s) - 1)

\* A message goes up only from its publisher; and where a call goes next, the
\* page and all that is within it have been told once less than they may be.
TellingKept ==
  /\ calls # <<>> => Behind(Tail(calls))
  /\ \A w \in Windows : Told(w) <= Most(calls)
  /\ calls # <<>> /\ Head(calls).do = "relay" /\ Head(calls).win # Top
       /\ Head(calls).source # "portal" =>
       Len(calls) = 1 /\ \A w \in Windows : Told(w) = 0
  /\ calls # <<>> /\ Head(calls).do # "observers" =>
       \A w \in Within(Head(calls).win) \cup {Head(calls).win} : Told(w) <= Most(calls) - 1

LEMMA TellsTyped ==
  ASSUME NEW s \in Seq(Calls), NEW w
  PROVE  Tells(s, w) \in Nat
BY UptoTyped DEF Tells

LEMMA TellsCons ==
  ASSUME NEW s \in Seq(Calls), NEW y \in Calls, NEW w
  PROVE  Tells(<<y>> \o s, w) = Tells(s, w) + Same(y, ObserversOf(w))
<1>1. Len(<<y>> \o s) = Len(s) + 1 /\ Len(s) \in 0..Len(s)
  BY ConsTyped
<1> QED
  BY <1>1, UptoCons DEF Tells

\* More observers may wait behind a call, and fewer.
LEMMA BehindCons ==
  ASSUME NEW s \in Seq(Calls), NEW y \in Calls
  PROVE  /\ Behind(<<y>> \o s) => Behind(s)
         /\ Behind(s) /\ y.do = "observers" => Behind(<<y>> \o s)
<1> DEFINE t == <<y>> \o s
<1>1. /\ Len(t) = Len(s) + 1 /\ Len(s) \in Nat /\ t[1] = y
      /\ \A i \in 1..Len(s) : t[i + 1] = s[i]
  BY ConsTyped
<1> HIDE DEF t
<1>2. ASSUME Behind(t), NEW i \in 1..Len(s)
      PROVE  s[i].do # "relay" /\ (s[i].do = "event" => i = Len(s) - 1)
  <2>1. i + 1 \in 1..Len(t) /\ t[i + 1] = s[i]
    BY <1>1
  <2>2. t[i + 1].do # "relay" /\ (t[i + 1].do = "event" => i + 1 = Len(t) - 1)
    BY <1>2, <2>1 DEF Behind
  <2> QED
    BY <1>1, <2>1, <2>2
<1>3. ASSUME Behind(s), y.do = "observers", NEW k \in 1..Len(t)
      PROVE  t[k].do # "relay" /\ (t[k].do = "event" => k = Len(t) - 1)
  <2>1. CASE k = 1
    BY <1>1, <1>3, <2>1
  <2>2. CASE k # 1
    <3>1. k - 1 \in 1..Len(s) /\ (k - 1) + 1 = k
      BY <1>1, <2>2
    <3>2. t[k] = s[k - 1]
      BY <1>1, <3>1
    <3>3. s[k - 1].do # "relay" /\ (s[k - 1].do = "event" => k - 1 = Len(s) - 1)
      BY <1>3, <3>1 DEF Behind
    <3> QED
      BY <1>1, <3>2, <3>3
  <2> QED
    BY <2>1, <2>2
<1> QED
  BY <1>2, <1>3 DEF Behind, t

\* What is called does not matter to how often anybody may be told, nor do
\* observers in front of those that wait.
LEMMA MostCons ==
  ASSUME NEW s \in Seq(Calls), NEW x \in Calls, NEW y \in Calls, NEW o \in Calls,
         o.do = "observers"
  PROVE  /\ Most(<<x>> \o s) = Most(<<y>> \o s)
         /\ Most(<<x>> \o (<<o>> \o s)) = Most(<<y>> \o s)
<1> DEFINE sx == <<x>> \o s
           sy == <<y>> \o s
           so == <<o>> \o s
           sxo == <<x>> \o so
<1>1. /\ Len(s) \in Nat /\ Len(sx) = Len(s) + 1 /\ Len(sy) = Len(s) + 1
      /\ \A i \in 1..Len(s) : sx[i + 1] = s[i]
      /\ \A i \in 1..Len(s) : sy[i + 1] = s[i]
      /\ \A i \in 1..Len(s) : so[i + 1] = s[i]
      /\ so[1] = o /\ so \in Seq(Calls) /\ Len(so) = Len(s) + 1
  BY ConsTyped
<1> HIDE DEF so
<1>2. Len(sxo) = Len(s) + 2 /\ \A i \in 1..(Len(s) + 1) : sxo[i + 1] = so[i]
  BY <1>1, ConsTyped
<1> HIDE DEF sx, sy, sxo
<1>3. ASSUME Len(s) >= 2
      PROVE  LET b == s[Len(s) - 1] IN
             sx[Len(sx) - 1] = b /\ sy[Len(sy) - 1] = b /\ sxo[Len(sxo) - 1] = b
  <2>1. /\ Len(s) - 1 \in 1..Len(s) /\ (Len(s) - 1) + 1 = Len(s)
        /\ Len(s) \in 1..(Len(s) + 1) /\ Len(sxo) - 1 = Len(s) + 1
        /\ Len(sx) - 1 = Len(s) /\ Len(sy) - 1 = Len(s)
    BY <1>1, <1>2, <1>3
  <2>2. /\ sx[Len(s)] = s[Len(s) - 1] /\ sy[Len(s)] = s[Len(s) - 1]
        /\ so[Len(s)] = s[Len(s) - 1] /\ sxo[Len(s) + 1] = so[Len(s)]
    BY <1>1, <1>2, <2>1
  <2> QED
    BY <2>1, <2>2
<1>4. CASE Len(s) >= 2
  BY <1>1, <1>2, <1>3, <1>4 DEF Most, sx, sy, sxo, so
<1>5. CASE Len(s) = 1
  <2>1. sxo[2] = o /\ Len(sxo) = 3 /\ Len(sx) = 2 /\ Len(sy) = 2
    <3>1. 1 \in 1..(Len(s) + 1)
      BY <1>5
    <3>2. sxo[1 + 1] = o
      BY <1>1, <1>2, <3>1
    <3> QED
      BY <1>1, <1>2, <1>5, <3>2
  <2>2. Most(sxo) = 2 /\ Most(sx) = 2 /\ Most(sy) = 2
    BY <2>1 DEF Most
  <2> QED
    BY <2>2 DEF sx, sy, sxo, so
<1>6. CASE Len(s) = 0
  <2>1. Most(sxo) = 2 /\ Most(sx) = 2 /\ Most(sy) = 2
    BY <1>1, <1>2, <1>6 DEF Most
  <2> QED
    BY <2>1 DEF sx, sy, sxo, so
<1> QED
  BY <1>1, <1>4, <1>5, <1>6

\* What is within a frame of v is within v.
LEMMA FramesAreWithin ==
  ASSUME NEW c \in Windows, c # Top
  PROVE  Within(c) \cup {c} \subseteq Within(Parent[c])
<1> DEFINE v == Parent[c]
           S == Within(v)
<1>1. v \in Windows
  BY WindowsAssumption
<1>2. c \in S
  BY <1>1, WithinIsClosed
<1>3. S \in SUBSET Windows
  BY DEF Within
<1>4. {x \in Windows : x # Top /\ Parent[x] \in S \cup {c}} \subseteq S
  <2>1. ASSUME NEW x \in Windows, x # Top, Parent[x] \in S \cup {c} PROVE x \in S
    <3>1. Parent[x] \in Within(v) \cup {v}
      BY <1>2, <2>1
    <3> QED
      BY <1>1, <2>1, <3>1, WithinIsClosed
  <2> QED
    BY <2>1
<1>5. Within(c) \subseteq S
  <2> HIDE DEF S
  <2> QED
    BY <1>3, <1>4 DEF Within
<1> QED
  BY <1>2, <1>5

\* When the call under way returns, the one that waits goes on.
LEMMA ReturnKeepsTelling ==
  ASSUME TypeOK, TellingKept, calls # <<>>, calls' = Tail(calls),
         \A w \in Windows : Told(w)' <= Told(w) /\ Told(w)' \in Nat
  PROVE  TellingKept'
<1> DEFINE rest == Tail(calls)
           L == Len(calls)
<1>1. /\ rest \in Seq(Calls) /\ L = Len(rest) + 1 /\ Len(rest) \in Nat
      /\ \A i \in 1..Len(rest) : rest[i] = calls[i + 1]
      /\ rest # <<>> => Len(rest) >= 1 /\ Head(rest) = rest[1] /\ rest[1] \in Calls
  BY DEF TypeOK
<1>2. calls' = rest
  OBVIOUS
<1> HIDE DEF rest, L
<1>3. Behind(rest)
  BY DEF TellingKept, rest
<1>4. rest # <<>> => Behind(Tail(rest))
  <2>1. rest # <<>> => /\ rest = <<Head(rest)>> \o Tail(rest)
                       /\ Head(rest) \in Calls /\ Tail(rest) \in Seq(Calls)
    BY <1>1, HeadThenTail, HeadTailProperties
  <2> QED
    BY <1>3, <2>1, BehindCons
<1>5. Most(calls) \in {1, 2} /\ Most(rest) \in {1, 2}
  BY DEF Most
<1>6. Most(calls) <= Most(rest)
  <2> SUFFICES ASSUME Most(rest) = 1 PROVE Most(calls) = 1
    BY <1>5
  <2>1. Len(rest) >= 3 /\ rest[Len(rest) - 1].do = "event"
    BY DEF Most
  <2>2. Len(rest) - 1 \in 1..Len(rest) /\ Len(rest) - 1 + 1 = L - 1 /\ L >= 3
    BY <1>1, <2>1
  <2>3. calls[L - 1].do = "event"
    BY <1>1, <2>1, <2>2
  <2> QED
    BY <2>2, <2>3 DEF Most, L
<1>7. \A w \in Windows : Told(w)' <= Most(calls)
  <2>1. ASSUME NEW w \in Windows PROVE Told(w)' <= Most(calls)
    <3>1. Told(w) \in Nat /\ Told(w) <= Most(calls)
      BY TellsTyped DEF TellingKept, Told, TypeOK
    <3>2. Told(w)' <= Told(w) /\ Told(w)' \in Nat
      OBVIOUS
    <3> HIDE DEF Told
    <3> QED
      BY <1>5, <3>1, <3>2
  <2> QED
    BY <2>1
<1>8. \A w \in Windows : Told(w)' <= Most(rest)
  BY <1>5, <1>6, <1>7
<1>9. ASSUME rest # <<>> PROVE Head(rest).do # "relay"
  <2>1. 1 \in 1..Len(rest)
    BY <1>1, <1>9
  <2> QED
    BY <1>1, <1>3, <1>9, <2>1 DEF Behind
<1>10. ASSUME rest # <<>>, Head(rest).do # "observers"
       PROVE  Most(calls) = 1 /\ Most(rest) = 2 /\ Head(rest).win \in Windows
  <2>1. Head(rest) = rest[1] /\ rest[1] \in Calls /\ 1 \in 1..Len(rest)
    BY <1>1, <1>10
  <2>2. rest[1].do = "event" /\ Len(rest) = 2 /\ L = 3 /\ rest[1] = calls[2]
    <3>1. rest[1].do # "relay" /\ (rest[1].do = "event" => 1 = Len(rest) - 1)
      BY <1>3, <2>1 DEF Behind
    <3>2. rest[1].do = "event"
      BY <1>10, <2>1, <3>1 DEF Calls
    <3>3. rest[1] = calls[1 + 1]
      BY <1>1, <2>1
    <3>4. 1 = Len(rest) - 1
      BY <3>1, <3>2
    <3>5. Len(rest) = 2 /\ L = 3 /\ 1 + 1 = 2
      <4>1. L = Len(rest) + 1 /\ Len(rest) \in Nat
        BY <1>1
      <4>2. \A n \in Nat : n - 1 = 1 => n = 2 /\ n + 1 = 3
        OBVIOUS
      <4>3. Len(rest) = 2 /\ L = 3
        BY <3>4, <4>1, <4>2
      <4> QED
        BY <4>3
    <3> QED
      BY <3>2, <3>3, <3>5
  <2>3. calls[L - 1].do = "event"
    BY <2>2
  <2> QED
    BY <2>1, <2>2, <2>3 DEF Most, L, Calls
<1>11. ASSUME rest # <<>>, Head(rest).do # "observers",
              NEW w \in Within(Head(rest).win) \cup {Head(rest).win}
       PROVE  Told(w)' <= Most(rest) - 1
  <2>1. w \in Windows
    BY <1>10, <1>11 DEF Within
  <2> QED
    BY <1>7, <1>10, <1>11, <2>1
<1> QED
  BY <1>2, <1>4, <1>8, <1>9, <1>11 DEF TellingKept

\* A call that goes on to another page, or to the relay of its own, keeps it.
LEMMA GoingOnKeepsTelling ==
  ASSUME TypeOK, TellingKept, calls # <<>>, got' = got,
         NEW y \in Calls, calls' = <<y>> \o Tail(calls),
         y.do = "event" \/ (y.do = "relay" /\ (y.win = Top \/ y.source = "portal")),
         Head(calls).do # "observers",
         y.win \in Within(Head(calls).win) \cup {Head(calls).win}
  PROVE  TellingKept'
<1> DEFINE h == Head(calls)
           rest == Tail(calls)
           t == <<y>> \o rest
<1>1. h \in Calls /\ h.win \in Windows /\ rest \in Seq(Calls) /\ calls = <<h>> \o rest
  BY NextCall, HeadThenTail DEF TypeOK
<1>2. t # <<>> /\ Head(t) = y /\ Tail(t) = rest /\ t \in Seq(Calls)
  BY <1>1
<1>3. Most(t) = Most(calls)
  <2>1. \A w \in Windows : ObserversOf(w) \in Calls
    BY DEF ObserversOf, Calls
  <2>2. ObserversOf(Top).do = "observers" /\ Top \in Windows
    BY WindowsAssumption DEF ObserversOf
  <2> HIDE DEF h, rest
  <2> QED
    BY <1>1, <2>1, <2>2, MostCons
<1>4. ASSUME NEW w PROVE Told(w)' = Told(w)
  <2>1. Same(y, ObserversOf(w)) = 0 /\ Same(h, ObserversOf(w)) = 0
    BY DEF Same, ObserversOf
  <2>2. Tells(t, w) = Tells(rest, w) + 0 /\ Tells(calls, w) = Tells(rest, w) + 0
    <3> HIDE DEF h, rest
    <3> QED
      BY <1>1, <2>1, TellsCons
  <2>3. calls' = t
    OBVIOUS
  <2> HIDE DEF t
  <2> QED
    BY <2>2, <2>3 DEF Told
<1>5. Within(y.win) \cup {y.win} \subseteq Within(h.win) \cup {h.win}
  <2>1. Within(h.win) \subseteq Windows
    BY DEF Within
  <2>2. ASSUME y.win \in Within(h.win) PROVE Within(y.win) \subseteq Within(h.win)
    <3> DEFINE S == Within(h.win)
    <3>1. S \in SUBSET Windows /\ {x \in Windows : x # Top /\ Parent[x] \in S \cup {y.win}} \subseteq S
      <4>1. ASSUME NEW x \in Windows, x # Top, Parent[x] \in S \cup {y.win} PROVE x \in S
        BY <1>1, <2>2, <4>1, WithinIsClosed
      <4> QED
        BY <2>1, <4>1
    <3> HIDE DEF S
    <3>2. Within(y.win) \subseteq S
      BY <3>1 DEF Within
    <3> QED
      BY <3>2 DEF S
  <2> QED
    BY <2>2
<1>6. calls' = t /\ h.do # "observers" /\ h.win \in Windows
  BY <1>1
<1>7. /\ calls' # <<>> => Behind(Tail(calls'))
      /\ \A w \in Windows : Told(w)' <= Most(calls')
  BY <1>2, <1>3, <1>4, <1>6 DEF TellingKept
<1>8. \A w \in Within(y.win) \cup {y.win} : Told(w)' <= Most(calls') - 1
  BY <1>3, <1>4, <1>5, <1>6 DEF TellingKept
<1>9. ~(y.do = "relay" /\ y.win # Top /\ y.source # "portal")
  OBVIOUS
<1> QED
  BY <1>2, <1>6, <1>7, <1>8, <1>9 DEF TellingKept

\* A relay tells the observers of its page, and calls what has room for more.
LEMMA RelayKeepsTelling ==
  ASSUME TypeOK, KnowsOwnFrames, TellingKept, Relay
  PROVE  TellingKept'
<1> DEFINE h == Head(calls)
           v == Head(calls).win
           rest == Tail(calls)
           o == ObserversOf(v)
           e == EventAt(Parent[v])
           n == EventAt(content[v])
           told == <<o>> \o rest
           up == <<e>> \o told
           goesUp == v # Top /\ h.source # "portal"
           c == content[v]
<1>1. /\ calls # <<>> /\ h \in Calls /\ v \in Windows /\ rest \in Seq(Calls)
      /\ calls = <<h>> \o rest /\ h.do = "relay" /\ got' = got
  BY NextCall, HeadThenTail DEF Relay, Call, TypeOK
<1>2. /\ o \in Calls /\ o.do = "observers" /\ e \in Calls /\ e.do = "event" /\ e.win = Parent[v]
      /\ n.do = "event" /\ n.win = c
      /\ c # NoDocument => n \in Calls /\ c \in Windows /\ c # Top /\ Parent[c] = v
  BY <1>1, WindowsAssumption, ContentTyped, ContentIsOwnFrame DEF ObserversOf, EventAt, Calls
<1>3. calls' = IF c # NoDocument THEN <<n>> \o (IF goesUp THEN up ELSE told)
               ELSE IF goesUp THEN up ELSE told
  BY AfterRelay
<1>4. told \in Seq(Calls) /\ told # <<>> /\ Head(told) = o /\ Tail(told) = rest
  BY <1>1, <1>2
<1>5. up \in Seq(Calls) /\ up # <<>> /\ Head(up) = e /\ Tail(up) = told
  <2> HIDE DEF told
  <2> QED
    BY <1>2, <1>4
<1>6. \A s \in Seq(Calls) : c # NoDocument =>
        <<n>> \o s # <<>> /\ Head(<<n>> \o s) = n /\ Tail(<<n>> \o s) = s
  BY <1>2
<1>7. ASSUME NEW w \in Windows
      PROVE  /\ Told(w) \in Nat /\ Told(w) = got[w] + Tells(rest, w)
             /\ Tells(told, w) = Tells(rest, w) + (IF w = v THEN 1 ELSE 0)
             /\ Tells(up, w) = Tells(told, w)
             /\ \A s \in Seq(Calls) : c # NoDocument => Tells(<<n>> \o s, w) = Tells(s, w)
  <2>1. /\ Same(h, ObserversOf(w)) = 0 /\ Same(n, ObserversOf(w)) = 0
        /\ Same(e, ObserversOf(w)) = 0 /\ Same(o, ObserversOf(w)) = IF w = v THEN 1 ELSE 0
    BY <1>1, <1>2 DEF Same, ObserversOf
  <2>2. \A s \in Seq(Calls) : Tells(s, w) \in Nat
    BY TellsTyped
  <2>3. got[w] \in Nat
    BY DEF TypeOK
  <2> HIDE DEF h, v, rest, o, e, n, c
  <2>4. /\ Tells(calls, w) = Tells(rest, w) + 0
        /\ Tells(told, w) = Tells(rest, w) + (IF w = v THEN 1 ELSE 0)
    BY <1>1, <1>2, <2>1, TellsCons
  <2> HIDE DEF told
  <2>5. Tells(up, w) = Tells(told, w) + 0
    BY <1>2, <1>4, <2>1, TellsCons
  <2>6. \A s \in Seq(Calls) : c # NoDocument => Tells(<<n>> \o s, w) = Tells(s, w) + 0
    BY <1>2, <2>1, TellsCons
  <2> HIDE DEF up
  <2> QED
    <3>1. Tells(rest, w) \in Nat /\ Tells(told, w) \in Nat
      BY <1>1, <1>4, <2>2
    <3>2. Told(w) = got[w] + Tells(calls, w) /\ Tells(calls, w) = Tells(rest, w)
      BY <2>4, <3>1 DEF Told
    <3>3. Tells(up, w) = Tells(told, w)
      BY <2>5, <3>1
    <3>4. \A s \in Seq(Calls) : c # NoDocument => Tells(<<n>> \o s, w) = Tells(s, w)
      BY <2>2, <2>6
    <3>5. Told(w) \in Nat
      BY <2>3, <3>1, <3>2
    <3> QED
      BY <2>4, <3>2, <3>3, <3>4, <3>5
<1>8. \A w \in Windows : Told(w)' = Told(w) + (IF w = v THEN 1 ELSE 0)
  <2>1. ASSUME NEW w \in Windows PROVE Told(w)' = Told(w) + (IF w = v THEN 1 ELSE 0)
    <3>1. Tells(calls, w)' = Tells(rest, w) + (IF w = v THEN 1 ELSE 0)
      <4> HIDE DEF h, v, rest, o, e, n, c, told, up, goesUp
      <4> QED
        BY <1>3, <1>4, <1>5, <1>7, <2>1
    <3>2. Tells(rest, w) \in Nat /\ got[w] \in Nat
      BY <1>1, TellsTyped DEF TypeOK
    <3>3. Told(w)' = got[w] + Tells(calls, w)'
      BY <1>1 DEF Told
    <3> HIDE DEF v, rest
    <3> QED
      BY <1>7, <3>1, <3>2, <3>3
  <2> QED
    BY <2>1
<1>9. /\ Behind(rest)
      /\ \A w \in Windows : Told(w) <= Most(calls)
      /\ Told(v) <= Most(calls) - 1
      /\ \A w \in Within(v) : Told(w) <= Most(calls) - 1
      /\ goesUp => Len(calls) = 1 /\ \A w \in Windows : Told(w) = 0
  BY <1>1 DEF TellingKept
<1>10. c # NoDocument => Within(c) \cup {c} \subseteq Within(v) /\ v \notin Within(c) \cup {c}
  BY <1>2, FramesAreWithin, ParentIsNotWithin
<1>11. Within(v) \subseteq Windows /\ (c # NoDocument => Within(c) \cup {c} \subseteq Windows)
  BY <1>2 DEF Within
<1>12. \A s : Most(s) \in {1, 2}
  BY DEF Most
<1>13. \A w \in Windows : Told(w) \in Nat
  BY <1>7
<1>14. CASE ~goesUp
  <2>1. CASE c = NoDocument
    <3>1. calls' = told
      BY <1>3, <1>14, <2>1
    <3> HIDE DEF h, v, rest, o, e, n, c
    <3>2. Most(told) = Most(calls)
      BY <1>1, <1>2, MostCons
    <3> HIDE DEF told
    <3>3. \A w \in Windows : Told(w)' <= Most(calls')
      BY <1>1, <1>8, <1>9, <1>12, <1>13, <3>1, <3>2
    <3> QED
      BY <1>2, <1>4, <1>9, <3>1, <3>3 DEF TellingKept
  <2>2. CASE c # NoDocument
    <3>1. calls' = <<n>> \o told /\ calls' # <<>> /\ Head(calls') = n /\ Tail(calls') = told
      BY <1>3, <1>4, <1>6, <1>14, <2>2
    <3> HIDE DEF h, v, rest, o, e, n, c
    <3>2. Most(calls') = Most(calls) /\ Behind(told)
      BY <1>1, <1>2, <1>9, <2>2, <3>1, MostCons, BehindCons
    <3> HIDE DEF told
    <3>3. \A w \in Windows : Told(w)' <= Most(calls')
      BY <1>1, <1>8, <1>9, <1>12, <1>13, <3>2
    <3>4. \A w \in Within(c) \cup {c} : Told(w)' <= Most(calls') - 1
      <4>1. ASSUME NEW w \in Within(c) \cup {c} PROVE Told(w)' <= Most(calls') - 1
        <5>1. w \in Windows /\ w # v /\ Told(w) <= Most(calls) - 1
          BY <1>9, <1>10, <1>11, <2>2, <4>1
        <5> QED
          BY <1>8, <1>12, <1>13, <3>2, <5>1
      <4> QED
        BY <4>1
    <3> QED
      BY <1>2, <3>1, <3>2, <3>3, <3>4 DEF TellingKept
  <2> QED
    BY <2>1, <2>2
<1>15. CASE goesUp
  <2>1. rest = <<>> /\ \A w \in Windows : Told(w)' = IF w = v THEN 1 ELSE 0
    <3>1. rest = <<>>
      <4>1. Len(calls) = 1
        BY <1>9, <1>15
      <4>2. Len(calls) = Len(rest) + 1 /\ Len(rest) \in Nat
        BY <1>1, HeadThenTail DEF TypeOK
      <4> HIDE DEF rest
      <4>3. Len(rest) = 0
        BY <4>1, <4>2
      <4> QED
        BY <1>1, <4>3, EmptySeq
    <3> HIDE DEF v, rest
    <3> QED
      BY <1>8, <1>9, <1>15, <3>1
  <2>2. Len(told) = 1 /\ told[1] = o /\ Len(up) = 2 /\ up[1] = e /\ up[2] = o
    <3>1. Len(told) = 1 /\ told[1] = o
      <4>1. <<o>> \in Seq(Calls)
        BY <1>2
      <4>2. told = <<o>> \o <<>>
        BY <2>1
      <4>3. told = <<o>>
        BY <4>1, <4>2, ConcatEmptySeq
      <4> HIDE DEF told, o
      <4> QED
        BY <4>3
    <3> HIDE DEF told, o, e
    <3>2. Len(up) = Len(told) + 1 /\ up[1] = e /\ \A i \in 1..Len(told) : up[i + 1] = told[i]
      BY <1>2, <1>4, ConsTyped
    <3>3. up[1 + 1] = told[1] /\ 1 + 1 = 2
      BY <3>1, <3>2
    <3> HIDE DEF up
    <3> QED
      BY <3>1, <3>2, <3>3
  <2> HIDE DEF told, up
  <2>3. CASE c = NoDocument
    <3>1. calls' = up /\ Most(up) = 2
      BY <1>3, <1>15, <2>2, <2>3 DEF Most
    <3>2. Behind(told)
      BY <1>2, <2>2 DEF Behind
    <3>3. \A w \in Windows : Told(w)' <= 1
      BY <2>1
    <3>4. Within(e.win) \cup {e.win} \subseteq Windows
      BY <1>1, <1>2, WindowsAssumption DEF Within
    <3> HIDE DEF h, v, rest, o, e, n, c
    <3>5. (\A w \in Windows : Told(w)' <= Most(calls'))
          /\ (\A w \in Within(e.win) \cup {e.win} : Told(w)' <= Most(calls') - 1)
      BY <2>1, <3>1, <3>3, <3>4
    <3> QED
      BY <1>2, <1>5, <3>1, <3>2, <3>5 DEF TellingKept
  <2>4. CASE c # NoDocument
    <3>1. calls' = <<n>> \o up /\ calls' # <<>> /\ Head(calls') = n /\ Tail(calls') = up
      BY <1>3, <1>5, <1>6, <1>15, <2>4
    <3>2. Behind(up)
      <4>1. \A i \in 1..2 : i = 1 \/ i = 2
        OBVIOUS
      <4> HIDE DEF h, v, rest, o, e, n, c
      <4> QED
        BY <1>2, <2>2, <4>1 DEF Behind
    <3> HIDE DEF h, v, rest, o, e, n, c
    <3>3. \A w \in Windows : Told(w)' <= Most(calls')
      BY <1>12, <2>1
    <3>4. \A w \in Within(c) \cup {c} : Told(w)' <= Most(calls') - 1
      BY <1>10, <1>11, <1>12, <2>1, <2>4
    <3> QED
      BY <1>2, <3>1, <3>2, <3>3, <3>4 DEF TellingKept
  <2> QED
    BY <2>3, <2>4
<1> QED
  BY <1>14, <1>15

\* An event is heard and goes on, or returns.
LEMMA HearKeepsTelling ==
  ASSUME TypeOK, TellingKept, Hear
  PROVE  TellingKept'
<1> DEFINE h == Head(calls)
           v == Head(calls).win
           rest == Tail(calls)
           r == Relayed(v, OtherSource(v))
<1>1. /\ calls # <<>> /\ h \in Calls /\ v \in Windows /\ rest \in Seq(Calls)
      /\ calls = <<h>> \o rest /\ h.do = "event" /\ got' = got
  BY NextCall, HeadThenTail DEF Hear, Call, TypeOK
<1>2. CASE listens[v]
  <2>1. calls' = <<r>> \o rest /\ r.do = "relay" /\ r.win = v /\ (v = Top \/ r.source = "portal")
    BY <1>2 DEF Hear, Relayed, OtherSource
  <2>2. r \in Calls
    BY <1>1, CallTypes DEF OtherSource
  <2> QED
    BY <1>1, <2>1, <2>2, GoingOnKeepsTelling
<1>3. CASE ~listens[v]
  <2>1. calls' = rest
    <3>1. calls' = <<>> \o rest
      BY <1>3 DEF Hear
    <3> QED
      BY <1>1, <3>1, ConcatEmptySeq
  <2>2. ASSUME NEW w \in Windows PROVE Told(w)' <= Told(w) /\ Told(w)' \in Nat
    <3>1. Same(h, ObserversOf(w)) = 0
      BY <1>1 DEF Same, ObserversOf
    <3>2. Tells(rest, w) \in Nat /\ got[w] \in Nat
      BY <1>1, TellsTyped DEF TypeOK
    <3>3. Tells(calls, w) = Tells(rest, w) + 0
      <4> HIDE DEF h, rest
      <4> QED
        BY <1>1, <3>1, TellsCons
    <3>4. Told(w)' = got[w] + Tells(rest, w) /\ Told(w) = got[w] + Tells(calls, w)
      BY <1>1, <2>1 DEF Told
    <3> HIDE DEF rest, Told
    <3> QED
      BY <3>2, <3>3, <3>4
  <2> QED
    BY <1>1, <2>1, <2>2, ReturnKeepsTelling
<1> QED
  BY <1>2, <1>3

\* Observers that are told are not waiting any more.
LEMMA TellObserversKeepsTelling ==
  ASSUME TypeOK, TellingKept, TellObservers
  PROVE  TellingKept'
<1> DEFINE h == Head(calls)
           v == Head(calls).win
           rest == Tail(calls)
<1>1. /\ calls # <<>> /\ h \in Calls /\ v \in Windows /\ rest \in Seq(Calls)
      /\ calls = <<h>> \o rest /\ h.do = "observers" /\ calls' = rest
  BY NextCall, HeadThenTail, SameContent DEF TellObservers, Call, TypeOK
<1>2. h = ObserversOf(v)
  BY <1>1 DEF Calls, ObserversOf
<1>3. ASSUME NEW w \in Windows PROVE Told(w)' <= Told(w) /\ Told(w)' \in Nat
  <2>1. Same(h, ObserversOf(w)) = IF w = v THEN 1 ELSE 0
    BY <1>2 DEF Same, ObserversOf
  <2>2. Tells(rest, w) \in Nat /\ got[w] \in Nat
    BY <1>1, TellsTyped DEF TypeOK
  <2>3. Tells(calls, w) = Tells(rest, w) + (IF w = v THEN 1 ELSE 0)
    <3> HIDE DEF h, rest, v
    <3> QED
      BY <1>1, <2>1, TellsCons
  <2>4. Told(w)' = got'[w] + Tells(rest, w) /\ Told(w) = got[w] + Tells(calls, w)
    BY <1>1 DEF Told
  <2>5. got'[w] \in Nat /\ got'[w] <= got[w] + (IF w = v THEN 1 ELSE 0)
    <3>1. got'[w] = IF w = v /\ listens[v] THEN got[w] + 1 ELSE got[w]
      BY <1>1 DEF TellObservers, TypeOK
    <3> HIDE DEF v
    <3> QED
      BY <2>2, <3>1
  <2> HIDE DEF rest, v, Told
  <2> QED
    BY <2>2, <2>3, <2>4, <2>5
<1> QED
  BY <1>1, <1>3, ReturnKeepsTelling

\* Nobody is told of a message more than twice, in any composition of pages.
THEOREM NobodyIsToldThrice == Spec => []NoEchoStorm
<1> USE WindowsAssumption
<1>1. \A w \in Windows : got[w] = 0 /\ calls = <<>> => Told(w) = 0
  BY UptoTyped DEF Told, Tells
<1>2. Init => TellingKept
  <2> SUFFICES ASSUME Init PROVE TellingKept
    OBVIOUS
  <2>1. calls = <<>> /\ \A w \in Windows : Told(w) = 0
    BY <1>1 DEF Init, Untold
  <2>2. Most(calls) \in {1, 2}
    BY DEF Most
  <2> QED
    BY <2>1, <2>2 DEF TellingKept
<1>3. TypeOK /\ KnowsOwnFrames /\ TellingKept /\ [Next]_vars => TellingKept'
  <2> SUFFICES ASSUME TypeOK, KnowsOwnFrames, TellingKept, [Next]_vars PROVE TellingKept'
    OBVIOUS
  <2>1. ASSUME NEW w \in Windows, Open(w) \/ Remove(w) \/ FrameLoaded(w) \/ Observe(w) PROVE TellingKept'
    <3>1. calls' = <<>> /\ \A v \in Windows : got'[v] = 0
      BY <2>1 DEF Open, Remove, FrameLoaded, Observe, Forget, Untold
    <3>2. \A v \in Windows : Told(v)' = 0
      BY <3>1, UptoTyped DEF Told, Tells
    <3>3. Most(calls') \in {1, 2}
      BY DEF Most
    <3> QED
      BY <3>1, <3>2, <3>3 DEF TellingKept
  <2>2. ASSUME NEW w \in Windows, Publish(w) PROVE TellingKept'
    <3> DEFINE r == Relayed(w, Source(w))
    <3>1. calls' = <<r>> /\ \A v \in Windows : got'[v] = 0
      BY <2>2 DEF Publish, Untold
    <3>2. r \in Calls /\ r.win = w
      BY CallTypes DEF Source, Relayed
    <3>3. ASSUME NEW v \in Windows PROVE Told(v)' = 0
      <4>1. <<r>> = <<r>> \o <<>> /\ <<>> \in Seq(Calls)
        BY <3>2
      <4>2. Same(r, ObserversOf(v)) = 0
        BY DEF Same, Relayed, ObserversOf
      <4>3. Tells(<<>>, v) = 0
        BY UptoTyped DEF Tells
      <4>4. Tells(<<r>>, v) = 0 + 0
        <5> HIDE DEF r
        <5> QED
          <6>1. Tells(<<r>> \o <<>>, v) = Tells(<<>>, v) + Same(r, ObserversOf(v))
            BY <3>2, <4>1, TellsCons
          <6>2. Tells(<<r>> \o <<>>, v) = 0 + 0
            BY <4>2, <4>3, <6>1
          <6> QED
            BY <4>1, <6>2
      <4> QED
        BY <3>1, <4>4 DEF Told
    <3> HIDE DEF r
    <3>4. /\ calls' # <<>> /\ Tail(calls') = <<>> /\ Head(calls') = r /\ Len(calls') = 1
          /\ Most(calls') = 2
      BY <3>1, <3>2 DEF Most
    <3>5. Behind(<<>>)
      BY DEF Behind
    <3>6. Within(w) \cup {w} \subseteq Windows
      BY DEF Within
    <3> QED
      <4>1. \A v \in Windows : Told(v)' <= Most(calls') /\ Told(v)' <= Most(calls') - 1
        BY <3>3, <3>4
      <4>2. \A v \in Within(Head(calls').win) \cup {Head(calls').win} :
              Told(v)' <= Most(calls') - 1
        BY <3>2, <3>4, <3>6, <4>1
      <4>3. Behind(Tail(calls'))
        BY <3>4, <3>5
      <4> QED
        BY <3>3, <3>4, <4>1, <4>2, <4>3 DEF TellingKept
  <2>3. CASE UNCHANGED vars
    BY <2>3 DEF vars, TellingKept, Told
  <2> QED
    BY <2>1, <2>2, <2>3, RelayKeepsTelling, HearKeepsTelling, TellObserversKeepsTelling DEF Next
<1>4. TypeOK /\ TellingKept => NoEchoStorm
  <2> SUFFICES ASSUME TypeOK, TellingKept, NEW w \in Windows
               PROVE  got[w] + Cardinality({i \in DOMAIN calls : calls[i] = ObserversOf(w)}) <= 2
    BY DEF NoEchoStorm
  <2>1. Told(w) <= 2
    <3>1. Told(w) <= Most(calls) /\ Most(calls) \in {1, 2} /\ Told(w) \in Nat
      <4>1. calls \in Seq(Calls) /\ got[w] \in Nat
        BY DEF TypeOK
      <4>2. Tells(calls, w) \in Nat
        BY <4>1, TellsTyped
      <4> QED
        BY <4>1, <4>2 DEF TellingKept, Most, Told
    <3> HIDE DEF Told, Most
    <3> QED
      BY <3>1
  <2>2. DOMAIN calls = 1..Len(calls)
    BY DEF TypeOK
  <2> QED
    BY <2>1, <2>2 DEF Told, Tells, Upto
<1> QED
  BY <1>2, <1>3, <1>4, TypeCorrect, MessengersKnowTheirFrames, PTL DEF Spec

-----------------------------------------------------------------------------
(* How often everybody is told in all.                                      *)

\* The pages below w are w itself, and those below the page in its frame.
LEMMA BelowFromContent ==
  ASSUME TypeOK, NEW w \in Windows, NEW v \in Windows
  PROVE  v \in Below(w) <=>
           \/ v = w
           \/ content[w] # NoDocument /\ listens[content[w]] /\ v \in Below(content[w])
<1> DEFINE c == content[w]
           heard == c # NoDocument /\ listens[c]
           Closed(S) ==
             \A x \in S : content[x] # NoDocument /\ listens[content[x]] => content[x] \in S
           All == {w} \cup (IF heard THEN Below(c) ELSE {})
<1>1. c # NoDocument => c \in Windows
  BY ContentTyped
<1>2. ASSUME NEW x \in Windows
      PROVE  Below(x) \subseteq Windows /\ x \in Below(x) /\ Closed(Below(x))
  BY <1>2, ContentTyped DEF Below
<1>3. All \in SUBSET Windows /\ w \in All /\ Closed(All)
  <2>1. All \in SUBSET Windows /\ w \in All
    BY <1>1, <1>2
  <2>2. ASSUME NEW x \in All, content[x] # NoDocument, listens[content[x]]
        PROVE  content[x] \in All
    <3>1. CASE x = w
      BY <1>1, <1>2, <2>2, <3>1
    <3>2. CASE x # w
      <4>1. heard /\ x \in Below(c) /\ c \in Windows
        BY <1>1, <2>2, <3>2
      <4>2. content[x] \in Below(c)
        BY <1>2, <2>2, <4>1
      <4> QED
        BY <4>1, <4>2
    <3> QED
      BY <3>1, <3>2
  <2> HIDE DEF All
  <2> QED
    BY <2>1, <2>2
<1>4. ASSUME v \in Below(w) PROVE v \in All
  <2> HIDE DEF All
  <2> QED
    BY <1>3, <1>4 DEF Below
<1>5. ASSUME heard, v \in Below(c) PROVE v \in Below(w)
  <2>1. ASSUME NEW S \in SUBSET Windows, w \in S, Closed(S) PROVE v \in S
    <3>1. c \in S
      BY <1>5, <2>1
    <3> QED
      BY <1>5, <2>1, <3>1 DEF Below
  <2> QED
    BY <2>1 DEF Below
<1> QED
  BY <1>2, <1>4, <1>5

\* A message that goes down does not come back to the page it came through.
LEMMA NotBelowItself ==
  ASSUME TypeOK, KnowsOwnFrames, NEW w \in Windows, content[w] # NoDocument
  PROVE  w \notin Below(content[w])
<1> DEFINE c == content[w]
           S == Within(c) \cup {c}
<1>1. c \in Windows /\ c # Top /\ Parent[c] = w
  BY ContentTyped, ContentIsOwnFrame
<1>2. S \in SUBSET Windows /\ c \in S
  BY <1>1 DEF Within
<1>3. ASSUME NEW x \in S, content[x] # NoDocument PROVE content[x] \in S
  <2>1. /\ x \in Windows /\ content[x] \in Windows
        /\ content[x] # Top /\ Parent[content[x]] = x
    BY <1>2, <1>3, ContentTyped, ContentIsOwnFrame
  <2> QED
    BY <1>1, <1>3, <2>1, WithinIsClosed
<1>4. Below(c) \subseteq S
  <2> HIDE DEF S
  <2> QED
    BY <1>2, <1>3 DEF Below
<1> QED
  BY <1>1, <1>4, ParentIsNotWithin

\* The calls that end in observers of v being told, on their way down, ...
Downward(v) ==
  {x \in Calls :
     \/ x.do = "observers" /\ x.win = v
     \/ x.do = "relay" /\ v \in Below(x.win)
     \/ x.do = "event" /\ listens[x.win] /\ v \in Below(x.win)}

\* ... and those that do because a page around listens and relays it back.
Echoing(v) ==
  {x \in Calls :
     /\ x.do = "relay" /\ x.win # Top /\ x.source # "portal"
     /\ listens[Parent[x.win]] /\ v \in Below(Parent[x.win])}

\* How often v will be told by what is left to do, if it listens.
Due(s, v) == Among(s, Downward(v), Len(s)) + Among(s, Echoing(v), Len(s))

Owes(x, v) == In(x, Downward(v)) + In(x, Echoing(v))

\* Every page that listens has been told, or will be by the calls under way,
\* exactly as often as the message reaches it; nobody else has been told.
DeliveryKept ==
  pub # Nobody =>
    /\ pub \in Windows
    /\ \A v \in Windows :
         IF listens[v] THEN got[v] + Due(calls, v) = Times(pub, v) ELSE got[v] = 0

LEMMA DueTyped == ASSUME NEW s \in Seq(Calls), NEW v PROVE Due(s, v) \in Nat
BY AmongTyped DEF Due

LEMMA DueNothing == \A v : Due(<<>>, v) = 0
BY AmongTyped DEF Due

LEMMA DueCons ==
  ASSUME NEW s \in Seq(Calls), NEW y \in Calls, NEW v
  PROVE  Due(<<y>> \o s, v) = Due(s, v) + Owes(y, v)
<1> DEFINE t == <<y>> \o s
<1>1. Len(t) = Len(s) + 1 /\ Len(s) \in 0..Len(s) /\ Len(s) \in Nat
  BY ConsTyped
<1>2. \A X : Among(t, X, Len(s) + 1) = Among(s, X, Len(s)) + In(y, X)
  BY <1>1, AmongCons
<1>3. \A X : Among(s, X, Len(s)) \in Nat /\ In(y, X) \in Nat
  BY <1>1, AmongTyped DEF In
<1> HIDE DEF t
<1>4. Due(t, v) = Due(s, v) + Owes(y, v)
  BY <1>1, <1>2, <1>3 DEF Due, Owes
<1> QED
  BY <1>4 DEF t

\* What one call still has to tell.
LEMMA OwesOfCalls ==
  ASSUME TypeOK, NEW w \in Windows, NEW v \in Windows
  PROVE  /\ Owes(ObserversOf(w), v) = IF w = v THEN 1 ELSE 0
         /\ Owes(EventAt(w), v) = IF listens[w] /\ v \in Below(w) THEN 1 ELSE 0
         /\ \A source \in {"portal", "content"} :
              Owes(Relayed(w, source), v) =
                (IF v \in Below(w) THEN 1 ELSE 0)
                + (IF /\ w # Top /\ source # "portal"
                      /\ listens[Parent[w]] /\ v \in Below(Parent[w]) THEN 1 ELSE 0)
<1>1. /\ ObserversOf(w) \in Calls /\ EventAt(w) \in Calls
      /\ \A source \in {"portal", "content"} : Relayed(w, source) \in Calls
  BY DEF ObserversOf, EventAt, Relayed, Calls
<1>2. Owes(ObserversOf(w), v) = IF w = v THEN 1 ELSE 0
  <2>1. ObserversOf(w).do = "observers" /\ ObserversOf(w).win = w
    BY DEF ObserversOf
  <2>2. (ObserversOf(w) \in Downward(v) <=> w = v) /\ ObserversOf(w) \notin Echoing(v)
    BY <1>1, <2>1 DEF Downward, Echoing
  <2> QED
    BY <2>2 DEF Owes, In
<1>3. Owes(EventAt(w), v) = IF listens[w] /\ v \in Below(w) THEN 1 ELSE 0
  <2>1. EventAt(w).do = "event" /\ EventAt(w).win = w
    BY DEF EventAt
  <2>2. /\ EventAt(w) \in Downward(v) <=> listens[w] /\ v \in Below(w)
        /\ EventAt(w) \notin Echoing(v)
    BY <1>1, <2>1 DEF Downward, Echoing
  <2> QED
    BY <2>2 DEF Owes, In
<1>4. ASSUME NEW source \in {"portal", "content"}
      PROVE  Owes(Relayed(w, source), v) =
                (IF v \in Below(w) THEN 1 ELSE 0)
                + (IF /\ w # Top /\ source # "portal"
                      /\ listens[Parent[w]] /\ v \in Below(Parent[w]) THEN 1 ELSE 0)
  <2> DEFINE r == Relayed(w, source)
  <2>1. r.do = "relay" /\ r.win = w /\ r.source = source /\ r \in Calls
    BY <1>1 DEF Relayed
  <2> HIDE DEF r
  <2>2. /\ r \in Downward(v) <=> v \in Below(w)
        /\ r \in Echoing(v) <=> /\ w # Top /\ source # "portal"
                                /\ listens[Parent[w]] /\ v \in Below(Parent[w])
    BY <2>1 DEF Downward, Echoing
  <2>3. Owes(r, v) = (IF v \in Below(w) THEN 1 ELSE 0)
                + (IF /\ w # Top /\ source # "portal"
                      /\ listens[Parent[w]] /\ v \in Below(Parent[w]) THEN 1 ELSE 0)
    BY <2>2 DEF Owes, In
  <2> QED
    BY <2>3 DEF r
<1> QED
  BY <1>2, <1>3, <1>4

\* While a message goes round, what is to be told depends on the same pages.
LEMMA SamePages ==
  ASSUME UNCHANGED <<listens, content>>
  PROVE  \A v : /\ \A s : Due(s, v)' = Due(s', v)
                /\ \A p \in Windows : Times(p, v)' = Times(p, v)
<1>1. \A w : Below(w)' = Below(w)
  BY DEF Below
<1>2. ASSUME NEW v PROVE Downward(v)' = Downward(v) /\ Echoing(v)' = Echoing(v)
  BY <1>1 DEF Downward, Echoing
<1>3. ASSUME NEW v, NEW p \in Windows PROVE Times(p, v)' = Times(p, v)
  BY <1>1 DEF Times
<1>4. ASSUME NEW v, NEW s PROVE Due(s, v)' = Due(s', v)
  BY <1>2 DEF Due, Among
<1> QED
  BY <1>3, <1>4

\* A call is done: what it owed is told, or owed by the calls it made.
LEMMA CallKeepsDelivery ==
  ASSUME DeliveryKept, UNCHANGED <<listens, content, pub>>,
         \A v \in Windows :
           IF listens[v] THEN got'[v] + Due(calls', v) = got[v] + Due(calls, v)
                         ELSE got'[v] = got[v]
  PROVE  DeliveryKept'
<1>1. ASSUME pub # Nobody, NEW v \in Windows
      PROVE  IF listens[v] THEN got'[v] + Due(calls', v) = Times(pub, v) ELSE got'[v] = 0
  BY <1>1 DEF DeliveryKept
<1>2. ASSUME pub # Nobody, NEW v \in Windows
      PROVE  Due(calls, v)' = Due(calls', v) /\ Times(pub, v)' = Times(pub, v)
  <2>1. pub \in Windows
    BY <1>2 DEF DeliveryKept
  <2>2. Times(pub, v)' = Times(pub', v)
    BY SamePages, <2>1 DEF Times, Below
  <2> QED
    BY <2>1, <2>2, SamePages
<1> QED
  BY <1>1, <1>2 DEF DeliveryKept, Nobody

\* What a relay owes is what the events it makes and its observers owe: the
\* pages below are below the content, or the page itself and not both.
LEMMA RelayKeepsDelivery ==
  ASSUME TypeOK, KnowsOwnFrames, DeliveryKept, Relay
  PROVE  DeliveryKept'
<1> DEFINE h == Head(calls)
           w == Head(calls).win
           source == Head(calls).source
           rest == Tail(calls)
           o == ObserversOf(w)
           e == EventAt(Parent[w])
           n == EventAt(content[w])
           told == <<o>> \o rest
           goesUp == w # Top /\ source # "portal"
           up == IF goesUp THEN <<e>> \o told ELSE told
           c == content[w]
<1>1. /\ h \in Calls /\ w \in Windows /\ rest \in Seq(Calls) /\ h.do = "relay"
      /\ calls = <<h>> \o rest /\ UNCHANGED <<listens, content, pub, got>>
  BY NextCall, HeadThenTail, SameContent DEF Relay, Call, TypeOK
<1>2. source \in {"portal", "content"} /\ h = Relayed(w, source)
  BY <1>1 DEF Calls, Relayed
<1>3. /\ o \in Calls /\ e \in Calls /\ Parent[w] \in Windows
      /\ c # NoDocument => n \in Calls /\ c \in Windows
  BY <1>1, ContentTyped, WindowsAssumption DEF ObserversOf, EventAt, Calls
<1>4. calls' = IF c # NoDocument THEN <<n>> \o up ELSE up
  BY AfterRelay
<1>5. ASSUME NEW v \in Windows PROVE Due(calls', v) = Due(calls, v)
  <2>1. Owes(o, v) = IF w = v THEN 1 ELSE 0
    BY <1>1, OwesOfCalls
  <2>2. Owes(e, v) = IF listens[Parent[w]] /\ v \in Below(Parent[w]) THEN 1 ELSE 0
    BY <1>3, OwesOfCalls
  <2>3. c # NoDocument => Owes(n, v) = IF listens[c] /\ v \in Below(c) THEN 1 ELSE 0
    BY <1>3, OwesOfCalls
  <2>4. Owes(h, v) = (IF v \in Below(w) THEN 1 ELSE 0)
                + (IF goesUp /\ listens[Parent[w]] /\ v \in Below(Parent[w]) THEN 1 ELSE 0)
    <3>1. Owes(Relayed(w, source), v) = (IF v \in Below(w) THEN 1 ELSE 0)
                + (IF /\ w # Top /\ source # "portal"
                      /\ listens[Parent[w]] /\ v \in Below(Parent[w]) THEN 1 ELSE 0)
      <4> HIDE DEF w, source
      <4> QED
        BY <1>1, <1>2, OwesOfCalls
    <3> QED
      BY <1>2, <3>1
  <2>5. /\ v \in Below(w) <=> v = w \/ (c # NoDocument /\ listens[c] /\ v \in Below(c))
        /\ c # NoDocument => w \notin Below(c)
    <3> HIDE DEF w
    <3> QED
      BY <1>1, BelowFromContent, NotBelowItself
  <2> HIDE DEF h, w, source, rest, o, e, n, told, goesUp, up, c
  <2>6. told \in Seq(Calls) /\ Due(told, v) = Due(rest, v) + Owes(o, v)
    BY <1>1, <1>3, DueCons, ConsTyped DEF told
  <2>7. up \in Seq(Calls) /\ Due(up, v) = Due(told, v) + IF goesUp THEN Owes(e, v) ELSE 0
    <3>1. Due(told, v) \in Nat
      BY <2>6, DueTyped
    <3>2. <<e>> \o told \in Seq(Calls) /\ Due(<<e>> \o told, v) = Due(told, v) + Owes(e, v)
      BY <1>3, <2>6, DueCons, ConsTyped
    <3> QED
      BY <2>6, <3>1, <3>2 DEF up
  <2>8. Due(calls', v) = Due(up, v) + IF c # NoDocument THEN Owes(n, v) ELSE 0
    <3>1. Due(up, v) \in Nat
      BY <2>7, DueTyped
    <3>2. c # NoDocument => Due(<<n>> \o up, v) = Due(up, v) + Owes(n, v)
      BY <1>3, <2>7, DueCons
    <3> QED
      BY <1>4, <3>1, <3>2
  <2>9. Due(calls, v) = Due(rest, v) + Owes(h, v)
    BY <1>1, DueCons
  <2>10. Due(rest, v) \in Nat
    BY <1>1, DueTyped
  <2>11. Owes(h, v) = Owes(o, v) + (IF goesUp THEN Owes(e, v) ELSE 0)
                        + (IF c # NoDocument THEN Owes(n, v) ELSE 0)
    BY ONLY <2>1, <2>2, <2>3, <2>4, <2>5
  <2>12. Owes(o, v) \in Nat /\ Owes(e, v) \in Nat /\ (c # NoDocument => Owes(n, v) \in Nat)
    BY <2>1, <2>2, <2>3
  <2> QED
    BY ONLY <2>6, <2>7, <2>8, <2>9, <2>10, <2>11, <2>12
<1>6. \A v \in Windows : got[v] + Due(calls', v) = got[v] + Due(calls, v)
  <2> HIDE DEF h, rest, o, e, n, told, up
  <2> QED
    BY <1>5
<1> QED
  BY <1>1, <1>6, CallKeepsDelivery

\* A page that listens relays the event down only, as the event owed.
LEMMA HearKeepsDelivery ==
  ASSUME TypeOK, DeliveryKept, Hear
  PROVE  DeliveryKept'
<1> DEFINE h == Head(calls)
           w == Head(calls).win
           rest == Tail(calls)
           r == Relayed(w, OtherSource(w))
<1>1. /\ h \in Calls /\ w \in Windows /\ rest \in Seq(Calls) /\ h.do = "event"
      /\ calls = <<h>> \o rest /\ UNCHANGED <<listens, content, pub, got>>
      /\ calls' = (IF listens[w] THEN <<r>> ELSE <<>>) \o rest
  BY NextCall, HeadThenTail, SameContent DEF Hear, Call, TypeOK
<1>2. h = EventAt(w)
  BY <1>1 DEF Calls, EventAt
<1>3. OtherSource(w) \in {"portal", "content"} /\ (w # Top => OtherSource(w) = "portal")
  BY DEF OtherSource
<1>4. r \in Calls
  BY <1>1, <1>3, CallTypes
<1>5. ASSUME NEW v \in Windows PROVE Due(calls', v) = Due(calls, v)
  <2>1. Owes(h, v) = IF listens[w] /\ v \in Below(w) THEN 1 ELSE 0
    BY <1>1, <1>2, OwesOfCalls
  <2>2. Owes(r, v) = (IF v \in Below(w) THEN 1 ELSE 0)
                + (IF /\ w # Top /\ OtherSource(w) # "portal"
                      /\ listens[Parent[w]] /\ v \in Below(Parent[w]) THEN 1 ELSE 0)
    <3> HIDE DEF w
    <3> QED
      BY <1>1, <1>3, OwesOfCalls
  <2>3. Owes(r, v) = IF v \in Below(w) THEN 1 ELSE 0
    BY ONLY <1>3, <2>2
  <2> HIDE DEF h, w, rest, r
  <2>4. Due(calls, v) = Due(rest, v) + Owes(h, v) /\ Due(rest, v) \in Nat
    BY <1>1, DueCons, DueTyped
  <2>5. CASE listens[w]
    <3>1. Due(calls', v) = Due(rest, v) + Owes(r, v)
      BY <1>1, <1>4, <2>5, DueCons
    <3> QED
      BY <2>1, <2>3, <2>4, <2>5, <3>1
  <2>6. CASE ~listens[w]
    <3>1. calls' = rest
      BY <1>1, <2>6, ConcatEmptySeq
    <3> QED
      BY <2>1, <2>4, <2>6, <3>1
  <2> QED
    BY <2>5, <2>6
<1>6. \A v \in Windows : got[v] + Due(calls', v) = got[v] + Due(calls, v)
  <2> HIDE DEF h, rest, r
  <2> QED
    BY <1>5
<1> QED
  BY <1>1, <1>6, CallKeepsDelivery

\* Observers that were due have been told, if there are any.
LEMMA TellObserversKeepsDelivery ==
  ASSUME TypeOK, DeliveryKept, TellObservers
  PROVE  DeliveryKept'
<1> DEFINE h == Head(calls)
           w == Head(calls).win
           rest == Tail(calls)
<1>1. /\ h \in Calls /\ w \in Windows /\ rest \in Seq(Calls) /\ h.do = "observers"
      /\ calls = <<h>> \o rest /\ UNCHANGED <<listens, content, pub>> /\ calls' = rest
      /\ got' = [got EXCEPT ![w] = IF listens[w] THEN @ + 1 ELSE @]
  BY NextCall, HeadThenTail, SameContent DEF TellObservers, Call, TypeOK
<1>2. h = ObserversOf(w)
  BY <1>1 DEF Calls, ObserversOf
<1>3. ASSUME NEW v \in Windows
      PROVE  IF listens[v] THEN got'[v] + Due(calls', v) = got[v] + Due(calls, v)
                           ELSE got'[v] = got[v]
  <2>1. Owes(h, v) = IF w = v THEN 1 ELSE 0
    BY <1>1, <1>2, OwesOfCalls
  <2>2. got'[v] = (IF w = v /\ listens[v] THEN got[v] + 1 ELSE got[v]) /\ got[v] \in Nat
    BY <1>1 DEF TypeOK
  <2> HIDE DEF h, w, rest
  <2>3. Due(calls, v) = Due(rest, v) + Owes(h, v) /\ Due(rest, v) \in Nat
    BY <1>1, DueCons, DueTyped
  <2>4. Due(calls', v) = Due(rest, v)
    BY <1>1
  <2> HIDE DEF Due, Owes
  <2> QED
    BY ONLY <2>1, <2>2, <2>3, <2>4
<1> QED
  BY <1>1, <1>3, CallKeepsDelivery

\* When a publish returns, every page has been told exactly as often as the
\* composition says, whatever pages there are and whichever listen.
THEOREM EveryPageIsToldExactly == Spec => []ExactDelivery
<1> USE WindowsAssumption
<1>1. Init => DeliveryKept
  BY DEF Init, DeliveryKept
<1>2. TypeOK /\ KnowsOwnFrames /\ DeliveryKept /\ [Next]_vars => DeliveryKept'
  <2> SUFFICES ASSUME TypeOK, KnowsOwnFrames, DeliveryKept, [Next]_vars PROVE DeliveryKept'
    OBVIOUS
  <2>1. ASSUME NEW w \in Windows, Open(w) \/ Remove(w) \/ FrameLoaded(w) \/ Observe(w) PROVE DeliveryKept'
    BY <2>1 DEF Open, Remove, FrameLoaded, Observe, Forget, DeliveryKept
  <2>2. ASSUME NEW w \in Windows, Publish(w) PROVE DeliveryKept'
    <3> DEFINE r == Relayed(w, Source(w))
    <3>1. /\ pub' = w /\ w # Nobody /\ calls' = <<r>>
          /\ UNCHANGED <<listens, content>> /\ \A v \in Windows : got'[v] = 0
      BY <2>2, SameContent, WindowsAssumption DEF Publish, Untold, Nobody
    <3>2. /\ Source(w) \in {"portal", "content"} /\ (Source(w) = "portal" <=> w = Top)
          /\ r \in Calls
      BY CallTypes DEF Source
    <3>3. ASSUME NEW v \in Windows, listens[v] PROVE Due(calls', v) = Times(w, v)
      <4>1. Owes(r, v) = Times(w, v)
        <5>1. Owes(r, v) = (IF v \in Below(w) THEN 1 ELSE 0)
                + (IF /\ w # Top /\ Source(w) # "portal"
                      /\ listens[Parent[w]] /\ v \in Below(Parent[w]) THEN 1 ELSE 0)
          BY <3>2, OwesOfCalls
        <5> HIDE DEF r
        <5> QED
          BY <3>2, <3>3, <5>1 DEF Times
      <4>2. <<r>> = <<r>> \o <<>> /\ <<>> \in Seq(Calls)
        BY <3>2
      <4>3. Owes(r, v) \in Nat
        BY DEF Owes, In
      <4> HIDE DEF r
      <4>4. Due(<<r>> \o <<>>, v) = 0 + Owes(r, v)
        BY <3>2, <4>2, DueCons, DueNothing
      <4> QED
        BY <3>1, <4>1, <4>2, <4>3, <4>4
    <3>4. ASSUME NEW v \in Windows, listens[v] PROVE Times(w, v) \in Nat
      BY DEF Times
    <3>5. ASSUME NEW v \in Windows PROVE Due(calls, v)' = Due(calls', v)
      BY <3>1, SamePages
    <3>6. ASSUME NEW v \in Windows PROVE Times(pub, v)' = Times(w, v)
      BY <3>1 DEF Times, Below
    <3> HIDE DEF r
    <3> QED
      BY <3>1, <3>3, <3>4, <3>5, <3>6 DEF DeliveryKept
  <2>3. CASE UNCHANGED vars
    <3>1. UNCHANGED <<listens, content, pub, got, calls>>
      BY <2>3, SameContent DEF vars
    <3> QED
      BY <3>1, CallKeepsDelivery
  <2> QED
    BY <2>1, <2>2, <2>3, RelayKeepsDelivery, HearKeepsDelivery, TellObserversKeepsDelivery
       DEF Next
<1>3. TypeOK /\ DeliveryKept => ExactDelivery
  <2> SUFFICES ASSUME TypeOK, DeliveryKept, calls = <<>>, pub # Nobody, NEW v \in Windows
               PROVE  got[v] = Times(pub, v)
    BY DEF ExactDelivery
  <2>1. Due(calls, v) = 0 /\ got[v] \in Nat
    BY DueNothing DEF TypeOK
  <2> QED
    BY <2>1 DEF DeliveryKept, Times
<1> QED
  BY <1>1, <1>2, <1>3, TypeCorrect, MessengersKnowTheirFrames, PTL DEF Spec
=============================================================================
