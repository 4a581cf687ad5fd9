------------------------------ MODULE Messenger ------------------------------
(***************************************************************************)
(* web/messaging/Messenger.ts: the messengers of a composition of pages.   *)
(* Every page (the portal on top, microservices in iframes within it) has  *)
(* a messenger of its own.  A message goes from page to page as a DOM      *)
(* event on the other page's document, and only a page that has observed   *)
(* the type has a listener for it there.                                   *)
(*                                                                         *)
(* All pages share one thread and dispatchEvent is a call, so a publish is *)
(* one deep call: `calls` is what the thread still has to do, next first.  *)
(* There is one type of messages: types do not interact.                   *)
(***************************************************************************)
EXTENDS Naturals, Sequences, FiniteSets

CONSTANTS
  Windows,      \* the places for a page
  Top,          \* the outermost one, where window.parent = window
  Parent,       \* Parent[w] = window.parent of w
  NoDocument,   \* no document
  MaxOpens,     \* bound: pages opened in one behaviour
  MaxMessages   \* bound: messages published in one behaviour

ASSUME WindowsAssumption ==
  /\ Top \in Windows
  /\ Parent \in [Windows -> Windows]
  /\ \A w \in Windows : Parent[w] = w <=> w = Top
  /\ \A S \in SUBSET Windows : S # {} /\ (\A w \in S : Parent[w] \in S) => Top \in S
  /\ NoDocument \notin Windows
  /\ MaxOpens \in Nat
  /\ MaxMessages \in Nat

VARIABLES
  open,      \* windows with a page in them
  listens,   \* listens[w]: the page in w has observed the type
  loads,     \* loads[w]: pages loaded into w so far; the last is the one shown
  loading,   \* frames whose page is there, and the load event not yet
  contentDocument, \* contentDocument[w]: the document the messenger of w keeps
  calls,     \* what is left of the call of publish, next first
  pub,       \* who published the last message
  got,       \* got[w]: how often observers in w were told of it (history)
  opens,     \* pages opened so far (bound)
  messages   \* messages published so far (bound)

pages == <<open, listens, loads, loading, contentDocument>>
vars == <<pages, calls, pub, got, opens, messages>>

Nobody == NoDocument

\* A document is known by its window and by which of the pages there it is.
Documents == [frame : Windows \cup {NoDocument}, nr : Nat]
NoContent == [frame |-> NoDocument, nr |-> 0]

Calls ==
  [do : {"relay"}, win : Windows, source : {"portal", "content"}]
    \cup [do : {"event", "observers"}, win : Windows]

TypeOK ==
  /\ open \subseteq Windows
  /\ listens \in [Windows -> BOOLEAN]
  /\ loads \in [Windows -> Nat]
  /\ loading \subseteq open \ {Top}
  /\ contentDocument \in [Windows -> Documents]
  /\ calls \in Seq(Calls)
  /\ pub \in Windows \cup {Nobody}
  /\ got \in [Windows -> Nat]
  /\ opens \in Nat
  /\ messages \in Nat

Untold == [w \in Windows |-> 0]

Init ==
  /\ open = {}
  /\ listens = [w \in Windows |-> FALSE]
  /\ loads = Untold
  /\ loading = {}
  /\ contentDocument = [w \in Windows |-> NoContent]
  /\ calls = <<>>
  /\ pub = Nobody
  /\ got = Untold
  /\ opens = 0
  /\ messages = 0

\* The frames of w, the frames in those, and so on.
Within(w) ==
  {v \in Windows :
     \A S \in SUBSET Windows :
       {x \in Windows : x # Top /\ Parent[x] \in S \cup {w}} \subseteq S => v \in S}

\* The account of the last message ends when the pages change.
Forget == pub' = Nobody /\ got' = Untold

-----------------------------------------------------------------------------
(* Between messages: pages come and go, and observe.                       *)

\* The page in w and every frame in it go: their messengers and listeners with
\* them.  A messenger that has the document of one of them keeps it.
Unload(w) ==
  LET gone == Within(w) \cup {w} IN
  /\ listens' = [v \in Windows |-> v \notin gone /\ listens[v]]
  /\ contentDocument' = [v \in Windows |-> IF v \in gone THEN NoContent ELSE contentDocument[v]]

\* A page is loaded into w, with a new messenger, in the place of the one there.
Open(w) ==
  /\ calls = <<>>
  /\ w # Top => Parent[w] \in open
  /\ opens < MaxOpens
  /\ opens' = opens + 1
  /\ Unload(w)
  /\ open' = (open \ Within(w)) \cup {w}
  /\ loads' = [loads EXCEPT ![w] = @ + 1]
  /\ loading' = (loading \ Within(w)) \cup ({w} \ {Top})
  /\ Forget
  /\ UNCHANGED <<calls, messages>>

\* The page around does not render the frame any more.
Remove(w) ==
  /\ calls = <<>>
  /\ w # Top /\ w \in open
  /\ Unload(w)
  /\ open' = open \ (Within(w) \cup {w})
  /\ loading' = loading \ (Within(w) \cup {w})
  /\ Forget
  /\ UNCHANGED <<loads, calls, opens, messages>>

\* A document is set only if there was none.
FrameLoadedFirst(w) ==
  /\ calls = <<>>
  /\ w \in loading
  /\ loading' = loading \ {w}
  /\ contentDocument' = [contentDocument EXCEPT ![Parent[w]] =
                           IF @ = NoContent THEN [frame |-> w, nr |-> loads[w]] ELSE @]
  /\ Forget
  /\ UNCHANGED <<open, listens, loads, calls, opens, messages>>

\* The load event of the iframe, once a load: setCurrentContentDocument.
FrameLoaded(w) ==
  /\ calls = <<>>
  /\ w \in loading
  /\ loading' = loading \ {w}
  /\ contentDocument' = [contentDocument EXCEPT ![Parent[w]] = [frame |-> w, nr |-> loads[w]]]
  /\ Forget
  /\ UNCHANGED <<open, listens, loads, calls, opens, messages>>

\* subscribeTo or observe: ensureDocumentListenerFor, once for a type.
Observe(w) ==
  /\ calls = <<>>
  /\ w \in open
  /\ ~listens[w]
  /\ listens' = [listens EXCEPT ![w] = TRUE]
  /\ Forget
  /\ UNCHANGED <<open, loads, loading, contentDocument, calls, opens, messages>>

-----------------------------------------------------------------------------
(* A message.  Who is told first is the order of the subscribers of        *)
(* _messages: the one of the constructor relays, the observers follow.     *)

Source(w) == IF w = Top THEN "portal" ELSE "content"
OtherSource(w) == IF w = Top THEN "content" ELSE "portal"

Relayed(w, source) == [do |-> "relay", win |-> w, source |-> source]
EventAt(w) == [do |-> "event", win |-> w]
ObserversOf(w) == [do |-> "observers", win |-> w]

Publish(w) ==
  /\ calls = <<>>
  /\ w \in open
  /\ messages < MaxMessages
  /\ messages' = messages + 1
  /\ pub' = w
  /\ got' = Untold
  /\ calls' = <<Relayed(w, Source(w))>>
  /\ UNCHANGED <<pages, opens>>

Call(what) == calls # <<>> /\ Head(calls).do = what

\* The frame whose page hears what is sent to the document kept: the page of a
\* document that is not shown any more hears nothing.
content ==
  [w \in Windows |->
     LET kept == contentDocument[w] IN
     IF kept.frame \in open /\ kept.nr = loads[kept.frame] THEN kept.frame ELSE NoDocument]

ToContent(w) == IF content[w] # NoDocument THEN <<EventAt(content[w])>> ELSE <<>>

\* What came from the portal goes back to it as well.
ToParentAlways(w, source) == IF w # Top THEN <<EventAt(Parent[w])>> ELSE <<>>

\* What came from the portal is not sent back to it.
ToParent(w, source) ==
  IF w # Top /\ source # "portal" THEN <<EventAt(Parent[w])>> ELSE <<>>

\* The observers were subscribed before the relay.
RelayLast ==
  /\ Call("relay")
  /\ LET w == Head(calls).win IN
     calls' = <<ObserversOf(w)>> \o ToContent(w) \o ToParent(w, Head(calls).source)
                \o Tail(calls)
  /\ UNCHANGED <<pages, pub, got, opens, messages>>

\* The subscriber of the constructor.
Relay ==
  /\ Call("relay")
  /\ LET w == Head(calls).win IN
     calls' = ToContent(w) \o ToParent(w, Head(calls).source) \o <<ObserversOf(w)>>
                \o Tail(calls)
  /\ UNCHANGED <<pages, pub, got, opens, messages>>

\* Every page has a listener for every type.
HearAlways ==
  /\ Call("event")
  /\ LET w == Head(calls).win IN
     calls' = <<Relayed(w, OtherSource(w))>> \o Tail(calls)
  /\ UNCHANGED <<pages, pub, got, opens, messages>>

\* A DOM event on the document of a page: heard if there is a listener.
Hear ==
  /\ Call("event")
  /\ LET w == Head(calls).win IN
     calls' = (IF listens[w] THEN <<Relayed(w, OtherSource(w))>> ELSE <<>>) \o Tail(calls)
  /\ UNCHANGED <<pages, pub, got, opens, messages>>

\* The observers of the type in the page, if any.
TellObservers ==
  /\ Call("observers")
  /\ LET w == Head(calls).win IN
     got' = [got EXCEPT ![w] = IF listens[w] THEN @ + 1 ELSE @]
  /\ calls' = Tail(calls)
  /\ UNCHANGED <<pages, pub, opens, messages>>

-----------------------------------------------------------------------------
Next ==
  \/ \E w \in Windows : Open(w) \/ Remove(w) \/ FrameLoaded(w) \/ Observe(w) \/ Publish(w)
  \/ Relay \/ Hear \/ TellObservers

Spec == Init /\ [][Next]_vars

-----------------------------------------------------------------------------
(* Properties.                                                             *)

\* The page in w, the one in the frame its messenger knows if that listens, and
\* so on down.
Below(w) ==
  {v \in Windows :
     \A S \in SUBSET Windows :
       /\ w \in S
       /\ \A x \in S : content[x] # NoDocument /\ listens[content[x]] => content[x] \in S
       => v \in S}

\* How often v must be told of a message that p publishes: once on the way
\* down from p, and once more on the way down from p's parent if that listens.
Times(p, v) ==
  IF ~listens[v] THEN 0
  ELSE (IF v \in Below(p) THEN 1 ELSE 0)
     + (IF p # Top /\ listens[Parent[p]] /\ v \in Below(Parent[p]) THEN 1 ELSE 0)

\* When publish returns, every page has been told exactly as often as the
\* shape of the composition says: no page that can be reached is missed, none
\* that cannot be reached is told, and the echo of the portal comes once.
ExactDelivery ==
  calls = <<>> /\ pub # Nobody => \A v \in Windows : got[v] = Times(pub, v)

\* The echo of a message from below is not relayed up again: whatever the
\* nesting of the pages, nobody is told of a message more than twice, counting
\* those that will be told when the calls under way return.
NoEchoStorm ==
  \A w \in Windows :
    got[w] + Cardinality({i \in DOMAIN calls : calls[i] = ObserversOf(w)}) <= 2

\* Inner pages come first: when the observers in a page are told, those in the
\* frame it knows have been told already, echoes included.
InnerFirst ==
  \A w \in Windows :
    content[w] # NoDocument /\ listens[content[w]] => got[w] <= got[content[w]]

\* A page is shown only within a page that is.  A messenger keeps documents of
\* frames of its own page only, never one of the page that was there before it;
\* and the one it keeps is the one the frame shows, unless the frame has gone or
\* is being loaded: no reload leaves it with a stale document for good.
KnowsOwnFrames ==
  /\ \A w \in open : Parent[w] \in open
  /\ \A w \in Windows :
       contentDocument[w] # NoContent =>
         LET kept == contentDocument[w] IN
         /\ w \in open /\ kept.frame \in Windows \ {Top} /\ Parent[kept.frame] = w
         /\ kept.frame \in open \ loading => kept.nr = loads[kept.frame]

\* The documentation (frontend/navigator.md): a message published within
\* bubbles up to the composition.  With pages that all listen, the outermost
\* page is told of every message.
BubblesUp ==
  calls = <<>> /\ pub # Nobody /\ (\A w \in open : listens[w]) => got[Top] > 0
=============================================================================
