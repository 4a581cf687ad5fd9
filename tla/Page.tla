-------------------------------- MODULE Page --------------------------------
(***************************************************************************)
(* A component of a page that has a view model (react/mvvm) and a view     *)
(* with useFeature, and the routing around it (react/routing,              *)
(* Bootstrapper.tsx).  The component is Routing: its view model pushes the *)
(* paths that other pages navigate to.                                     *)
(*                                                                         *)
(* React 16 renders at once what is set outside of its own event handlers, *)
(* and runs the effects of a render some time after it, but before the     *)
(* next render.  A view model is told of a new route and of new props      *)
(* after the render that they cause.                                       *)
(***************************************************************************)
EXTENDS Naturals, Sequences

CONSTANTS
  Paths,
  Keys, Values,  \* parameters of a route, and what they can be
  Names,         \* features a view can be told to use by its props
  None,          \* no prop, no subscription
  MaxStimuli     \* bound: what the page is told or asked to do

ASSUME PageAssumption ==
  /\ None \notin Names \cup Values
  /\ \A name \in Names \cup {None}, on \in BOOLEAN : [name |-> name, isOn |-> on] # None
  /\ MaxStimuli \in Nat

VARIABLES
  location,     \* history.location: path and parameters
  url,          \* actualUrl in withViewModel
  rendered,     \* the parameters that were rendered last
  component,    \* "mounted" or "absent"
  pending,      \* which effects a render has left to be run
  listening,    \* withViewModel listens to the history
  told,         \* the RouteInfo the view model was told last
  props,        \* the feature the component is given as its prop, if any
  viewProps,    \* the same as the view is given it
  toggles,      \* which features are on
  isOn,         \* the state of useFeature
  subscription, \* the feature and the state useFeature subscribed with
  subscribers,  \* who subscribes to NavigatedTo, in order
  pushes,       \* what is left to push for the message at hand
  missed,       \* the component was not told of the last path (history)
  dropped,      \* parameters were dropped only, since the last call (history)
  stimuli       \* bound

routeVars == <<location, url, rendered, listening, told, missed, dropped>>
propVars == <<props, viewProps>>
featureVars == <<toggles, isOn, subscription>>
messageVars == <<subscribers, pushes>>
vars == <<routeVars, propVars, featureVars, messageVars, component, pending, stimuli>>

\* A path as it is, or below `/_/`, where pages are composed.
Urls == Paths \X {"plain", "composed"}
Params == UNION {[S -> Values] : S \in SUBSET Keys}
NoParams == [k \in {} |-> None]
Effects == {"page", "view"}

TypeOK ==
  /\ location \in [url : Urls, params : Params]
  /\ url \in Urls
  /\ rendered \in Params
  /\ component \in {"mounted", "absent"}
  /\ pending \subseteq Effects
  /\ listening \in BOOLEAN
  /\ told \in [url : Urls, params : Params]
  /\ props \in Names \cup {None}
  /\ viewProps \in Names \cup {None}
  /\ toggles \in [Names -> BOOLEAN]
  /\ isOn \in BOOLEAN
  /\ subscription \in {None} \cup [name : Names \cup {None}, isOn : BOOLEAN]
  /\ subscribers \in Seq({"navigator", "routing"})
  /\ pushes \in Seq(Urls)
  /\ missed \in BOOLEAN
  /\ dropped \in BOOLEAN
  /\ stimuli \in Nat

\* FeatureToggles.isOn: a feature that is not known is off.
IsOn(features, name) == IF name = None THEN FALSE ELSE features[name]
On(name) == IsOn(toggles, name)

\* Bootstrapper renders RouteNavigator in every page; the component may come
\* later.
Init ==
  /\ location \in [url : Paths \X {"plain"}, params : Params]
  /\ url = location.url
  /\ rendered = NoParams
  /\ component = "absent"
  /\ pending = {}
  /\ listening = FALSE
  /\ told = location
  /\ props = None
  /\ viewProps = None
  /\ toggles = [n \in Names |-> FALSE]
  /\ isOn = FALSE
  /\ subscription = None
  /\ subscribers \in {<<>>, <<"navigator">>}
  /\ pushes = <<>>
  /\ missed = FALSE
  /\ dropped = FALSE
  /\ stimuli = 0

\* Everything else waits until a message has been handled.
Stimulus == pushes = <<>> /\ stimuli < MaxStimuli /\ stimuli' = stimuli + 1

-----------------------------------------------------------------------------
(* Mounting and effects.                                                   *)

\* The life cycle manager calls what the view model has: attached and
\* routeChanged come with the route.
Tell(route) == told' = route

\* ViewModelObserver.initialize: the view model is made, and told of the route
\* and the props.  It is RoutingViewModel, which subscribes when it is made.
Mount ==
  /\ Stimulus
  /\ component = "absent"
  /\ component' = "mounted"
  /\ \E name \in Names \cup {None} :
       /\ props' = name
       /\ viewProps' = name
       /\ isOn' = On(name)
  /\ url' = location.url
  /\ rendered' = location.params
  /\ Tell(location)
  /\ pending' = Effects
  /\ subscribers' = Append(subscribers, "routing")
  /\ missed' = FALSE
  /\ dropped' = FALSE
  /\ UNCHANGED <<location, listening, toggles, subscription, pushes>>

\* The subscriptions of the effects end; the one of the view model does not.
Unmount ==
  /\ Stimulus
  /\ component = "mounted"
  /\ component' = "absent"
  /\ pending' = {}
  /\ listening' = FALSE
  /\ subscription' = None
  /\ UNCHANGED <<location, url, rendered, told, missed, dropped, propVars, toggles, isOn,
                 messageVars>>

\* An effect that is run once, when the view is mounted.
SubscribeOnce ==
  subscription' = IF subscription # None THEN subscription ELSE [name |-> viewProps, isOn |-> isOn]

\* useFeature's effect subscribes anew after every render, with what that
\* render had.
Subscribe ==
  subscription' = IF "view" \in pending THEN [name |-> viewProps, isOn |-> isOn] ELSE subscription

\* The subject calls back at once with what it has.
RunEffects ==
  /\ pushes = <<>>
  /\ pending # {}
  /\ Subscribe
  /\ isOn' = IF On(subscription'.name) # subscription'.isOn THEN On(subscription'.name) ELSE isOn
  /\ pending' = IF isOn' # isOn THEN {"view"} ELSE {}
  /\ listening' = TRUE
  /\ UNCHANGED <<location, url, rendered, told, missed, dropped, propVars, toggles,
                 messageVars, component, stimuli>>

\* RouteNavigator subscribes in an effect, once.
RunNavigatorEffect ==
  /\ pushes = <<>>
  /\ \A i \in DOMAIN subscribers : subscribers[i] # "navigator"
  /\ subscribers' = Append(subscribers, "navigator")
  /\ UNCHANGED <<routeVars, propVars, featureVars, pushes, component, pending, stimuli>>

-----------------------------------------------------------------------------
(* Routes.                                                                 *)

\* Only the url and the keys are compared.
RouteChangedByKeys(before, after) ==
  \/ before.url # after.url
  \/ DOMAIN before.params # DOMAIN after.params

\* componentDidUpdate calls routeChanged: the parameters that are there now
\* are compared, and the names of both only for having none in common.
RouteChanged(before, after) ==
  \/ before.url # after.url
  \/ DOMAIN before.params \cap DOMAIN after.params = {}
  \/ \E k \in DOMAIN after.params :
       k \notin DOMAIN before.params \/ before.params[k] # after.params[k]

Render(to) ==
  LET before == [url |-> url, params |-> rendered]
      changed == RouteChanged(before, to)
  IN /\ url' = to.url
     /\ rendered' = to.params
     /\ IF changed THEN Tell(to) ELSE UNCHANGED told
     /\ dropped' = (~changed /\ (dropped \/ DOMAIN to.params # DOMAIN before.params))
     /\ pending' = Effects

\* A link is clicked: React runs what effects there are before the event (as
\* it does before every render), and renders the location and the url together.
FollowLink(to) ==
  /\ Stimulus
  /\ pending = {}
  /\ to # location
  /\ location' = to
  /\ IF component = "mounted" THEN Render(to)
     ELSE UNCHANGED <<url, rendered, told, dropped, pending>>
  /\ missed' = FALSE
  /\ UNCHANGED <<listening, propVars, featureVars, messageVars, component>>

\* NavigatedTo, from this page or from another one (Navigator.ts): every
\* subscriber pushes its path, RoutingViewModel below `/_/`.
NavigatedTo(path) ==
  /\ Stimulus
  /\ pushes' = [i \in DOMAIN subscribers |->
       <<path, IF subscribers[i] = "routing" THEN "composed" ELSE "plain">>]
  /\ UNCHANGED <<routeVars, propVars, featureVars, subscribers, component, pending>>

\* history.push outside of an event handler.  The router renders first, and
\* that runs the effects which are pending: withViewModel listens anew, and
\* misses the push that is being told of.  Otherwise the url is set in a second
\* render, before which the effects of the first are run.
Push ==
  /\ pushes # <<>>
  /\ pushes' = Tail(pushes)
  /\ location' = [url |-> Head(pushes), params |-> NoParams]
  /\ LET heard == listening /\ "page" \notin pending IN
     IF component = "mounted"
     THEN /\ Render([url |-> IF heard THEN Head(pushes) ELSE url, params |-> NoParams])
          /\ IF heard /\ url # Head(pushes)
             THEN subscription' = [name |-> viewProps, isOn |-> On(viewProps)]
             ELSE Subscribe
          /\ isOn' = On(viewProps)
          /\ listening' = TRUE
          /\ missed' = ~heard
     ELSE UNCHANGED <<url, rendered, told, dropped, pending, subscription, isOn, listening, missed>>
  /\ UNCHANGED <<propVars, toggles, subscribers, component, stimuli>>

-----------------------------------------------------------------------------
(* Props, properties and features.                                         *)

\* componentDidUpdate goes through the props there were before: one that is
\* added reaches the view with the next change of it only.
SetProps(name) ==
  /\ Stimulus
  /\ component = "mounted"
  /\ pending = {}
  /\ name # props
  /\ props' = name
  /\ viewProps' = IF props # None THEN name ELSE viewProps
  /\ pending' = Effects
  /\ UNCHANGED <<routeVars, featureVars, messageVars, component>>

\* A property of the view model is set: the component is rendered.  Without
\* parameters the view model is told of its route again, which is the same.
SetProperty ==
  /\ Stimulus
  /\ component = "mounted"
  /\ pending = {}
  /\ pending' = {"view"}
  /\ UNCHANGED <<routeVars, propVars, featureVars, messageVars, component>>

\* New features, outside of an event handler: whoever subscribed is called,
\* and compares with the state of the render it subscribed in.  A new state is
\* rendered, and the effects that are pending are run before that.
Toggle(name) ==
  /\ Stimulus
  /\ toggles' = [toggles EXCEPT ![name] = ~@]
  /\ IF subscription # None /\ IsOn(toggles', subscription.name) # subscription.isOn
     THEN /\ Subscribe
          /\ isOn' = IF "view" \in pending /\ IsOn(toggles', viewProps) # isOn THEN IsOn(toggles', viewProps)
                     ELSE IsOn(toggles', subscription.name)
          /\ listening' = TRUE
          /\ pending' = {"view"}
     ELSE UNCHANGED <<isOn, subscription, listening, pending>>
  /\ UNCHANGED <<location, url, rendered, told, missed, dropped, propVars, messageVars, component>>

-----------------------------------------------------------------------------
Next ==
  \/ Mount \/ Unmount \/ RunEffects \/ RunNavigatorEffect
  \/ \E path \in Paths, params \in Params : FollowLink([url |-> <<path, "plain">>, params |-> params])
  \/ \E path \in Paths : NavigatedTo(path)
  \/ Push \/ SetProperty
  \/ \E name \in Names \cup {None} : SetProps(name)
  \/ \E name \in Names : Toggle(name)

Spec == Init /\ [][Next]_vars

-----------------------------------------------------------------------------
(* Properties.                                                             *)

Quiet == component = "mounted" /\ pushes = <<>>

\* A view model knows the route of its page: the path, unless it changed
\* while effects were pending, and the parameters, unless it lost some of them
\* and nothing else changed.
RouteIsTold ==
  Quiet => /\ missed \/ told.url = location.url
           /\ dropped \/ told.params = location.params

\* useFeature shows what the feature is once the effects have been run,
\* however features, renders and effects take turns.
FeatureIsShown == Quiet /\ pending = {} => isOn = On(viewProps)
=============================================================================
