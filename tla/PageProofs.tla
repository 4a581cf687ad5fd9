------------------------------ MODULE PageProofs ------------------------------
(* Proofs about Page, for any paths, parameters, features and number of       *)
(* stimuli.                                                                   *)
EXTENDS Page, TLAPS

\* The types of the variables, in three groups.
RouteTypes ==
  /\ location \in [url : Urls, params : Params]
  /\ told \in [url : Urls, params : Params]
  /\ url \in Urls
  /\ rendered \in Params
  /\ listening \in BOOLEAN
  /\ missed \in BOOLEAN
  /\ dropped \in BOOLEAN

FeatureTypes ==
  /\ toggles \in [Names -> BOOLEAN]
  /\ isOn \in BOOLEAN
  /\ subscription \in {None} \cup [name : Names \cup {None}, isOn : BOOLEAN]
  /\ props \in Names \cup {None}
  /\ viewProps \in Names \cup {None}

OtherTypes ==
  /\ component \in {"mounted", "absent"}
  /\ pending \subseteq Effects
  /\ subscribers \in Seq({"navigator", "routing"})
  /\ pushes \in Seq(Urls)
  /\ stimuli \in Nat

\* Whenever effects are to be run, those of the view are among them.
ViewPending == pending # {} => "view" \in pending

LEMMA TypeGroups == TypeOK <=> RouteTypes /\ FeatureTypes /\ OtherTypes
BY DEF TypeOK, RouteTypes, FeatureTypes, OtherTypes

LEMMA NoParamsType == NoParams \in Params
<1>1. NoParams \in [{} -> Values]
  BY DEF NoParams
<1> QED
  BY <1>1 DEF Params

LEMMA IsOnType ==
  ASSUME NEW features \in [Names -> BOOLEAN], NEW name \in Names \cup {None}
  PROVE  IsOn(features, name) \in BOOLEAN
BY DEF IsOn

LEMMA EffectsOfView == Spec => []ViewPending
<1>1. Init => ViewPending
  BY DEF Init, ViewPending
<1>2. ViewPending /\ [Next]_vars => ViewPending'
  BY DEF ViewPending, Next, vars, Mount, Unmount, RunEffects, RunNavigatorEffect, FollowLink, Render,
         NavigatedTo, Push, SetProperty, SetProps, Toggle, Effects
<1> QED
  BY <1>1, <1>2, PTL DEF Spec

\* Every variable keeps its type: what is rendered and told are routes, and a
\* subscription is one of a feature.
THEOREM TypeCorrect == Spec => []TypeOK
<1> USE PageAssumption
<1>1. Init => TypeOK
  <2> SUFFICES ASSUME Init PROVE RouteTypes /\ FeatureTypes /\ OtherTypes
    BY TypeGroups
  <2>1. RouteTypes
    <3>1. location \in [url : Urls, params : Params]
      BY DEF Init, Urls
    <3> QED
      BY <3>1, NoParamsType DEF Init, RouteTypes
  <2>2. FeatureTypes
    BY DEF Init, FeatureTypes
  <2>3. OtherTypes
    <3>1. subscribers \in {<<>>, <<"navigator">>}
      BY DEF Init
    <3>2. subscribers \in Seq({"navigator", "routing"})
      <4> DEFINE S == {"navigator", "routing"}
      <4>1. <<>> \in Seq(S) /\ \A x \in S : <<x>> \in Seq(S)
        OBVIOUS
      <4>2. "navigator" \in S
        OBVIOUS
      <4> HIDE DEF S
      <4>3. subscribers \in Seq(S)
        BY <3>1, <4>1, <4>2
      <4> QED
        BY <4>3 DEF S
    <3> QED
      BY <3>2 DEF Init, OtherTypes, Effects, ViewPending
  <2> QED
    BY <2>1, <2>2, <2>3
<1>2. TypeOK /\ ViewPending /\ [Next]_vars => TypeOK'
  <2> SUFFICES ASSUME RouteTypes, FeatureTypes, OtherTypes, ViewPending, [Next]_vars
               PROVE  RouteTypes' /\ FeatureTypes' /\ OtherTypes'
    BY TypeGroups DEF TypeOK, RouteTypes, FeatureTypes, OtherTypes
  <2>1. ASSUME Mount PROVE RouteTypes' /\ FeatureTypes' /\ OtherTypes'
    <3>1. RouteTypes'
      BY <2>1 DEF Mount, Tell, Stimulus, On, RouteTypes
    <3>2. FeatureTypes'
      BY <2>1, IsOnType DEF Mount, Tell, Stimulus, On, FeatureTypes
    <3>3. OtherTypes'
      BY <2>1 DEF Mount, Tell, Stimulus, On, Effects, OtherTypes
    <3> QED
      BY <3>1, <3>2, <3>3
  <2>2. ASSUME Unmount PROVE RouteTypes' /\ FeatureTypes' /\ OtherTypes'
    <3>1. RouteTypes'
      BY <2>2 DEF Unmount, Stimulus, propVars, messageVars, RouteTypes
    <3>2. FeatureTypes'
      BY <2>2 DEF Unmount, Stimulus, propVars, messageVars, FeatureTypes
    <3>3. OtherTypes'
      BY <2>2 DEF Unmount, Stimulus, propVars, messageVars, Effects, OtherTypes
    <3> QED
      BY <3>1, <3>2, <3>3
  <2>3. ASSUME RunEffects PROVE RouteTypes' /\ FeatureTypes' /\ OtherTypes'
    <3>0. subscription' \in {None} \cup [name : Names \cup {None}, isOn : BOOLEAN]
      BY <2>3 DEF RunEffects, Subscribe, FeatureTypes
    <3>8. subscription' = [name |-> viewProps, isOn |-> isOn]
      BY <2>3 DEF RunEffects, Subscribe, ViewPending
    <3>9. isOn' \in BOOLEAN
      <4>1. isOn' \in {isOn, On(viewProps)}
        BY <2>3, <3>8 DEF RunEffects
      <4> QED
        BY <4>1, IsOnType DEF On, FeatureTypes
    <3>1. RouteTypes'
      BY <2>3 DEF RunEffects, Subscribe, propVars, messageVars, RouteTypes
    <3>2. FeatureTypes'
      BY <2>3, <3>0, <3>9 DEF RunEffects, Subscribe, propVars, messageVars, FeatureTypes
    <3>3. OtherTypes'
      BY <2>3 DEF RunEffects, Subscribe, propVars, messageVars, Effects, OtherTypes
    <3> QED
      BY <3>1, <3>2, <3>3
  <2>4. ASSUME RunNavigatorEffect PROVE RouteTypes' /\ FeatureTypes' /\ OtherTypes'
    <3>1. RouteTypes'
      BY <2>4 DEF RunNavigatorEffect, routeVars, propVars, featureVars, RouteTypes
    <3>2. FeatureTypes'
      BY <2>4 DEF RunNavigatorEffect, routeVars, propVars, featureVars, FeatureTypes
    <3>3. OtherTypes'
      BY <2>4 DEF RunNavigatorEffect, routeVars, propVars, featureVars, Effects, OtherTypes
    <3> QED
      BY <3>1, <3>2, <3>3
  <2>5. ASSUME NEW path \in Paths, NEW params \in Params,
               FollowLink([url |-> <<path, "plain">>, params |-> params])
        PROVE RouteTypes' /\ FeatureTypes' /\ OtherTypes'
    <3> DEFINE to == [url |-> <<path, "plain">>, params |-> params]
    <3>1. to \in [url : Urls, params : Params]
      BY DEF Urls
    <3> HIDE DEF to
    <3>2. FollowLink(to)
      BY <2>5 DEF to
    <3>3. RouteTypes'
      BY <3>1, <3>2 DEF FollowLink, Render, Tell, RouteTypes
    <3>4. FeatureTypes'
      BY <3>2 DEF FollowLink, propVars, featureVars, FeatureTypes
    <3>5. OtherTypes'
      BY <3>2 DEF FollowLink, Render, Stimulus, Effects, messageVars, OtherTypes
    <3> QED
      BY <3>3, <3>4, <3>5
  <2>6. ASSUME NEW path \in Paths, NavigatedTo(path) PROVE RouteTypes' /\ FeatureTypes' /\ OtherTypes'
    <3>1. RouteTypes'
      BY <2>6 DEF NavigatedTo, Stimulus, routeVars, propVars, featureVars, RouteTypes
    <3>2. FeatureTypes'
      BY <2>6 DEF NavigatedTo, Stimulus, routeVars, propVars, featureVars, FeatureTypes
    <3>3. OtherTypes'
      BY <2>6 DEF NavigatedTo, Stimulus, routeVars, propVars, featureVars, Effects, OtherTypes, Urls
    <3> QED
      BY <3>1, <3>2, <3>3
  <2>7. ASSUME Push PROVE RouteTypes' /\ FeatureTypes' /\ OtherTypes'
    <3>1. Head(pushes) \in Urls /\ Tail(pushes) \in Seq(Urls)
      BY <2>7 DEF Push, OtherTypes
    <3>2. RouteTypes'
      <4>1. location' \in [url : Urls, params : Params]
        BY <2>7, <3>1, NoParamsType DEF Push
      <4>2. component = "mounted" => \E to \in [url : Urls, params : Params] : Render(to)
        BY <2>7, <3>1, NoParamsType DEF Push, RouteTypes
      <4>3. /\ told' \in [url : Urls, params : Params]
            /\ url' \in Urls /\ rendered' \in Params /\ dropped' \in BOOLEAN
        <5>1. CASE component = "mounted"
          BY <5>1, <4>2 DEF Render, Tell, RouteTypes
        <5>2. CASE component # "mounted"
          BY <5>2, <2>7 DEF Push, RouteTypes
        <5> QED
          BY <5>1, <5>2
      <4> QED
        BY <2>7, <4>1, <4>3 DEF Push, RouteTypes
    <3>3. On(viewProps) \in BOOLEAN
      BY IsOnType DEF On, FeatureTypes
    <3>4. FeatureTypes'
      <4>1. subscription' \in {None} \cup [name : Names \cup {None}, isOn : BOOLEAN]
        BY <2>7, <3>3 DEF Push, Subscribe, FeatureTypes
      <4> QED
        BY <2>7, <3>3, <4>1 DEF Push, propVars, FeatureTypes
    <3>5. OtherTypes'
      BY <2>7, <3>1 DEF Push, Render, Effects, OtherTypes
    <3> QED
      BY <3>2, <3>4, <3>5
  <2>8. ASSUME NEW name \in Names \cup {None}, SetProps(name) PROVE RouteTypes' /\ FeatureTypes' /\ OtherTypes'
    <3>1. RouteTypes'
      BY <2>8 DEF SetProps, Stimulus, routeVars, featureVars, messageVars, RouteTypes
    <3>2. FeatureTypes'
      BY <2>8 DEF SetProps, Stimulus, routeVars, featureVars, messageVars, FeatureTypes
    <3>3. OtherTypes'
      BY <2>8 DEF SetProps, Stimulus, routeVars, featureVars, messageVars, Effects, OtherTypes
    <3> QED
      BY <3>1, <3>2, <3>3
  <2>9. ASSUME SetProperty PROVE RouteTypes' /\ FeatureTypes' /\ OtherTypes'
    <3>1. RouteTypes'
      BY <2>9 DEF SetProperty, Stimulus, routeVars, propVars, featureVars, messageVars, RouteTypes
    <3>2. FeatureTypes'
      BY <2>9 DEF SetProperty, Stimulus, routeVars, propVars, featureVars, messageVars, FeatureTypes
    <3>3. OtherTypes'
      BY <2>9 DEF SetProperty, Stimulus, routeVars, propVars, featureVars, messageVars, Effects, OtherTypes
    <3> QED
      BY <3>1, <3>2, <3>3
  <2>10. ASSUME NEW name \in Names, Toggle(name) PROVE RouteTypes' /\ FeatureTypes' /\ OtherTypes'
    <3>0. subscription' \in {None} \cup [name : Names \cup {None}, isOn : BOOLEAN]
      BY <2>10 DEF Toggle, Subscribe, FeatureTypes
    <3>9. toggles' \in [Names -> BOOLEAN] /\ isOn' \in BOOLEAN
      <4>1. toggles' \in [Names -> BOOLEAN]
        BY <2>10 DEF Toggle, FeatureTypes
      <4>2. IsOn(toggles', viewProps) \in BOOLEAN
        BY <4>1, IsOnType DEF FeatureTypes
      <4>3. subscription # None => IsOn(toggles', subscription.name) \in BOOLEAN
        BY <4>1, IsOnType DEF FeatureTypes
      <4> QED
        BY <2>10, <4>1, <4>2, <4>3 DEF Toggle, FeatureTypes
    <3>1. RouteTypes'
      BY <2>10 DEF Toggle, Stimulus, propVars, messageVars, RouteTypes
    <3>2. FeatureTypes'
      BY <2>10, <3>0, <3>9 DEF Toggle, Stimulus, propVars, messageVars, FeatureTypes
    <3>3. OtherTypes'
      <4>2. component' \in {"mounted", "absent"} /\ stimuli' \in Nat
        BY <2>10 DEF Toggle, Stimulus, OtherTypes
      <4>4. pending' \subseteq Effects
        BY <2>10 DEF Toggle, Effects, OtherTypes
      <4>3. UNCHANGED <<subscribers, pushes>>
        BY <2>10 DEF Toggle, messageVars
      <4> QED
        BY <4>2, <4>3, <4>4 DEF OtherTypes
    <3> QED
      BY <3>1, <3>2, <3>3
  <2>11. CASE UNCHANGED vars
    <3>1. RouteTypes'
      BY <2>11 DEF vars, routeVars, propVars, featureVars, messageVars, RouteTypes
    <3>2. FeatureTypes'
      BY <2>11 DEF vars, routeVars, propVars, featureVars, messageVars, FeatureTypes
    <3>3. OtherTypes'
      BY <2>11 DEF vars, routeVars, propVars, featureVars, messageVars, Effects, OtherTypes
    <3> QED
      BY <3>1, <3>2, <3>3
  <2> QED
    BY <2>1, <2>2, <2>3, <2>4, <2>5, <2>6, <2>7, <2>8, <2>9, <2>10, <2>11 DEF Next
<1> QED
  BY <1>1, <1>2, EffectsOfView, PTL DEF Spec
-----------------------------------------------------------------------------
\* What is known of the route, in every state of a mounted component.
RouteKept ==
  component = "mounted" =>
    /\ told.url = url
    /\ rendered = location.params
    /\ missed \/ url = location.url
    /\ dropped \/ told.params = rendered

\* Once no effects are left, useFeature has subscribed with what was rendered.
FeatureKept ==
  component = "mounted" /\ pending = {} =>
    /\ subscription = [name |-> viewProps, isOn |-> isOn]
    /\ isOn = On(viewProps)

\* Parameters with the same names and values are the same.
LEMMA SameParams ==
  ASSUME NEW p \in Params, NEW q \in Params, DOMAIN p = DOMAIN q,
         \A k \in DOMAIN p : p[k] = q[k]
  PROVE  p = q
<1>1. PICK S \in SUBSET Keys : p \in [S -> Values]
  BY DEF Params
<1>2. PICK T \in SUBSET Keys : q \in [T -> Values]
  BY DEF Params
<1>3. p = [k \in DOMAIN p |-> p[k]] /\ q = [k \in DOMAIN q |-> q[k]]
  BY <1>1, <1>2
<1> QED
  BY <1>3

\* A render that does not tell its route drops parameters, or changes none.
LEMMA RenderKeeps ==
  ASSUME TypeOK, TypeOK', RouteKept, component = "mounted",
         NEW to \in [url : Urls, params : Params], Render(to)
  PROVE  /\ told'.url = url' /\ url' = to.url /\ rendered' = to.params
         /\ dropped' \/ told'.params = rendered'
<1> DEFINE before == [url |-> url, params |-> rendered]
<1>1. url' = to.url /\ rendered' = to.params
  BY DEF Render
<1>2. CASE RouteChanged(before, to)
  BY <1>1, <1>2 DEF Render, Tell
<1>3. CASE ~RouteChanged(before, to)
  <2>1. to.url = url /\ told' = told
    BY <1>3 DEF Render, RouteChanged
  <2>2. ASSUME ~dropped' PROVE to.params = rendered /\ ~dropped
    <3>1. ~dropped /\ DOMAIN to.params = DOMAIN rendered
      BY <1>3, <2>2 DEF Render, TypeOK
    <3>2. \A k \in DOMAIN to.params : to.params[k] = rendered[k]
      BY <1>3 DEF RouteChanged
    <3> QED
      BY <3>1, <3>2, SameParams DEF TypeOK
  <2> QED
    BY <1>1, <2>1, <2>2 DEF RouteKept
<1> QED
  BY <1>2, <1>3

LEMMA RouteKeptInductive == TypeOK /\ TypeOK' /\ RouteKept /\ [Next]_vars => RouteKept'
<1> SUFFICES ASSUME TypeOK, TypeOK', RouteKept, [Next]_vars PROVE RouteKept'
  OBVIOUS
<1>1. ASSUME Mount PROVE RouteKept'
  BY <1>1 DEF Mount, Tell, RouteKept, TypeOK
<1>2. ASSUME NEW path \in Paths, NEW params \in Params,
             FollowLink([url |-> <<path, "plain">>, params |-> params])
      PROVE RouteKept'
  <2> DEFINE to == [url |-> <<path, "plain">>, params |-> params]
  <2>1. to \in [url : Urls, params : Params]
    BY DEF Urls
  <2> HIDE DEF to
  <2>2. FollowLink(to)
    BY <1>2 DEF to
  <2>3. CASE component = "mounted"
    BY <2>1, <2>2, <2>3, RenderKeeps DEF FollowLink, RouteKept
  <2>4. CASE component # "mounted"
    BY <2>2, <2>4 DEF FollowLink, RouteKept
  <2> QED
    BY <2>3, <2>4
<1>3. ASSUME Push PROVE RouteKept'
  <2> DEFINE heard == listening /\ "page" \notin pending
             to == [url |-> IF heard THEN Head(pushes) ELSE url, params |-> NoParams]
  <2>1. to \in [url : Urls, params : Params]
    BY <1>3, NoParamsType DEF Push, TypeOK
  <2>2. location'.url = Head(pushes) /\ location'.params = NoParams /\ UNCHANGED component
    BY <1>3 DEF Push
  <2>3. CASE component = "mounted"
    <3>1. Render(to) /\ missed' = ~heard
      BY <1>3, <2>3 DEF Push
    <3>2. to.params = NoParams /\ (heard => to.url = Head(pushes))
      OBVIOUS
    <3> HIDE DEF to
    <3> QED
      BY <2>1, <2>2, <2>3, <3>1, <3>2, RenderKeeps DEF RouteKept
  <2>4. CASE component # "mounted"
    BY <2>2, <2>4 DEF RouteKept
  <2> QED
    BY <2>3, <2>4
<1>4. ASSUME \/ Unmount
             \/ component' = component /\ UNCHANGED <<routeVars>>
             \/ component' = component /\ UNCHANGED <<location, url, rendered, told, missed, dropped>>
      PROVE RouteKept'
  BY <1>4 DEF Unmount, routeVars, RouteKept
<1>5. ASSUME \/ RunEffects \/ RunNavigatorEffect \/ SetProperty
             \/ \E path \in Paths : NavigatedTo(path)
             \/ \E name \in Names \cup {None} : SetProps(name)
             \/ \E name \in Names : Toggle(name)
             \/ UNCHANGED vars
      PROVE RouteKept'
  BY <1>4, <1>5 DEF RunEffects, RunNavigatorEffect, SetProperty, NavigatedTo, SetProps,
                    Toggle, vars, routeVars
<1> QED
  BY <1>1, <1>2, <1>3, <1>4, <1>5 DEF Next

LEMMA FeatureKeptInductive ==
  TypeOK /\ TypeOK' /\ ViewPending /\ FeatureKept /\ [Next]_vars => FeatureKept'
<1> SUFFICES ASSUME TypeOK, TypeOK', ViewPending, FeatureKept, [Next]_vars,
                    component' = "mounted", pending' = {}
             PROVE  /\ subscription' = [name |-> viewProps', isOn |-> isOn']
                    /\ isOn' = IsOn(toggles', viewProps')
  BY DEF FeatureKept, On
<1>1. ASSUME RunEffects
      PROVE  /\ subscription' = [name |-> viewProps', isOn |-> isOn']
             /\ isOn' = IsOn(toggles', viewProps')
  <2>1. "view" \in pending
    BY <1>1 DEF RunEffects, ViewPending
  <2>2. subscription' = [name |-> viewProps, isOn |-> isOn]
    BY <1>1, <2>1 DEF RunEffects, Subscribe
  <2>3. isOn' = isOn
    BY <1>1 DEF RunEffects
  <2>4. isOn = On(viewProps)
    BY <1>1, <2>2, <2>3 DEF RunEffects
  <2> QED
    BY <1>1, <2>2, <2>3, <2>4 DEF RunEffects, propVars, On
<1>2. ASSUME NEW name \in Names, Toggle(name)
      PROVE  /\ subscription' = [name |-> viewProps', isOn |-> isOn']
             /\ isOn' = IsOn(toggles', viewProps')
  <2>1. ~(subscription # None /\ IsOn(toggles', subscription.name) # subscription.isOn)
    BY <1>2 DEF Toggle
  <2>2. UNCHANGED <<isOn, subscription, pending, component, viewProps>>
    BY <1>2, <2>1 DEF Toggle, propVars
  <2>3. subscription = [name |-> viewProps, isOn |-> isOn]
    BY <2>2 DEF FeatureKept
  <2>4. subscription # None
    BY <2>3, PageAssumption DEF TypeOK
  <2> QED
    BY <2>1, <2>2, <2>3, <2>4
<1>3. ASSUME \/ RunNavigatorEffect
             \/ \E path \in Paths : NavigatedTo(path)
             \/ UNCHANGED vars
      PROVE  /\ subscription' = [name |-> viewProps', isOn |-> isOn']
             /\ isOn' = IsOn(toggles', viewProps')
  BY <1>3 DEF RunNavigatorEffect, NavigatedTo, vars, propVars, featureVars, FeatureKept, On
<1>4. ~Mount /\ ~Unmount /\ ~SetProperty
  BY DEF Mount, Unmount, SetProperty, Effects
<1>5. /\ \A to \in [url : Urls, params : Params] : ~FollowLink(to)
      /\ \A name \in Names \cup {None} : ~SetProps(name)
  BY DEF FollowLink, Render, SetProps, Effects
<1>6. ~Push
  BY DEF Push, Render, Effects
<1>7. \A path \in Paths, params \in Params : ~FollowLink([url |-> <<path, "plain">>, params |-> params])
  BY <1>5 DEF Urls
<1> QED
  BY <1>1, <1>2, <1>3, <1>4, <1>5, <1>6, <1>7 DEF Next

\* A view model knows its route, whatever renders, effects, pushes and
\* messages take turns: only a push during pending effects (withViewModel) and
\* parameters that are dropped (ViewModelObserver) go unnoticed.
THEOREM RoutesAreTold == Spec => []RouteIsTold
<1>1. Init => RouteKept
  BY DEF Init, RouteKept
<1>2. RouteKept => RouteIsTold
  BY DEF RouteKept, RouteIsTold, Quiet
<1> QED
  BY <1>1, <1>2, TypeCorrect, RouteKeptInductive, PTL DEF Spec

\* useFeature shows what a feature is as soon as the effects have been run.
THEOREM FeaturesAreShown == Spec => []FeatureIsShown
<1>1. Init => FeatureKept
  BY DEF Init, FeatureKept
<1>2. FeatureKept => FeatureIsShown
  BY DEF FeatureKept, FeatureIsShown, Quiet
<1> QED
  BY <1>1, <1>2, TypeCorrect, EffectsOfView, FeatureKeptInductive, PTL DEF Spec
=============================================================================
