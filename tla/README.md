# A TLA+ model of Vanir

Vanir is Dolittle's application framework: libraries for TypeScript and .NET
backends, for React pages that are composed into one portal, and tools (a CLI
and editors) that change the configuration of applications. It holds little
computation and a lot of wiring. What is hard in it is timing: callbacks that
read what another callback wrote, messages that cross each other, and files that
one process writes while another reads them. The modules here model that wiring.

Paths below are relative to `src/Source/` unless they start with `src/`.

## 1. Inventory

| component | state | operations | what makes it correct |
|---|---|---|---|
| features of the backend (`typescript/backend/features/FeaturesProvider.ts`) | the file, pending watcher event, a BehaviorSubject | load at start, load on an event | what is written is loaded in the end; content only moves forward |
| features over GraphQL (`FeaturesSubscriptionsResolver.ts`) | a queue of events per subscriber | query, publish, execute an event | notifications keep the order of contents |
| features in the page (`web/features/FeaturesProvider.ts`, `web/Bindings.ts`) | a BehaviorSubject, a query, a subscription | initial query, notification, reconnect | the page shows what the backend holds, not something older |
| messenger (`web/messaging/Messenger.ts`, `react/routing/ContentFrame.tsx`) | the document of the content frame, listeners, subscribers | publish, relay up and down, observe, load of a frame | every page that can be reached is told, messages do not circle |
| request context (`typescript/backend/Context.ts`, `HostContext.ts`, `Host.ts`, `dolittle/DolittleContainer.ts`) | one context object | middleware, dispatch, resolve dependencies, handle an event | work is done for the tenant it was sent for |
| MongoDB (`typescript/backend/mongodb/`) | a client per tenant, the type of a collection, custom types of properties, `toBSON` of `Guid` | make a database, open a collection, register a custom type, write and read documents | client and database are of one tenant, documents get their own type and come back as they were written |
| resources (`typescript/backend/resources/`) | configurations by tenant | look up | a tenant without one gets an error, never another's |
| aggregates (`typescript/backend/aggregates/`) | a root rebuilt from its events | fetch, re-apply, decide, commit | a rule holds in the events whoever commits first; events are in their tenant's store |
| Dolittle client (`typescript/backend/dolittle/`) | event store of the tenant, subscriptions | commit mutations, resolve handlers, subscribe to horizons | the log of the right tenant |
| GraphQL (`typescript/backend/graphql/`, `DotNET/Backend/GraphQL/`) | schema, tree of routes | build at start, guard a field | what is declared is served at its place; a disabled field is not resolved |
| features library (`typescript/features/`) | toggles | parse, evaluate, write definitions | what is written reads back the same |
| React MVVM and hooks (`react/mvvm/`, `react/features/useFeature.ts`) | a view model per mounted component, a subscription per effect | mount, props, route, render, unmount | what is told and shown is not stale |
| dialogs (`react/useDialog.ts`) | state of one component | show, close | not modelled: nothing else can come between |
| routing (`web/routing/`, `react/routing/`) | history, current path, subscribers of messages | navigate, push, follow a link | composition and content agree on the path |
| CLI, features (`Tooling/CLI/Features/`) | the text of `features.json` | read, change, write back | no change of another is lost |
| CLI, tenants and event horizons (`Tooling/CLI/EventHorizon/`, `Tooling/CLI/Tenants/`) | tenants, consents, horizons: three kinds of files | connect, add and remove tenants | pairs of files agree, connections are kept |
| editors (`Tooling/vscode/`, `Tooling/Visual/`) | a document or a layout, its web view | edit, connect, move, save, update, hide, show | view and files agree |
| .NET features (`DotNET/Backend/Features/`) | features, a watcher on a thread of its own | load twice, publish | ends with what the file holds |
| .NET execution context, resources, validation, concepts (`DotNET/Backend/`) | — | — | not modelled |
| scaffolding (`typescript/create-dolittle-*`, `typescript/cli/`) | `application.json`, shared packages, files of microservices | create an application, its portal, a microservice | the entry and its files are both there, and of one command |
| publishing (`src/run-task-on-workspaces.js`) | a checkout for each run, the registry of packages | start, publish a package, fail, end | a version is of one run and is complete |
| text of templates, ProxyGenerator, menus, samples | — | — | pure output, not modelled |

How they interact. The CLI and the editors write `.dolittle/features.json`; a
backend's watcher loads it and publishes an event over GraphQL; pages query and
subscribe, and hooks render the result. A request enters through Express, writes
its tenant into the context, waits for its body, and resolvers then take
databases and event stores for the tenant found in the context; event handlers
of the Dolittle client do the same without going through Express, and both
rebuild aggregates and commit to the store they were given. Pages in
frames reach each other by DOM events that their messengers relay; what arrives
there as `NavigatedTo` is pushed on a page's history, which renders components
and tells their view models. The CLI's `connect` and the editor of
`application.json` write the same consents and horizons, and the web view of
that editor lives from messages of its extension host. What creates microservices
is installed from the registry, writes its own version into what it makes, and
reads and saves the same `application.json` as its editor.

Where it is hard: the race of query and subscription in the page; lost
notifications when a socket reconnects; half-written files; one context shared
by all that runs; aggregates decided on events that others have added to since;
echoes in the relay; frames that are reloaded while the messenger above still
knows the old document; effects that are pending when the next message comes;
pairs of files saved one after the other by several programs; a view that is
made anew from an old text; modules that change for the whole process what is written of a
document; a release that fails halfway and is run again. `PROJECT.json` lists all of these
as hazards, each at its line, with the properties that would catch it.

## 2. Modules

| module | models | built on |
|---|---|---|
| `FeaturesBackend` | the feature file, its writers, and the provider of the backend | |
| `FeatureView` | abstract: what a page is promised about what it shows | |
| `FeaturesSync` | pages, queries, subscriptions, sockets on top of the backend; refines `FeatureView` | `FeaturesBackend`, `FeatureView` |
| `FeaturesSyncProofs` | theorems about `FeaturesSync` | |
| `Messenger` | messengers of a tree of pages | |
| `MessengerProofs` | theorems about `Messenger` | |
| `RequestContext` | requests and event handlers sharing one context | |
| `Aggregates` | aggregates, event mutations and the connecting of clients, by that work | `RequestContext` |
| `Documents` | guids in documents, custom types and cursors, by that work | `RequestContext` |
| `BackendProofs` | theorems about `RequestContext`, `Aggregates` and `Documents` | |
| `EventHorizons` | the CLI and the editor connecting microservices, changing tenants | |
| `ApplicationEditor` | an application, its extension host and its web view | `EventHorizons` |
| `ApplicationEditorProofs` | theorems about `ApplicationEditor` and, on it, `EventHorizons` | |
| `NetFeatures` | the text of `features.json` and the .NET provider | |
| `FeaturesTooling` | the commands and the editor that write it, and its view | `NetFeatures` |
| `FeaturesToolingProofs` | theorems about `FeaturesTooling` | |
| `Page` | a component with its view model, hooks and routing | |
| `PageProofs` | theorems about `Page` | |
| `GraphQLRoutes` | from declared resolvers to a schema, and asking it | |
| `GraphQLRoutesProofs` | theorems about `GraphQLRoutes` | |
| `Workspaces` | publishing the packages of the repository | |
| `Scaffolding` | creating an application and its microservices with what was published | `Workspaces` |
| `ScaffoldingProofs` | theorems about `Scaffolding` and `Workspaces` | |
| `MC...` | small instances of the above | |

Some definitions stand just before the one they are a variant of
(`ReceiveNewestFirst` before `Receive`, and so on). They are plausible mistakes
in the same code, are used by no specification, and show that each property can
be broken: `PROJECT.json` names the variant that breaks each.

### Features

*Content* is abstracted to the number of the edit that produced it, so "older"
and "newer" can be said. Edit 0 is `new Features()`. A writer truncates the file
and then fills it (`File.WriteAllText`), as two steps; a deletion counts as an
edit. `loadFeatures` tests for the file and then reads it: `LoadMissing`, or
`LoadFound` followed by `LoadParsed` or `LoadThrows`. chokidar may merge events
that come close together, so the pending event is a flag, cleared when the
handler starts: a change during the load raises it again. An exception in the
handler leaves the process alive with the old features: chokidar calls it from an
async function, and Node 14, which the repository builds with, only warns of the
rejection. One in the constructor ends `Host.start` in the same way, before
anything is served: the process is `"stuck"` until somebody ends it (`Crash`).

`pubSub.publish('FEATURES', {})` queues an event for each subscriber, and
`system_newFeatures` reads the features when the event is executed (`Notify`).
A page opened or reloaded (`Open`) starts the query and the subscription at once.
`ReceiveAnswer` is the code after the `await` of `populateInitial`, `Receive` the
observer of the subscription; both end in `setFeaturesFromNotification`
(`Show`), the whole of which is one step of the page's thread. `Drop` and
`BackendCrash` break sockets; the client reconnects (`Subscribe` once more)
without being sent what it missed. `since`, `notified` and `backs` are history:
they change nothing and only serve the properties.

`FeatureView` says what a page may rely on: what it shows was held by the backend
after the page was opened, and in one life of the page it goes back to older
features at most once. `View(c)` maps page `c` to it; `PagesImplementView` is the
refinement.

### Messenger

Pages of one origin share a thread, and `dispatchEvent` is a synchronous call:
a publish is one deep call. `calls` is what the thread still has to do, the next
first: to run the relay of a messenger (`Relay`), to raise an event on a page's
document (`Hear`), or to tell its observers (`TellObservers`). Pages come, go and
observe between messages. `contentDocument` is `_contentDocument` of each messenger: a frame
and which of the pages loaded into it. Nothing ever clears it, so opening another page in the frame (`Open`) or
taking the frame away (`Remove`) leaves the old document there until a load event, one for each load,
brings another (`FrameLoaded`). A document that is not shown any more runs no listeners, which is the browser's doing:
`content` is the frame whose page hears what is sent to the document that is kept, or none (`NoDocument`).
Types of messages do not interact; there is one. `observeAll` adds no listener and
is left out, and all pages are of one origin, as in a composition.

### Request context

`Host.start` runs everything inside one `HostContext.run`, and nothing opens
another, so requests and event handlers have one context object: `current` is
the tenant in it. `Enter` is the middleware; the body parsers after it wait, so
other work may run before `Dispatch`, where Apollo builds the context of the
execution. Factories of dependencies run without a pause and read `current`.
`DolittleContainer.get` sets the context and resolves the handler in one step.
`ClientFor` is the cache of clients; a database is the pair of the configuration
it was named by and the configuration its client was made of.

`collectionType` is the entry of the host context for one collection name;
`Types` are document types that share it. `collection(type)` sets it, `collection(type,
options)` returns before it would (and so does `collection(type, name)`, since
a primitive string is no `instanceof String` and is taken for the options), and a cursor reads it when documents arrive.
`overtaken` and `mistyped` are history: requests during which the context was
given another tenant, and work whose collection was opened with options or, by
other work, with another type.

### Aggregates

`Of` fetches the events and re-applies them in one step (`Rebuilt`: every event
counts for the version, those with an on-method for the state); between it and
`Perform` others may commit, and then the runtime refuses the commit
(`CommitRefused`). One rule (`RuleHolds`) stands for those a root asks, and
`FailRule` for `BrokenRule.fail`. An event mutation (`CommitEvent`) takes a store
when it is called and commits without knowing a version. `collection()` connects
its client if it is not connected (`Connect`, `Connected`, `ConnectFails`): two that
ask at once connect it twice, which `hurried` records. The SDK's `perform` and the
runtime are external: they are modelled by what the code uses them for.
`AggregatesNext` is the next-state relation of `RequestContext` with what its steps
wait for (`Idle`), and the steps above.

### Documents

A guid is its sixteen bytes, and `ToMUUID` and `BinaryToGuid` move them as the code does. The
decorator of a property registers its custom type with the document type, and replaces `toBSON` of
`Guid` for the whole process: a type is `Load`ed with its module, and from then on guids are written
as its last decorator says, while each property is read as its own custom type says
(`DeserializeProperty`). A cursor maps a document once, with the type the collection has in the
context (`NextDocument`), whether it is the one asked for or another of the buffer; `toTypedArray` maps
again what the cursor has mapped. A custom type throws on anything but a `Binary` (`Throws`), and
a falsy item of a list becomes the empty guid. The driver and MongoDB are
external (`Written`, `Insert`), and so are the custom types of applications: here they keep the bytes.
`known`, `sure` and `twice` are history: the types loaded when a document was written, whether the
reader's type was beyond doubt, and whether it was mapped a second time.

### Event horizons and the editor of an application

A consent is a pair of tenant and consumer in the producer's file, an event horizon
a pair of tenant and producer in the consumer's: stream, scope and partition are
determined by these. `process[k]` is one run of `connect`: it reads the consents
(`Begin`), the horizons (`ReadHorizons`), adds what is missing for each tenant
(`Grant`, `Subscribe`), refuses what is there already (`Refuse`), and saves the two
files one after the other (`SaveConsents`, `SaveHorizons`). The editor of
`application.json` runs the same functions in TypeScript, as process `Editor`, with
three differences: it skips what is there already instead of refusing it, it reads
a file `tenants` that nothing writes (`ApplicationEditorProvider.ts:274`, the CLI has
`tenants.json`) and so always connects development, and without the files of a
microservice it has no path to save to, and throws (`Throw`) — a new
microservice has none. `overlapped`, `interrupted` and `disturbed` are history:
which connects work on a file that was saved since they read it, and which
connections they may have harmed.

`ApplicationEditor` adds the layout (`places`, `links`), the two directions of
messages, the view and its state. `UpdateWebview` sends a text and lays out
what has no place; the view is hidden and shown again from the last text it had
in Visual Studio Code's state (`ShowView`). A new microservice is put into
`application.json` first and its files are written then (`WriteMicroservice`), of which
nobody is told; while the two differ, commands of the CLI end at once (`Provided`).

### Features, the tools and the .NET backend

Here the text of `features.json` is what matters: a text gives each feature the
sequence of its toggles. A command reads it (`Alter`), empties the file (`Empty`) and
writes it (`Write`), or is stopped in between. The editor's document
follows the file as long as it has no changes of its own (`Reload`); a click in the view sends
all it shows (`Click`), which replaces the document (`ApplyEdit`) and is saved
(`Save`) unless the file is not the one it was read from. In the .NET provider the
constructor starts the watcher before it loads the features itself, so two threads
`Read` and `Publish` in any order; an empty file ends the process (`ReadTorn`), and
nothing but the constructor's own variable holds the watcher (`Collect`).

### A component of a page

One component with a view model and with `useFeature` in its view.
React runs the effects of a render later, but before the next render: `pending`
says which are left, and every action that renders outside of an event
handler runs them first. `Render` is `componentDidUpdate` with its comparison of
routes (`RouteChanged`), `Push` one `history.push` of a subscriber of `NavigatedTo`.
`withViewModel` listens to the history anew after every render and so misses a second
push of one message; `missed` and `dropped` record what the code does not
notice. A prop that is new reaches the view with its next change only (`SetProps`): `viewProps` is what the view was
given, and the feature it must show is the one named there.

### GraphQL

Both hosts in one module: `host` says which. `Declare` takes resolvers with the paths
their decorators give, `Begin` visits the directives, `MakeRoutes` makes the
routes of one path, in any order, `Finish` adds the routes of the framework and names the
types. Those routes are `added`: in development `events` to the mutations of both, and in .NET always `system` to the
queries (`GraphQLServiceCollectionExtensions.cs:74`), whose type `_system` has a name no other route has. One instance is one of
the root types: queries, mutations or subscriptions; what the framework subscribes to (`system_newFeatures`, `system_eventStream`) is
declared like any resolver. The fields of node are a map by name: of two resolvers of one name only the later
is left (`RootFields`), whatever their paths. In .NET those of one place replace each other, and a route takes the field of
a resolver that has its place, with the directives of this field (`Keeps`, `Tests`): `descriptor.Field(name)` of HotChocolate 11.0.6 returns the
field that has the name, and of fields with one name the last is kept. These two facts are of the library, not of the
repository. Names of types are the last segments (`TypeName`), so
two routes that end in the same segment are refused. `Along` follows fields from the root,
`Reached` is where a path ends, and `NoField` stands for a field that is not there. Paths have at
most `Depth` segments. When the schema
serves, `Switch` changes features and `Ask`, `Test`, `TestAll` and `Run` are one field
asked for: in node the wrappers test all features without a pause, in .NET one after
the other.


### Publishing and scaffolding

`Workspaces` is `run-task-on-workspaces.js`: a run (`job`) goes through the packages in the order yarn found
them, skips private ones, writes the version into the dependencies on other packages of the repository
(`UpdateDependencies`), publishes, and stops at the first failure. Each run has a checkout of its own
(`manifest`); all share the registry, which is external and takes a version of a package once. It may have
taken one although yarn failed (`FailJob`). `src/.github/workflows/publish.yml` starts a run for every pull request
that is closed, so runs overlap, are cancelled, and are repeated for one version.

`Scaffolding` adds the commands that create an application or a microservice in one directory, each a process
that may be stopped between any two steps (`Stop`). A command can be launched when a version of it installs; which
versions what it makes will need (the templates say `^` and the tool's own) is not kept. The wizard refuses files that exist; `createApplication` is forced to write over
them. A microservice is appended to `application.json` by reading (`ReadListed`) and saving the whole file (`Save`),
and its files follow; the portal is made by the same code, as a command within the command
(`PortalFor`), under the id that `application.json` announces. The file of the portal's page is written twice, the
second time from the portal's own templates. A guid is the command that made it, with its purpose. The program calls `createMicroservice` for the portal only, so a command of its own
is always the wizard, with an id it makes itself. Two conversions are made of a name: what is listed, and compared with what is
listed, is `./Source/` and the name after `toPascalCase` (`plopfile.ts:71`), which only sets the case of letters; the templates are
written to the directory plop's own `pascalCase` makes of that, which also leaves out what is between words. Names are those
after the first; `Directory` is the second, and any function will do for the proofs. Writing one file is one step (plop deletes a file it is forced to write over first).
`crossed` is history: the commands during whose read and save `application.json` was written by another.


## 3. Runs

| run | instance | checks |
|---|---|---|
| `features_sync` | one page, 3 edits, 2 faults; 95,933 states | `WireInOrder`, `NothingFromBeforeOpening`, `GoesBackAtMostOnce`; refinement of `FeatureView` (`PagesImplementView`); what is published arrives or the socket is gone (`NotificationsArrive`), what is written is loaded (`WrittenIsLoaded`) |
| `features_sync_stale` | one page, 2 edits, no fault | *violated*: pages converge to the file |
| `messenger` | a portal, two frames in it, one frame in a frame; 5 pages opened, 2 messages; 142,437 states | exact delivery, no storm of echoes, inner pages first, what a messenger keeps is a document of its own frames and not stale for good |
| `messenger_nested` | the same, 4 pages opened, 1 message | *violated*: messages bubble up to the composition |
| `request_context_tenant` | 3 tenants of which 2 are configured, 2 requests, 1 handler, no types | *violated*: a request is executed for its own tenant |
| `aggregates` | 3 tenants of which 2 are configured, 1 request, 1 handler, 1 type, a rule that allows 1 event, 2 events in all tenants together; 1,229,412 states | databases of one tenant, undisturbed requests isolated; rules hold in the log, events are in the log of their tenant, clients are connected once |
| `documents` | 1 tenant, 1 request, 1 handler, 2 types with 2 properties and 2 custom types, 3 contents of which 1 is stored; 277,894 states | documents get their type unless the collection was opened otherwise, are read as written, and reading fails only on what was written before any custom type was known or is mapped twice |
| `application_editor` | 3 microservices (one not there yet, one without event-horizon files), 2 tenants, 1 `connect`, 1 command on tenants, 1 gesture, the view hidden once; 1,364,692 states | consents and event horizons agree, connections and places are kept, what is drawn exists, the view is current |
| `features_tooling` | 2 features, 2 commands, 2 things asked for, the view hidden once, 1 restart; 439,746 states | what was asked for is in the file, the view shows the document, the .NET backend ends with the file |
| `page` | 2 paths, 2 names and 2 values of parameters, 2 features, 8 stimuli; 279,508 states | the view model knows the route, the view shows the feature |
| `graphql_routes` | the segments `events` and `system`, paths of up to 2, 2 resolvers, 1 field asked for, both hosts, with and without the routes of the framework; 518,573 states | what is declared is served, only clashing names are refused, a resolver runs with its features on |
| `scaffolding` | 4 packages of which 1 is private, 2 runs, 1 version, 2 commands, the names `Portal` and `Portal-`, which share a directory, and `Shop`; 1,663,592 states | a version is of one run and complete; files are listed, what is listed is whole, the portal is there as announced |

The runs check no type invariants: section 5 proves each of them for every instance.

Why the bounds are enough. *Pages* of `features_sync` do not act on each other,
so one page sees all that a page can see; three edits and two faults let a query
answer, a notification and a reload overlap with contents older than, equal to
and newer than what is shown. `MaxEdits` and `MaxFaults` bound the number of
edits and of faults, nothing else does; the queues are bounded by the edits.
*Windows*: four are enough for siblings, for a page that is neither innermost nor
outermost, and for echoes in both directions; `MaxOpens` is one more than the
windows, so that with all of them open any page can be reloaded or taken away and opened again, and two messages show that nothing of the
first is left for the second. *Work*: a request is disturbed by a request
(`request_context_tenant`) or by a handler (`aggregates`), in the same way; no action involves more than two
pieces of work.
*Documents*: the type of the collection is apart from the tenant, so it is checked with one tenant; one document
and two types, of which one has a custom type Guid's own is not, show every order of loading, writing and reading.
*Aggregates*: one root can be overtaken by another of the same tenant, which takes
two pieces of work; `Limit = 1` is the smallest rule that two commits break
together, and `MaxEvents = 2` is one more, so that a commit that was to be refused has
room. *Connections*: a command against the editor, and a command on tenants against
both, are all the pairs of writers there are; the third microservice is the one an
overwrite loses, and the one without files the one the editor throws for.
*Tools*: two commands, the editor and both threads of the backend overlap; each may
cross each. *Stimuli* of `page`: mount, message, render, new features, new props and
unmounting in one life, and more. *Routes*: two resolvers are enough for
any clash of two; the two segments are those of the routes the framework adds. *Publishing*: two runs for one version
are a failed one and its repetition, or two that overlap; runs write one exact version into what they publish, so
those of other versions change nothing for them. *Scaffolding*: two commands are all that one step can be about; two names are
needed for a lost entry, and two of one directory for mixed files. Everything else
the bounds stop could only happen again: the theorems of section 5 hold without them.

Where a run says `CHECK_DEADLOCK FALSE`, the system may stop: all bounds are used
up and all work is done.

What the violated runs show, in short (the findings in `PROJECT.json` quote the
documentation):

* `features_sync_stale` — the query is answered, then the file changes and is loaded,
  then the subscription is registered: the page keeps the old features until the
  next change. The same happens whenever a socket reconnects.
* `messenger_nested` — for a page inside a frame, any message heard on its
  document "comes from the portal", and such a message is not sent to the parent.
  A message of a page two levels down reaches its parent and stops there.
* `request_context_tenant` — a second request enters while the first waits for its
  body, and the first is executed with the second one's tenant.

Several properties name an exception. It is what the code does not notice, and
each was found by TLC before it was written down:

* `UndisturbedRequests`, `UndisturbedDocuments`, `EventsOfOwnTenant`: not for work that was
  `overtaken` in the shared context, or `mistyped` by it.
* `ReadsWhatWasWritten`, `FailedReads`: not for a document written when no custom type, or more than one, was
  loaded (`known`), not by work that is not `sure` of its type, not for a falsy item of a list, and not
  for `toTypedArray` on a collection that has a type (`twice`).
* `ConnectedOnce`: not for a client that two asked for at once (`hurried`); the second
  `connect` is a second connection of one client (`MongoDatabase.ts:41`).
* `HorizonsConsented`, `ConsentsHaveHorizons`, `DrawnIsConnected`: not for connections that were
  harmed by two programs at work on one file or by an overwrite (`disturbed`); the
  second one also not where a program ended between its two saves (`interrupted`).
  An overwrite starts with both files empty, so it also ends connections with third microservices.
* `KeepsConnections`: not when a save overwrites, or another program has saved the file since it
  was read (`overlapped`).
* `ViewIsCurrent` of the editor: not when the view has missed a text, made a text cross
  a gesture, or a new microservice was written behind its back (`stale`).
* `WishesCome`: not when two tools worked at once (`crossed`), and not for a feature with
  more than one toggle, which the view cannot uncheck.
* `RouteIsTold`: not for a push that `withViewModel` did not hear (`missed`), for
  parameters that were only left out (`dropped`; `Documentation/frontend/react/view-models.md:144`
  says otherwise).
* `ServedUnlessHidden`: not for a resolver that something takes the place of (`Hidden`). In both hosts that is a later
  resolver of its place; in node also any later one of its name, and one named like a segment of its path. In .NET it is a route of
  its place, which takes its field; unless two resolvers are declared for that place: then the later one keeps it and hides what is
  below the route. And in both it is a route of the framework: in development what is below `events` of the mutations, and in .NET
  what is below `system` of the queries; in .NET also a resolver of that name at the root.
* `RunsWithItsFeatures`: in .NET what is below a route needs the features of a resolver whose field the route has taken, too.
* `FilesAreListed`, `ListedIsWhole`, `PortalIsAnnounced`: not once `application.json` was written while another command
  had read it (`crossed`); the latter two also not where a command was stopped, or where two names have one directory
  (`SharesDirectory`): `My-Shop` and `My Shop` are two names to the check of the list, and both are written to `Source/MyShop`.
  The last one is also not where another command was given the portal's name or directory, nor for an application that was there in part (the command is refused, and its `application.json` stays).

## 4. Fairness

Only `features_sync` and `features_sync_stale` use it (`FairSpec`). Node's
event loop runs what is ready, so loads, answers and executions of events are
weakly fair; so are the steps of the page, which runs on an event loop as well;
the container platform restarts a backend that ended (`Boot`), not one that is stuck; the client
library reconnects (`reconnect: true` in `web/Bindings.ts`), hence `Subscribe`.
Writers, reloads, crashes, dropped sockets and failed queries are not fair: none of
them has to happen. A half-written file need not be completed, which is why
`WrittenIsLoaded` starts from a completely written one and ends when the file is
changed once more. It also rests on what `Touch` says of the watcher, which is not
part of the repository: every change is reported, though several may be reported
as one. A watcher that swallows a change soon after another would lose contents.

The other modules state what holds whenever a system has come to rest
(`Settled` and the like); that it comes to rest is not claimed, since their steps are
those of users, of commands that may be stopped, and of servers that may not answer.

## 5. Proofs

Checked by TLAPS for every value of the constants that satisfies the named
assumptions: any number of pages, windows, tenants, requests, types, microservices and their directories, resolvers, packages, runs, commands
and features, and no bound on edits, faults, messages or stimuli. The assumptions are
the ones in the modules (`WindowsAssumption`, `WorkAssumption`, `FilesAssumption`, ...): they say
that names that stand for different things differ, that bounds are numbers, and
that the parents of windows form a tree.

* `FeaturesSyncProofs`: `TypeCorrect`; `Invariance` (`IInv`), from which follow
  `NotificationsInOrder`, `PagesAreNeverOlderThanTheirOpening`,
  `PagesGoBackAtMostOnce`; and `Implementation`, the refinement of `FeatureView`.
  "At most one step back" is not inductive by itself. `PageInv` adds why it holds:
  until the page has its answer it shows its last notification, so it has not
  gone back; the answer takes it anywhere, at most once back; after that, if it
  shows something newer than its last notification, the answer was a step
  forward, and only the next notification can take it back. Notifications alone
  never do, since contents on the wire are ordered (`WireInOrder`) because the
  features of the backend only grow (`BackendMovesForward`, from
  `features <= file.edit`). `PageKept`, `PageCutOff`, `PageOpened`, `PageNotified`,
  `PageReceived` and `PageAnswered` say this per kind of step.
* `MessengerProofs`: `TypeCorrect`, `MessengersKnowTheirFrames`, `InnerPagesComeFirst`,
  `NobodyIsToldThrice` and `EveryPageIsToldExactly`, for any tree of windows. The second, which holds however long an old document is kept, rests on `Within(w)`: opening a page removes a set of
  windows closed under "frame of" (`WithinIsClosed`) that contains neither the
  top nor the parent of `w` (`TopIsNotWithin`, `ParentIsNotWithin`), so whoever stays
  shown stays inside a page that is shown, and the messengers that go are those of pages that go (`UnloadKeepsNesting`).
  A document can only be kept by the page around its frame, and a page that is loaded anew in a frame is in `loading` until
  its event has replaced what was kept. `WindowsAssumption` says that the
  parents form a tree by its closure property, which needs no path. The other three are about the
  stack of calls, of which it is counted how often a page is told up to a place (`Upto`).
  `InnerKept`: up to each place where a page is told, the frame it knows is told as often, or is
  being called right now. `TellingKept`: an event waits on the stack only in the last place
  but one (that of the publisher's parent); until it is its turn nobody has been told twice
  (`Most`), and where a call goes next, the page and all within it have room for one more.
  For exact delivery `Below(w)`, the pages a messenger passes a message down to, is the smallest set that is closed
  under known frames, so that it needs no recursion. `DeliveryKept` says at every moment of the call that what has been told
  and what the stack still owes (`Due`: what goes down from each call, `Downward`, and what comes back
  because the page around listens as well, `Echoing`) are together exactly what must be told; when the stack is empty, nothing is owed.
* `BackendProofs`, of the context: `TypeCorrect`, `Invariance` and, from it,
  `DatabasesAreOfOneTenant`,
  `UndisturbedRequestsAreIsolated`, `UndisturbedDocumentsAreTyped`. `IInv` adds to the three properties that
  what a handler holds is of one tenant (`HandlersBound`), that clients are filed under their own tenant, that the current tenant is that of
  every request that was not overtaken, that the type of the collection is wanted
  by all work that is not mistyped, and that idle work has nothing bound.
  Of aggregates: a step of `Aggregates` is a step of `RequestContext` or ends work early
  (`StepOfContext`), so the invariant of the context is kept (`ContextStaysKept`). On it:
  `RulesAreKept`, from `RootsKept` (a root has seen as many events as its version says, no more
  than the log has, and if it has seen all of them, its state is theirs — so what it
  decides is decided on what the log holds, or its version is refused);
  `EventsAreOfTheirTenant`, from `EventsKept` (an event was put in a log by work that is of the
  log's tenant or was overtaken, and work never goes back to idle); and
  `ClientsConnectOnce`, from `ConnectionsKept` (how many connects a client has seen, those on
  their way included).
  Of documents, which also are steps of the context (`CollectionsStayTyped`): `DocumentsComeBack` and
  `ReadsSeldomFail`, from `DInv`: a loaded type has all its custom types registered (`Registrations`), `toBSON` is of
  one of the types that are loaded, a collection is opened with a type that is loaded (`OpenedLoaded`), and
  a stored document is its contents as the custom type of one of the types that were `known` writes
  them (`AllWellStored`). `BytesUndone` says that the order of bytes that the guid's type writes is undone when it reads.
* `ApplicationEditorProofs`. Every step of the editor
  is a step of the files or leaves them alone (`StepOfFiles`), and the lemmas about `EventHorizons`, which come first, speak
  of those. `TypeCorrect`; `BackendsMayRead` and `NothingHalfMade`, that consents and
  event horizons agree, from `ConsentsKept` and `HorizonsKept`: these say for each step a process can
  be at which part of its pair is in its hands, in the file, or was taken from it by
  another process (`disturbed`, `interrupted`) — as it stands, agreement of the two
  files is not inductive, since between the two saves they differ. `ConnectionsAreKept`, from `HasWhatIsThere` (a process that
  nobody overtook has at least what the file has); `DrawnConnectionsExist`, from
  `EditorKept` and `LinksKept`, that the layout is written last; `HandPlacesAreKept`;
  `ViewStaysCurrent`, from `ViewKept`: the last text on its way to the view is what there is,
  and a view that has read it differs only by what the host has still to draw or move.
* `FeaturesToolingProofs`: `TypeCorrect`, which includes that every text a tool can write is one
  with at most two toggles for each feature; `BackendStaysCurrent`, from `ReadersKept` (a
  thread that has read and not published has what is on the disk, or there is an event to come,
  or the watcher is gone); `ViewStaysCurrent`, from `ViewKept` (the last text on the way to
  the view is the document's, and with none on its way the view shows it unless it missed one);
  `NoWishIsLost`, from `WishesKept`: as long as only one tool works at a time, `EditorsTurn`,
  `CommandsTurn` and `FilesTurn` say whose turn it is and where all that was asked for is.
* `PageProofs`: `TypeCorrect`; `RoutesAreTold` and `FeaturesAreShown`, from `RouteKept` and
  `FeatureKept`, which say what has been told so far and what the effects that are still pending will
  repair; types rest on `EffectsOfView` (the effect of the view is among those pending).

* `GraphQLRoutesProofs`: `TreeAlwaysKept`: the routes and fields made so far are those of the paths that are done
  (`RoutesOf`, `Under`, `ItemsAt`), in whichever order, so the tree that is served is `Tree`. Where a path leads in it
  (`Along`) is a function that follows the path, which is shown to exist (`AlongIsDefined`) and then followed one
  segment at a time: as long as nothing is in its way it is at the route of that path (`Straight`, `Leads`), and once
  something was, there is no field (`LostAt`). `WhatIsNotHiddenIsServed` is that for the place of a resolver, per host;
  `OnlyNamesAreRefused` from it for routes (`ReachedRoutesAre`, `NamesAreOfSegments`). `FeaturesGuardResolvers` is
  from `CallIsKept`: a call has seen each feature on that it need not test any more, and the state each feature has now.
  Steps along a path are counted; the smallest number at which something fails (`LeastNumber`) takes the place of
  induction over paths.
* `ScaffoldingProofs`, of the runs that publish: `ReleasesStayTyped` (and the commands), `VersionsAreOfOneRun` and
  `FinishedRunsAreComplete`, from `WInv`. Two runs of one version cannot both get past its first package, because
  the registry has it once (`Unique`) and a run has published all it has passed itself (`HasDone`).
  Of the commands: `FilesStayListed`, `MicroservicesAreWhole` and `PortalsAreAnnounced`, from `SInv`, most of which is said as long
  as `crossed` is empty: what a command has read is still in the file (`CopyIsCurrent`), what a command has made is
  listed, and no two have made one name (`OneMaker`), so files that are there are the maker's own, as long as no other name that is
  listed has the directory (`OwnFiles`). Nothing is assumed of `Directory` but that it is a function.

Only model-checked are the liveness properties `NotificationsArrive` and `WrittenIsLoaded`, since fairness and ENABLED are
beyond the prover, and the violated properties: a behaviour TLC shows is their proof. All other properties of the
runs are stated by a theorem.

## 6. Not modelled

In the modelled parts: the text of features and GraphQL documents but for what is
told apart by the properties; more than one type of message and more than one
collection name; the user id and other fields of the context;
`MongoDatabaseProvider.getFor`, which makes its own client each time; custom types for classes other
than `Guid`; how resources are
read; the id of streams and partitions of event horizons; the wording of refusals; the
positions of microservices beyond whether a hand or the program chose them.

Observed, but of no property:

* `MongoDatabase.ts:34` takes a collection name that is a primitive string for the options;
* `RoutingViewModel.ts:15` never unsubscribes, and subscriptions of a view model are
  not ended when it is unmounted;
* `useDialog` shows the input of the previous dialog if it is shown without one;
* a prop that was not there before reaches neither the view nor the view model until it changes again
  (`ViewModelObserver.tsx:44`);
* `application.json` lists `./Source/My-Shop` for a microservice whose files are in `Source/MyShop` (`plopfile.ts:72` against the
  directories of the templates), and lists both `My-Shop` and `My Shop` for that one directory, where the later overwrites the
  earlier;
* an argument named `append` is lost (`FeatureDirective.ts:62`), and a subscription is not
  gated by features at all;
* `@graphRoot` on a method is ignored when its class has none, and in .NET a path that
  begins with `/` ends in an exception (`GraphQLBuilderExtensions.cs:65`);
* `AddTenant(Development)` throws as long as there are no tenants;
* a microservice without a place in the layout can never be moved
  (`ApplicationEditorProvider.ts:150`);
* `ResourcesServiceCollectionExtensions.cs:30` is a plain dictionary used by several threads.

Not modelled at all, and for good: the dialogs, the text of templates, the proxy
generator (its generator is commented out), menus, styling, the static page of
microservices (`Visual/Microservices/ms.tsx`, `Visual/menu/Pie.ts`) and samples, which keep no state
over time; validation and reflection of .NET, which are functions of one call; its
execution context, which is an `AsyncLocal` and so not shared as the one of node is;
concepts.

## 7. Plan

1. done: features from the file to the page (`FeaturesBackend`, `FeatureView`,
   `FeaturesSync`), its invariants and refinement proved;
2. done: `Messenger`, all its invariants proved;
3. done: `RequestContext`, all invariants proved;
4. done: `Aggregates` and `Documents` on top of it, all invariants proved;
5. done: `Page`, all invariants proved;
6. done: `EventHorizons` with the CLI's tenants, `ApplicationEditor` with the editor
   and its view; all its properties proved;
7. done: `NetFeatures`, `FeaturesTooling`; all their invariants proved;
8. done: `GraphQLRoutes`, checked and proved in both hosts;
9. done: `Workspaces` and `Scaffolding`, all invariants proved.

Left: the cache of resources of .NET under threads, once it is decided which outcomes of a torn
dictionary a build can produce.
