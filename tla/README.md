# TLA+ specifications of emfcloud-modelserver-theia

The repository connects Theia, an IDE in the browser, to the EMF.cloud Model Server: a REST and
WebSocket server for EMF models. These modules specify the parts of the repository that keep state or
react to events: who is subscribed to what, what a closing socket does to that, what happens when several
frontends share one backend, which content subscribers have of a model that changes, what becomes of a call
on its way from a frontend to the server and back, how the workspace of a frontend becomes the configuration
of a server that may not run yet, and what becomes of the diagnostics of a validation. TLC checks them on
small instances; TLAPS proves for every size the safety properties of all of them (but for what the recursive
conversion of JSON bodies computes), and that the subscriptions and the followers of a model implement their
abstract specifications.

Paths below are short: `client/` is `src/packages/modelserver-client/src/`, `theia/` is
`src/packages/modelserver-theia/src/`, `markers/` is `src/packages/modelserver-markers-theia/src/`,
`example/` is `src/examples/dev-example/src/`.

## 1. The system

```
 frontend (browser)              Theia backend (node)                    model server (external)
 ------------------              --------------------                    -----------------------
 subscription client <--RPC--    TheiaBackendModelServerClient(V2)  --HTTP-->  requests
   (the listener)                  = ModelServerClient(V2)          --HTTP-->
 proxy of the client --RPC-->      + subscriptionClient             <==WS===   one socket per
 frontend contribution               openSockets: uri -> socket                subscription
   (configures the server)       launcher (spawns the server) ------spawn--->
 diagnostic manager
   -> problem manager
```

JavaScript runs every call, handler and continuation after an `await` to its end before it runs another.
So the steps of the modules are exactly those stretches, and what interleaves is their order.

| component | state | operations | correct if |
| --- | --- | --- | --- |
| v2 client, subscriptions (`client/model-server-client-v2.ts`) | `openSockets`, the sockets it created | `subscribe`, `unsubscribe`, `send`, the handlers of a socket | what notifies can be stopped; an entry is the newest socket; callbacks of one subscription come in order and end with one `onClose` |
| v1 client, subscriptions (`client/model-server-client.ts`) | the same | the same; its close handler deletes the entry of the model | the same, and the entry of a closed socket goes away |
| backend clients (`theia/node/theia-model-server-client*.ts`, `backend-module.ts`) | `subscriptionClient` | `setClient`, `subscribe`, `selfSubscribe`, `dispose`, connections of frontends | callbacks reach the frontend that asked; no sockets are left for nobody |
| launcher (`theia/node/model-server-backend-contribution.ts`) | the spawned process | `initialize`, `startServer` | in the end there is a server |
| workspace setup (`theia/browser/model-server-frontend-contribution.ts`) | none but its running handlers | `setup`, `waitForReady` | a handler ends unless the server leaves it without an answer; a handler that has ended replaces no later workspace |
| diagnostics (`client/model/diagnostic.ts`) | shared `Diagnostic` objects | `merge`, `worstOf`, `recomputeSeverity`, `collectLeaves`, `getSeverityLabel` | the label of a diagnostic is that of its worst problem |
| diagnostic markers (`markers/browser/`) | the problem manager's markers | `setDiagnostic`, `setDiagnostics` | the markers of a model are those of its last validation |
| REST requests (both clients) | `defaultFormat` | one call per endpoint, `process` | the server gets what the caller meant, in the format asked for; an answer reaches its mapper, a failure rejects and says why |
| messages, update results (`client/model-server-message.ts`) | none | mappers, `patchModel` | success is told to who has it; a model is patched with its own patch |
| notifications (`client/subscription-listener.ts`, `client/model-server-notification.ts`) | the subscribers' models | dispatch of a message to a callback, `patchModel` | who only patches what the current socket tells has a content of the model, and in the end the last |
| frontend subscription client (`theia/browser/model-server-subscription-client.ts`) | event emitters | the same dispatch, to events | v1 and v2 subscribers are told the same |
| commands (`client/model/`) | none | constructors, `ensureCommandPrototype`, `edit` | what the server reads is what was constructed |
| JSON encoding (`client/utils/type-util.ts`) | none | `encode`, `copy` | the whole value arrives in one format |
| patch construction (`client/utils/patch-utils.ts`) | none | builders of patch operations | what is removed is what was meant |
| RPC proxy factory (`theia/common/jsonrpc-proxy-factory.ts`) | none | `onRequest`, `onNotification` | URI arguments are URI objects again |
| development example (`example/node`, `example/common`) | `intervalId` | keep-alive over the v2 client, `counter`, a custom command | an interval ends with its entry |
| test menu (`example/browser/api-test-menu.ts`) | none | a call per command, prints of notifications | prints whatever it is told |

API declarations, data classes and the dependency-injection modules have no
behaviour of their own. That the backend clients are bound as singletons, which the injection module
decides, is the reason why `Frontends` looks as it does.

### Interactions

* A frontend calls the backend client over JSON-RPC. It cannot pass a listener, so the client uses its
  `subscriptionClient`: the proxy of the frontend that connected last.
* The end of any frontend connection calls `dispose` of the one client all frontends share.
* A socket event calls the listener the socket was created with, whatever the registry has become since.
* The launcher and the frontend both ping the same server; neither knows of the other.
* A message of a socket goes over RPC to the frontend's one subscription client, whose subscribers share the
  objects in it. None carries a version of the model; neither do the answers of `get` and `edit`.
* The arguments of a frontend's call become data on their way and so do results: functions and classes are
  lost. The proxy factory makes URIs of them again, and the backend client instances of `ModelServerCommand`.
* A diagnostic of a validation is shared between what merged it, what recomputes it and what shows it.

### Hard behaviours

The full list, each at its line, is in `PROJECT.json` under `hazards`. In short: late events of sockets
that are no longer in the registry; listeners that call the client from its own close handler;
subscriptions that pass each other over; entries of sockets that are gone; a client shared by frontends
that come and go; a server that is started by two parties, comes up late, goes down between an answer and
the next request; handlers of successive workspace changes that overtake each other; severities that are
bit masks in one function and numbers in another; patches that apply to one version of a model and are
delivered without it; arguments and results that lose something over RPC; guards that take one thing for
another; indices counted in an old copy; answers that are lost.

## 2. Modules

| module | stands for | EXTENDS |
| --- | --- | --- |
| `WebSocket` | external: a socket of the `ws` library, with the states and events the clients rely on | |
| `Subscriptions` | abstract: what subscribe and unsubscribe promise, without sockets or registry | |
| `SocketRegistry` | what both clients share: `openSockets`, `doSubscribe`, and the properties of a registry | `WebSocket` |
| `ClientSocketsV2` | subscriptions of `ModelServerClientV2` | `SocketRegistry` |
| `ClientSocketsV1` | subscriptions of `ModelServerClient` | `SocketRegistry` |
| `Frontends` | connections, `setClient`, `dispose` | `SocketRegistry` |
| `TheiaBackendV2`, `TheiaBackendV1` | compositions: the client behind its frontends | `ClientSocketsV2` or `ClientSocketsV1`, and `Frontends` |
| `Launcher` | the launcher and the server process | |
| `WorkspaceSetup` | composition: the frontend's handlers beside the launcher | `Launcher` |
| `Diagnostics` | the objects and the functions of the namespace `Diagnostic` | |
| `DiagnosticMarkers` | composition: `DiagnosticManager` on a problem manager | `Diagnostics` |
| `KeepAlive` | `CustomDevModelServerClient`, its interval over the v2 client | `ClientSocketsV2` |
| `Messages` | `ModelServerMessage`, message types, the guards and mappers of notifications | |
| `NotificationListeners` | the two listeners of the client package | `Messages` |
| `SubscriptionClients` | the two listeners of the frontend, the printing test menu | `Messages` |
| `Follower` | abstract: who goes through the history of a model and in the end has its last content | |
| `Notifications` | composition: server, sockets of the v2 client, messages under way, dispatch, subscribers and their models | `ClientSocketsV2`, `NotificationListeners`, `SubscriptionClients` |
| `Commands` | command constructors, guards, prototypes; what the server reads | |
| `JsonValues` | values of the JSON formats, as trees | |
| `PatchUtils` | builders of patch operations | |
| `RpcProxy` | the transport and the proxy factory | `Commands` |
| `Mappers` | `process`, mappers of requests, update results, `ModelServerError` | `Messages` |
| `Requests` | paths, parameters, bodies and query strings both clients make alike | `RpcProxy`, `JsonValues`, `Mappers` |
| `RequestsV1`, `RequestsV2` | the operations of each client; of v2 also `encode`, with the conversion as its constant `AsJson`, `edit` of the backend client, and `counter` | `Requests` |
| `TestMenu` | the calls of the commands of the test menu | `Requests` |
| `ClientCalls` | composition: a caller, the way to the server, what the server does and answers, the way back | `RequestsV1`, `RequestsV2`, `TestMenu`, `PatchUtils` |
| `JsonEncoding` | the conversion of a value, `copy`, and `ClientCalls` with it for `AsJson` | `ClientCalls` |
| `SocketRegistry_proofs` | lemmas: the kinds of step a registry takes and what they preserve | `SocketRegistry` |
| `Frontends_proofs` | lemmas: what the begin and the end of a connection preserve | `Frontends`, `SocketRegistry_proofs` |
| `TheiaBackendV2_proofs` | theorems about `ClientSocketsV2` and what is built on it: `TheiaBackendV2` and `KeepAlive` | both, `Frontends_proofs` |
| `TheiaBackendV1_proofs` | theorems about `ClientSocketsV1` and `TheiaBackendV1` | `TheiaBackendV1`, `Frontends_proofs` |
| `Notifications_proofs` | theorems about `Notifications` | `Notifications`, `TheiaBackendV2_proofs` |
| `WorkspaceSetup_proofs`, `DiagnosticMarkers_proofs`, `ClientCalls_proofs` | theorems about the module they name | that module |
| `MC*` | constants and symmetry for TLC | the module they name; `MCClientCalls`, `JsonEncoding` |

### How state and actions correspond to the code

**Sockets.** A socket is a number, in the order of construction. `readyState` is the property of that name;
`ABORTING` stands for a socket that was closed before it opened, whose `error` and `close` events are
still to come, and `NEW` for one that is not constructed. `uriOf` and `listenerOf` are what the closures
of the handlers captured. `callbacks` is what the last step told listeners. `openSockets[u]` is
the map of the client, with `NoSocket` for no entry; `reply` is the result or exception of the last call.
Everything a handler does is one action: `OnClose` of v1 calls the listener *and* deletes the entry.

**A listener in its own close handler.** v1 calls the listener before it deletes. A listener
that subscribes again therefore acts in the middle of the handler. `OnCloseResubscribes` is
the whole of it: the nested `subscribe`, which may throw out of the handler, and the `delete` that follows
if it does not.

**Frontends.** They are the listeners. `Connect` is the connection handler of the backend module
with `setClient`; `Disconnect` is the close of the connection with `dispose`, which closes
every registered socket and touches nothing else. `requester` and `overlapped` are ghosts: who asked for
a socket, and whether two frontends were ever connected together.

**Requests.** In the setup a request is sent in one step, answered in a second and its result seen in a
third: `pinging`, `available` or `unavailable`, and what follows. The server can go down or come up between any
two. To `configureServer` a server that is up does what it likes (`request`): it takes the workspace, declines it
with a message that says neither success nor error, or refuses it with an error, on which `process` rejects; one
that is down is unreachable. Any of these answers may get lost on its way back, which is a rejection. The handler
ends the same whether the workspace was taken or declined. `during` and `seen` are ghosts: which handlers were
running when a change came, and the number of crashes when the server last did what a handler asked. A request
whose handler was told of a failure is not handled later, and nobody else configures the server.

**Diagnostics.** An object is a number; `severity` is the set of the bits of the mask, so `|` is union,
and `Greater` compares two masks as numbers, which is what `worstOf` does with them.
Objects refer only to older ones. Messages, codes and sources are left out.

**Notifications.** Contents of the model are numbers and `history` is the sequence the server went through;
`timeline` and `now` are its undo stack. A patch has the content it leads from and the one it leads to:
applied to any other content it yields `Torn`. `feed[s]` are the messages under way on a socket. `Deliver` is
`onmessage` with everything it calls: the listener, `ClientV2` as its dispatch, each subscriber in turn, which
patches the object it `holds` in place or copies it. `following` is a ghost: who has done nothing for which a
version would be needed. It is not read by any guard but one bound (who follows does not `get`).

**Calls.** A call is a record with the arguments of all operations. `Make` is everything the caller and
the client do before the request is under way: the RPC connection if the caller is a frontend (`Received`),
the operation of the client (`RequestV1`, `RequestV2`) and the encoding of the body, or the exception of
that. `ServerHandles` and `ServerRefuses` are the server: what it reads from an edit (`ReadEdit`) is what the
fields of the command or operation say. `Ends` is `process` with the mapper, and the way back over RPC.
`meaning` and `element` are ghosts of a call: what its caller meant by it.

**JSON.** A value is a tree of objects, arrays, data and null; `type` of an object says which of the two
properties for types it has. `Copied` and `Referenced` are the two passes of `copy` as one recursion over
the tree, exact where no object occurs twice; a shared object is written out at each place either way.

## 3. Runs

| run | configuration | shows |
| --- | --- | --- |
| `v2_strict` | 2 models, 1 listener, 3 sockets, `errorWhenUnsuccessful` always set | every live socket is the entry of its model; an unsubscribed model falls silent; the client implements `Subscriptions` |
| `v2_mixed` | 2 models, one of them kept alive, 2 listeners, 3 sockets, 2 timers, any caller | an entry is the newest socket; only a later subscribe strands a live socket; the timer that sends is the remembered one and its model has an entry |
| `v2_closed` | violation | subscribe refuses a model whose subscription has ended |
| `v1_reactions` | 2 models, 2 listeners, 3 sockets, any caller, listeners that subscribe in `onClose` | an entry is the newest socket, and outlives it only if such a listener was refused |
| `v1_unsubscribe` | violation | a late close event makes `unsubscribe` miss a live socket |
| `v2_backend` | 2 frontends, 2 models, 3 sockets | without overlap callbacks reach who asked and live sockets have a connected listener; with overlap, nobody connected means nothing live |
| `v2_self_subscribe` | violation | with overlap `selfSubscribe` subscribes somebody else |
| `v1_backend` | 2 frontends, 2 models, 2 sockets, patient callers | the client behind its frontends implements `Subscriptions`; its registry recovers from `dispose` |
| `setup` | 2 changes, 3 tries, 1 crash, valid launch options, any answer or none | a handler ends unless it awaits the answer of a server that is up; after an answered ping the server is unreachable only if it crashed; of the workspaces it took since, it has the last, or one whose handler overlapped; there is a server in the end |
| `markers` | 4 diagnostics, 2 children, 2 elements, 3 severities | labels are those of the worst leaf; markers are those of the last validation |
| `notifications` | 1 model, 2 subscribers of one listener, 2 sockets, 2 changes, 15 other messages | who starts right and only patches what its socket tells follows the server; what all dispatchers make of all messages |
| `calls` | all operations of both clients from backend, frontend and menu; 4 formats, 3 models, every kind of answer, 3 elements | how calls arrive, what is told of them, and exactly which do not arrive as they were meant |

### What the properties are about

* `LiveSocketIsRegistered` relates the registry to the states of all sockets, those nobody refers
  to included. It fails in v2 for callers that do not set `errorWhenUnsuccessful` (which is why `v2_mixed`
  checks `StrandedOnlyBySuccessor` instead), and in v1 for callers that subscribe while an old socket closes.
* `KeepsPromise` is the refinement of `Subscriptions` by the registry: each socket is a channel, its
  state a phase, `callbacks` the notices. It contains the order of the callbacks, the single
  `onClose`, one active channel per model and, by its fairness, that an abandoned channel ends.
* `UnsubscribeSilences` is what a user sees of it: unsubscribe, and in the end no socket ever opened for
  the model is anything but closed, unless one subscribes again. `v2_strict` checks it; for v1 it follows
  from `KeepsPromise`.
* `StaleOnlyByRefusedListener` says in which single way a v1 entry becomes a closed socket.
* `RoutedToRequester`, `LiveListenerConnected`, `NoFrontendNoLiveSocket` relate connections and sockets
  through any number of reloads; `DisposeForgets` is the recovery v1 has and v2 has not.
* `ServerHasLastWorkspace` relates the server's configuration to the handlers of all changes, those that ended
  included: an older workspace replaces a newer one only if its handler was still running when the newer change
  came, and a workspace that was taken is there until a crash and no longer. That handlers do overlap, and then the
  older workspace may win, is what the code allows, so the property names it. `UnreachableOnlyAfterCrash`, `HandlersEnd` and
  `ServerGetsUp` are about handlers, launcher, server and other users of it at once.
* `LabelIsWorstLeaf` connects three functions that treat a severity differently (numbers in `worstOf`,
  bits in `recomputeSeverity`, a cascade in `getSeverityLabel`) and objects that are changed in place.
  `MarkersAreCurrent` says that neither an older validation nor a later change of shared objects shows.
* `IntervalHasEntry`: two objects that know nothing of each other, a timer id and the registry, agree. It
  rests on the v2 close handlers *not* deleting entries, the same code that `v2_closed` shows as a defect.
* `FollowsServer` says what a subscriber can rely on when nothing carries a version, and its ghost says what it
  costs: patches of a socket that was left, a `get` a change overtook, the result of an edit applied besides its notification, an
  object that another subscriber patched in place. `FollowsHistory` is the refinement of
  `Follower`: forward only, and in the end the last content.
* `UpdatesReachBothApis`, `ListenersAgree`, `GuardsRecogniseEvents` and `MenuPrintsAllButText` compare pieces of
  code that decide about the same message: two clients, four dispatchers, the guards, a consumer.
* The properties of `calls` are equivalences where the code does not do what was meant: `CallArrives` says
  which edits the server reads otherwise, and that there are no more (index 0 of an add, new objects of a set, references
  of an add, compound commands of a v2 frontend); `OptionsHonoured` which formats and guards are lost,
  `BodyInDeclaredFormat` which values are not converted, its part `QueryIsServers` when a listener gets into a query,
  `ModelsPatchedRight` whose patch is applied, when asking for one throws, and that frontends cannot.
* `CallerToldTruth` relates what the server did, which answer came and what the caller is told. `SuccessTold` is about calls
  that resolve, `ErrorSaysWhy` about why others fail, and `LostAnswerTold` about those that fail although they were
  done: their answer got lost, and then the caller is told the same as if nothing had been done, or it could not be mapped.
* `RemovesWhatWasMeant` relates a caller's copy, changes of others and the index or id in a request.

### Bounds

| bound | where | why it is enough |
| --- | --- | --- |
| `MaxSockets` 3 | v1, v2 | the hazards are about a socket, its successor and one of another model or a second successor; a constructed socket is never reused, so a run is a prefix of a longer one. The proofs remove the bound, for safety |
| `MaxSockets` 2 | `v1_backend` | a socket and its successor, or two models at once; three multiply the states by the frontends without new order of events, which `v1_reactions` has |
| 2 listeners or frontends | | one overtakes, or outlives, the other |
| `MaxChanges` 2, `NumberOfTries` 3 | `setup` | an older and a newer handler; a first, a middle and a last try. The code's number is larger and appears only in the count |
| `MaxCrashes` 1 | `setup` | the server is gone once between any two steps, and does or does not come back |
| `MaxDiagnostics` 4, `MaxChildren` 2 | `markers` | two problems, a diagnostic made of them and one made of that and something else: shared children, a recomputed child and one more level |
| `MaxIntervals` 2 | `v2_mixed` | a timer that was forgotten and its successor |
| `MaxChanges` 2, 2 sockets | `notifications` | a change under way when another one happens, when the socket is left for another, when a `get` or an edit is answered; the model changes only while there is an unclosed socket, since a change without one is only another initial content |
| `Requesters` {1}, one `get` at a time, not by who follows; an edit is answered before the next change; other messages alone on their socket | `notifications` | subscribers differ only in order; the answer of an edit that is overtaken leaves the subscriber as lost as one that is not; messages besides updates change nothing a subscriber keeps |
| one call at a time | `calls` | the clients keep nothing between calls but what the socket runs model; `list` and `OthersChange` stand for everything other calls do meanwhile |
| calls about the list only once it has elements, all others only while it is empty | `calls` | the others do not read it |
| few answers to `create` and to calls about the list, encoding tried with `create` of v2 only | `calls` | the mapper and the body do not depend on each other, and every body goes through the same `Encode` |
| trees: objects with up to two inner values, inner values with up to one leaf, arrays within | `calls` | each rule of the copier looks at a value, its first element and one level below; all combinations of two names, no name, array, null and datum occur |
| patches of one operation | `calls` | operations are independent for the client |

`CHECK_DEADLOCK FALSE` stands where the system really may stop: when all frontends have
come and gone, or all changes are handled.

### Fairness

* Sockets: only the close of a socket that is `CLOSING` or `ABORTING` is fair, because `ws` ends it by its
  own timer if the peer does not answer. Nothing makes a connecting socket connect, a peer send or a
  caller call.
* Notifications: a message under way on a socket is delivered or the socket is left (`WF_feed(Takes(s))`): `ws` emits what
  arrived as long as the socket is open. Nothing makes the server change the model, or anybody ask for it.
* Calls: no liveness is claimed; an answer that does not come is `Unanswered` once the HTTP library gives up.
* Setup: a timer expires, the event loop runs what is ready, a request to a server that is not there fails and a
  spawned process comes up or fails. Nothing makes a server that is up answer: axios is created with a base URL
  only (`client/model-server-client-v2.ts:40`) and `waitForReady` awaits each ping without a timeout. So `HandlersEnd`
  excepts a handler that awaits the answer of a server that is up; `ServerGetsUp` needs no such exception, as a
  launcher that awaits an answer has a server. Nothing makes the server come up, the workspace change or anybody else start a server.

### Disagreements with the documentation

1. `v2_closed`: the v2 close handler leaves the registry entry, so a model whose `CloseNotification` was
   sent ("the subscription for a model has ended", `client/model-server-notification.ts:36`) is refused as
   already subscribed, until somebody calls `unsubscribe`.
2. `v1_unsubscribe`: unsubscribe, subscribe, late close event, and the new socket has no entry: the next
   `unsubscribe` returns false and the socket goes on, although the subscription ends "directly by invoking
   the `unsubscribe` method" (`client/model-server-notification.ts:37`). Callers that wait for `onClose`
   (`Patient`) do not meet it, as `v1_backend` shows.
3. `v2_self_subscribe`: "Subscribe the frontend client of the remote `TheiaModelServerClientV2` service"
   (`theia/common/protocol.ts:49`) holds only while frontends do not overlap.

## 4. Proofs

Each theorem holds for every value of the constants that their named assumptions admit: any number of sockets,
subscribers, changes, tries, crashes and diagnostics, any sets of models, listeners, frontends and ids, infinite ones
included. The bounds of the runs are those of TLC only. Some add a hypothesis about callers; it is named where it is
used.

### Subscriptions: `SocketRegistry_proofs`, `TheiaBackendV2_proofs`

Every step of a client is first reduced to a few kinds: nothing but outputs, one socket advancing between two states,
an entry closed, a socket constructed. The proofs about both clients, the backends and the notifications split on
these kinds instead of on each action.

* `TypeCorrect`; `RegistryCorrect`: `EntryIsNewest` and `StrandedOnlyBySuccessor`, for any caller. Neither is
  inductive: that a constructed socket is the newest needs that sockets are numbered without gaps and that those not
  constructed are `NEW` and have no model. `Numbered` says that, and `RegistryInv` is the conjunction with `TypeOK`.
* `StrictRegistered`: with `StrictCallers` (`Strictness \subseteq {TRUE}`: they always set `errorWhenUnsuccessful`)
  `LiveSocketIsRegistered`. `StrictInv` adds it to `RegistryInv`: subscribe constructs a socket only where there is
  no entry, hence, by the invariant, no live socket. Without the hypothesis it is false (see 3).
* `StrictRefines`: with `StrictCallers` the client implements `Subscriptions` without its fairness. `PromiseStep` maps
  each step to one of `Subscriptions` or a stutter.

### Who uses the v2 client: `Frontends_proofs`, `TheiaBackendV2_proofs`

* `BackendTypeCorrect`, `BackendRouted` (`RoutedToRequester`), for any caller. That callbacks reach who asked needs
  that the proxy the client uses is the connected frontend's (`ClientIsCurrent`) as long as none overlap.
* `BackendAttended`, `BackendDisposed` (`LiveListenerConnected`, `NoFrontendNoLiveSocket`), with `StrictCallers`:
  `dispose` closes what is registered, so the invariant is that all that lives is.
* `BackendRefines`: with `dispose` between any two steps the client still implements `Subscriptions`.
* `NoForgottenInterval` (`IntervalHasEntry`), `KeepAliveIsClient`: with its timers, the client of the example implements
  `ClientSocketsV2`, so `KeepAliveRegistry` follows from `RegistryCorrect`. The invariant needs the type of the
  registry: a tick is a `send` of the client.

### The v1 client and its backend: `TheiaBackendV1_proofs`

* `NewestEntry`, `StaleOnlyWhenRefused` (`StaleOnlyByRefusedListener`, an action property), for any caller and
  listener: the nested subscribe in the close handler included.
* `PatientRegistered`, `PatientRefines`: with `PatientCallers` (strict ones that wait for `onClose` and do not subscribe in
  it) the registry has every live socket and implements `Subscriptions`. `PatientInv` needs `PendingIsAlone`: while
  the close event of a socket is to come, its model has no other live socket, or that event would take its entry.
* The same about the backend: `BackendTypeCorrect` and `BackendRouted` with `RemoteListeners` (a frontend behind RPC
  cannot act within the handler), `BackendRegistered`, `BackendAttended` and `BackendRefines` with `PatientCallers`.
  That live sockets have a connected listener, `BackendAttended`, no run checks for v1.

### Setup: `WorkspaceSetup_proofs`

* `SetupTypeCorrect`, `UnreachableAfterCrash` (`UnreachableOnlyAfterCrash`), `LastWorkspaceWins`
  (`ServerHasLastWorkspace`), without hypotheses: handlers may overlap, the server may crash any number of times and give any
  answers. For the second, an answer that a handler has seen stands until a crash (`AnswerStands`). For the third, the
  inductive invariant says that a request under way has a handler that awaits it (`RequestsAwaited`) and that a handler that
  still runs is among those that were running at each later change (`RunsSince`): so whoever is taken now may be
  overtaken, or has overtaken others, only by overlapping with them. A crash makes all `seen` old at once.

### Notifications: `Notifications_proofs`

* `FollowersFollow` (`FollowsServer`) and `NotificationTypeCorrect`. In the invariant the messages under way on the
  open socket of the model are a chain: each leads from where the one before it leads to, and the last to the
  model's content. Delivering the first lets a subscriber go on by one place. That several subscribers patch in turn,
  some of them objects they share, is an induction over subscribers: `Halfway` says what holds after the first k.
* `FollowersRefine`: each subscriber implements the safety of `Follower`: forward only, at each place with the content
  the model had there.
* `NotificationRegistry`: what `RegistryCorrect` says holds with subscribers, too.
* `BothApisReached`, `SameTold`, `GuardsRecognise`, `MenuPrints`: what the dispatchers make of any message with the
  type and data the model knows, by cases on its type. The proofs found two of the properties to be false as they were stated
  before (of full updates without data and of empty patches, messages no run had), and they now name those exceptions.

### Diagnostics: `DiagnosticMarkers_proofs`

* `LabelsCorrect` (`LabelIsWorstLeaf`), `MarkersCurrent` (`MarkersAreCurrent`) and `MarkersTypeCorrect`. Severities are
  compared by their `Grade`, the place of the highest bit. `DiagnosticInv` says that each severity has the grade of
  the one `recomputeSeverity` would give it, which is that of all leaves: stronger than the label, as it can be used
  for each child of a new diagnostic. `worstOf` and the comparison of masks as numbers respect the grade, and a
  recomputation changes no leaf, so that it changes neither what other objects sum up to nor a marker.

### Calls: `ClientCalls_proofs`

For any elements, formats, models, bodies, answers and options. The constants are assumed to be told apart from
what stands for nothing (`ElementsAssumption`, `FormatsAssumption`); bodies are of the forms the code
distinguishes (`BodiesAssumption`); an update result has a list of patches, of any length, each named by the
model it is for (`AnswerDataAssumption`); options are those the clients know (`OptionsAssumption`). Nothing is
assumed of `AsJson`, the conversion of bodies, which is that of `JsonEncoding` in the run.

The model enumerates calls with expressions as various as the arguments, so the proofs first find what they have
in common. `WellFormed` is that of a call: which arguments which operation has, and that an edit carries what
was meant by it. Every call of the backend, of frontends and of the test menu is well formed, the removals made
from a copy included. `RequestSays` is what the request of a well-formed call has to do with it, shown for each
operation of both clients and what RPC leaves of the arguments. The inductive invariant, `CallsInv`, is then
about one call in progress: it is one of those that are made, the request is the one made of it, the server has
not handled it, or handled or refused it, and the outcome is still to come or is that answer mapped by the
mapper of this request. A property alone is not inductive, since it forgets which call the request is of. What
the server removed is judged when it acts, while the list and the copy are at hand; `RemovesWhatWasMeant` is
carried on from there.

* `CallsTyped` (`CallsTypeOK`).
* `CallsRemoveWhatWasMeant` (`RemovesWhatWasMeant`): an index that `FindIndex` counted in the copy is that of
  the element meant as long as the list is that copy, and an id is that of the element in any list; lists have
  no duplicates through all that others insert and remove.
* `CallersToldTruth` (`CallerToldTruth`), `CallsPatchModelsRight` (`ModelsPatchedRight`): by `OutcomeIs` and
  `AtOnceIs` an outcome is one of a few kinds for any answer and mapper. That `GetPatch` finds the first patch
  of a model needs a least index.
* `CallsArrive` (`CallArrives`): `MeantRead` and `PatchesRead` go through constructors, the guards that the
  constructors use, the prototype set by the backend and the reading of the server, for each command and patch
  with each kind of value and any index. What is read otherwise is exactly what `Misread` names.
* `CallsHonourOptions` (`OptionsHonoured`): `FormatsHonoured`, `GuardsHonoured` and `QueriesHonoured`, its three
  parts.
* `BodiesConverted`: a body that goes under a JSON format is the value that was given, or the message made of
  it, converted to that very format. This is the part of `BodyInDeclaredFormat` that does not depend on what the
  conversion computes; no run lists it.

### Method, and what is only model-checked

The library's induction theorems take an operator as a parameter, which the installed provers cannot instantiate. Where induction is
needed, over subscribers, the length of a list and the age of diagnostics, it is stated for sets instead: a
set of numbers that has n whenever it has all smaller ones has all (`SetInduction`, `FromSmaller`, from the
theorem that < is well-founded). `RecursionDefines` shows with it that a recursive function exists, which its
definition by `CHOOSE` does not say. For this, `AllPatch` and `WorstOf` are recursive functions over numbers
instead of folds, and `Filtered` stands for `SelectSeq`.

Only model-checked are:

* everything under fairness (`UnsubscribeSilences`, the liveness of `KeepsPromise`, `DisposeForgets`, `HandlersEnd`,
  `ServerGetsUp`, that followers get to the end in `FollowsHistory`): the prover has neither liveness under fairness
  nor `ENABLED`;
* `BodyInDeclaredFormat` of `calls`: which values the conversion of `JsonEncoding` leaves half converted is a statement
  about a recursion over trees, an induction over data. `JsonEncoding` has `RECURSIVE` operators, so it and `MCClientCalls`
  are for TLC only; `ClientCalls` does not reach them. It is the only such module.

## 5. What is not modelled

`not_modelled` in `PROJECT.json` are the API declarations and data classes, which are types, and the
injection modules, whose one consequence, that the backend clients are singletons, is part of `Frontends`.

`partly`:

* messages: `asStringArray`, `Model.is` and `Model.toString` have no caller;
* JSON encoding: values with cycles have no JSON, and with shared objects the same as their trees;
* the test menu: labels and menus, and the commands that make markers of a validation, whose parts are `validate` in
  `ClientCalls` and `setDiagnostic` in `DiagnosticMarkers`.

Inside the modelled parts: the text of URLs, URIs and errors, HTTP headers and error codes, owners and features of commands,
the log, timing beyond order. How the v1 client's URI objects become text is left to axios. What the server does with a request
is modelled as far as the clients rely on it, and is marked external. Listeners that call `unsubscribe` or
subscribe to other models in a callback, and listeners that throw, are left out: only the re-subscription in
`onClose` of v1 meets a handler in the middle of its work. The exception of v1's `subscribe` without a listener
(`client/model-server-client.ts:187-190`) is left out, since the backend client always gives one, and so is the
cancellation token that the backend clients replace by their options in calls over RPC.

## 6. Plan

The order was that of importance: first what decides whether a user sees the changes of a model at all, then what
arrives there, then what is sent.

1. Done: the registries and their proofs, the compositions with the frontends, launcher and setup,
   diagnostics and markers.
2. Done: `Notifications` with `Messages`, the listeners and subscription clients, `Follower` and its
   refinement; `KeepAlive` as a third client of the registry.
3. Done: `ClientCalls` with `Commands`, `JsonEncoding`, `RpcProxy`, `PatchUtils`, `Mappers`, the requests of
   both clients and the test menu.
4. Done: proofs of all invariants of the runs but `BodyInDeclaredFormat`, of the one action property, and of the safety of
   all refinements.

Left is what this prover does not reach (section 4): liveness, and the conversion of JSON values for trees of every size.
