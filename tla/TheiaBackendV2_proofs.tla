------------------------ MODULE TheiaBackendV2_proofs ------------------------
(***************************************************************************)
(* Proofs about the v2 client and what is built on it: ClientSocketsV2,    *)
(* for every set of models and listeners and every number of sockets;      *)
(* TheiaBackendV2, the client behind any number of frontends; and          *)
(* KeepAlive, the client of the example, whose timer and registry agree,   *)
(* and which with its timers still is a client of API v2, so that what is  *)
(* proved of that client holds for it.                                     *)
(***************************************************************************)
EXTENDS TheiaBackendV2, KeepAlive, Frontends_proofs

(* The handlers leave the registry alone.                                  *)
LEMMA EventStep ==
    ASSUME Event
    PROVE  /\ \E s \in Sockets : SocketStep(s)
           /\ reply' = NoReply /\ openSockets' = openSockets
  BY Zenon DEF Event, SocketStep, OnOpen, OnMessage, OnError, OnConnectError, PeerLeaves, OnClose,
               Handles

(* Every step is of one of these kinds, and its outputs are well typed.    *)
Kinds ==
    \/ Still
    \/ \E s \in Sockets : Progresses(s) /\ openSockets' = openSockets
    \/ \E u \in Uris : CloseEntry(u)
    \/ \E u \in Uris, l \in Listeners, strict \in Strictness :
          ~(isSocketOpen(u) /\ strict) /\ DoSubscribe(u, l)

LEMMA SubscribeKind ==
    ASSUME NEW u \in Uris, NEW l \in Listeners, NEW strict \in Strictness, Subscribe(u, l, strict)
    PROVE  /\ callbacks' = <<>> /\ ReplyTyped
           /\ Still \/ (~(isSocketOpen(u) /\ strict) /\ DoSubscribe(u, l))
<1>1. PICK result \in Results : reply' = Reply("subscribe", u, result)
  BY DEF Subscribe, OpenOrRefuse, Results
<1>2. ReplyTyped
  BY <1>1, ReplyType DEF Calls
<1>3. Still \/ (~(isSocketOpen(u) /\ strict) /\ DoSubscribe(u, l))
  BY DEF Subscribe, OpenOrRefuse, Still
<1> QED BY <1>2, <1>3 DEF Subscribe

LEMMA StepKinds ==
    ASSUME TypeOK, Next
    PROVE  CallbacksTyped /\ ReplyTyped /\ Kinds
<1>1. <<>> \in Seq(Callbacks)
  OBVIOUS
<1>2. ASSUME NEW u \in Uris, NEW l \in Listeners, NEW strict \in Strictness,
             Subscribe(u, l, strict)
      PROVE  CallbacksTyped /\ ReplyTyped /\ Kinds
  BY <1>1, <1>2, SubscribeKind, Zenon DEF CallbacksTyped, Kinds
<1>3. ASSUME NEW u \in Uris, Unsubscribe(u)
      PROVE  CallbacksTyped /\ ReplyTyped /\ Kinds
  <2>1. ReplyTyped
    BY <1>3, ReplyType DEF Unsubscribe, Results, Calls
  <2> QED BY <1>1, <1>3, <2>1 DEF Unsubscribe, CallbacksTyped, Kinds
<1>4. ASSUME NEW u \in Uris, Send(u)
      PROVE  CallbacksTyped /\ ReplyTyped /\ Kinds
  <2>1. PICK result \in Results : reply' = Reply("send", u, result)
    BY <1>4 DEF Send, SendOutcome, Results
  <2>2. ReplyTyped
    BY <2>1, ReplyType DEF Calls
  <2> QED BY <1>1, <1>4, <2>2 DEF Send, CallbacksTyped, Kinds, Still
<1>5. CASE Event
  <2>1. PICK s \in Sockets : SocketStep(s)
    BY <1>5, EventStep
  <2>2. reply' = NoReply /\ openSockets' = openSockets
    BY <1>5, EventStep
  <2>3. ReplyTyped
    BY <2>2, ReplyType DEF NoReply, Results, Calls
  <2> QED BY <2>1, <2>2, <2>3, SocketStepKind DEF Kinds, Still
<1> QED BY <1>2, <1>3, <1>4, <1>5 DEF Next, Call

LEMMA TypeKept == TypeOK /\ [Next]_vars => TypeOK'
<1> SUFFICES ASSUME TypeOK, [Next]_vars PROVE TypeOK'
  OBVIOUS
<1>1. CASE Next
  <2>1. CallbacksTyped /\ ReplyTyped /\ Kinds
    BY <1>1, StepKinds
  <2>2. CASE Still
    BY <2>1, <2>2, TypeStep DEF Still, EntriesTyped, TypeOK
  <2>3. CASE \E s \in Sockets : Progresses(s) /\ openSockets' = openSockets
    BY <2>1, <2>3, TypeStep DEF EntriesTyped, TypeOK
  <2>4. CASE \E u \in Uris : CloseEntry(u)
    <3>1. EntriesTyped
      BY <2>4 DEF CloseEntry, EntriesTyped, TypeOK
    <3> QED BY <2>1, <2>4, <3>1, TypeStep DEF CloseEntry
  <2>5. CASE \E u \in Uris, l \in Listeners : DoSubscribe(u, l)
    <3>1. NextSocket \in Sockets
      BY <2>5, MaxSocketsAssumption
         DEF DoSubscribe, Construct, NextSocket, Sockets, TypeOK, SocketTypeOK
    <3>2. EntriesTyped
      BY <2>5, <3>1 DEF DoSubscribe, EntriesTyped, TypeOK
    <3> QED BY <2>1, <2>5, <3>2, TypeStep DEF DoSubscribe
  <2> QED BY <2>1, <2>2, <2>3, <2>4, <2>5 DEF Kinds
<1>2. CASE UNCHANGED vars
  BY <1>2 DEF vars, socketVars, TypeOK, SocketTypeOK
<1> QED BY <1>1, <1>2

(* The registry stores sockets, states are states, and so on.              *)
THEOREM TypeCorrect == Spec => []TypeOK
  BY TypeInit, TypeKept, PTL DEF Spec

----------------------------------------------------------------------------
LEMMA RegistryStep == RegistryInv /\ [Next]_vars => RegistryInv'
<1> SUFFICES ASSUME RegistryInv, [Next]_vars PROVE RegistryInv'
  OBVIOUS
<1> USE DEF RegistryInv
<1>1. TypeOK /\ TypeOK'
  BY TypeKept DEF EntryInv
<1>2. CASE UNCHANGED vars \/ Still \/ \E s \in Sockets : Progresses(s) /\ openSockets' = openSockets
  <2>1. Fades /\ openSockets' = openSockets
    BY <1>1, <1>2, StillFades, ProgressFades DEF Still, vars, socketVars
  <2> QED BY <1>1, <2>1, EntryFades, StrandedFades
<1>3. CASE \E u \in Uris : CloseEntry(u)
  BY <1>1, <1>3, CloseEntryRemoves, EntryRemoves, StrandedRemoves
<1>4. CASE \E u \in Uris, l \in Listeners : DoSubscribe(u, l)
  BY <1>1, <1>4, NewSocket, EntryConstructs, StrandedAdds DEF Adds, EntryInv
<1> QED BY <1>1, <1>2, <1>3, <1>4, StepKinds DEF Kinds

(* For every use of errorWhenUnsuccessful: an entry is the newest socket   *)
(* of its model, and a live socket without its entry has a successor.      *)
THEOREM RegistryCorrect == Spec => [](EntryIsNewest /\ StrandedOnlyBySuccessor)
<1>1. RegistryInv => EntryIsNewest /\ StrandedOnlyBySuccessor
  BY DEF RegistryInv, EntryInv
<1>2. Init => RegistryInv
  BY EntryInit
<1> QED BY <1>1, <1>2, RegistryStep, PTL DEF Spec

----------------------------------------------------------------------------
(* Callers that always pass errorWhenUnsuccessful.                         *)
StrictCallers == Strictness \subseteq {TRUE}

StrictInv == RegistryInv /\ LiveSocketIsRegistered

LEMMA StrictStep ==
    ASSUME StrictCallers, StrictInv, [Next]_vars
    PROVE  StrictInv'
<1> USE DEF StrictInv, RegistryInv, EntryInv
<1>1. RegistryInv'
  BY RegistryStep
<1>2. CASE UNCHANGED vars \/ Still \/ \E s \in Sockets : Progresses(s) /\ openSockets' = openSockets
  <2>1. Fades /\ openSockets' = openSockets
    BY <1>2, StillFades, ProgressFades DEF Still, vars, socketVars
  <2> QED BY <1>1, <2>1, LiveFades
<1>3. CASE \E u \in Uris : CloseEntry(u)
  BY <1>1, <1>3, CloseEntryRemoves, LiveRemoves
<1>4. CASE \E u \in Uris, l \in Listeners, strict \in Strictness :
               ~(isSocketOpen(u) /\ strict) /\ DoSubscribe(u, l)
  BY <1>1, <1>4, NewSocket, LiveAdds DEF StrictCallers
<1> QED BY <1>2, <1>3, <1>4, StepKinds DEF Kinds

LEMMA StrictInvariant ==
    ASSUME StrictCallers
    PROVE  Spec => []StrictInv
<1>1. Init => StrictInv
  BY EntryInit DEF StrictInv
<1>2. StrictInv /\ [Next]_vars => StrictInv'
  BY StrictStep
<1> QED BY <1>1, <1>2, PTL DEF Spec

(* With strict callers no live socket is ever out of the registry's reach. *)
THEOREM StrictRegistered ==
    ASSUME StrictCallers
    PROVE  Spec => []LiveSocketIsRegistered
<1>1. StrictInv => LiveSocketIsRegistered
  BY DEF StrictInv
<1> QED BY <1>1, StrictInvariant, PTL

----------------------------------------------------------------------------
(* Refinement.                                                             *)

LEMMA PromiseStep ==
    ASSUME StrictCallers, StrictInv, [Next]_vars
    PROVE  [Promise!Next]_(Promise!channelVars)
<1> USE DEF StrictInv, RegistryInv, EntryInv
<1>1. CASE UNCHANGED vars
  BY <1>1 DEF vars, socketVars, Promise!channelVars
<1>2. ASSUME NEW u \in Uris, NEW l \in Listeners, NEW strict \in Strictness,
             Subscribe(u, l, strict)
      PROVE  Promise!Next
  <2>1. CASE Still
    BY <1>2, <2>1, SubscribeKind, PromiseNothing DEF Still
  <2>2. CASE ~(isSocketOpen(u) /\ strict) /\ DoSubscribe(u, l)
    BY <1>2, <2>2, SubscribeKind, PromiseRequest DEF StrictCallers
  <2> QED BY <1>2, <2>1, <2>2, SubscribeKind
<1>3. ASSUME NEW u \in Uris, Unsubscribe(u) PROVE Promise!Next
  BY <1>3, PromiseGiveUp DEF Unsubscribe, CloseEntry
<1>4. ASSUME NEW u \in Uris, Send(u) PROVE Promise!Next
  BY <1>4, PromiseNothing DEF Send
<1>5. CASE Event
  BY <1>5, EventStep, PromiseEvent
<1> QED BY <1>1, <1>2, <1>3, <1>4, <1>5 DEF Next, Call

(* With strict callers the client implements Subscriptions: one active     *)
(* channel per model, and callbacks in the order it promises.              *)
THEOREM StrictRefines ==
    ASSUME StrictCallers
    PROVE  Spec => Promise!Spec
<1>1. StrictInv /\ [Next]_vars => [Promise!Next]_(Promise!channelVars)
  BY PromiseStep
<1> QED BY <1>1, PromiseInit, StrictInvariant, PTL DEF Spec, Promise!Spec

BackendInv == RegistryInv /\ FrontendInv

(* A step of the backend is a connection's begin or end, or a step of the  *)
(* client: one that constructs a socket for a connected frontend, which    *)
(* then listens, or one that does not.                                     *)
BackendKinds ==
    \/ \E f \in Listeners : Connect(f) \/ Disconnect(f)
    \/ /\ Next
       /\ \/ NoNewListener /\ \A s \in Sockets : Live(s)' => Live(s)
          \/ \E f \in Listeners :
                /\ Listens(f)
                /\ \A s \in Sockets : s # NextSocket => (Live(s)' => Live(s))
    \/ UNCHANGED backendVars

LEMMA BackendStepKinds ==
    ASSUME BackendInv, [BackendNext]_backendVars
    PROVE  BackendKinds
<1> USE DEF BackendInv, RegistryInv, EntryInv, FrontendInv
<1>1. ASSUME NEW f \in Listeners, NEW u \in Uris, NEW strict \in Strictness,
             BackendSubscribe(f, u, strict)
      PROVE  BackendKinds
  <2>1. subscriptionClient \in Listeners
    BY <1>1 DEF BackendSubscribe, Connected, ClientKnown
  <2>2. Subscribe(u, subscriptionClient, strict) /\ Next
    BY <1>1, <2>1 DEF BackendSubscribe, Next, Call
  <2>3. CASE Still
    <3>1. UNCHANGED frontendVars
      BY <1>1, <2>3 DEF BackendSubscribe, Still, RequestedBy, frontendVars, ghostVars,
                        TypeOK, SocketTypeOK
    <3> QED BY <2>2, <2>3, <3>1 DEF BackendKinds, Still, NoNewListener, Live
  <2>4. CASE DoSubscribe(u, subscriptionClient)
    <3>1. Listens(f)
      BY <1>1, <2>4 DEF BackendSubscribe, Listens, DoSubscribe, Construct
    <3>2. \A s \in Sockets : s # NextSocket => (Live(s)' => Live(s))
      BY <2>4, NewSocket DEF Adds, Constructs
    <3> QED BY <2>2, <3>1, <3>2 DEF BackendKinds
  <2> QED BY <2>1, <2>2, <2>3, <2>4, SubscribeKind
<1>2. ASSUME Next, Still \/ (\E u \in Uris : CloseEntry(u)) \/ (\E s \in Sockets : SocketStep(s)),
             UNCHANGED frontendVars
      PROVE  BackendKinds
  <2>1. NoNewListener
    BY <1>2 DEF NoNewListener, Still, CloseEntry, CloseAll, SocketStep, Opened, Received, Broken,
                PeerCloses, Refused, Closed, Aborted, Moves
  <2>2. Fades
    <3>1. CASE \E s \in Sockets : SocketStep(s)
      BY <3>1, SocketStepKind, ProgressFades, StillFades
    <3>2. CASE Still \/ \E u \in Uris : CloseEntry(u)
      BY <3>2, StillFades, CloseEntryRemoves DEF Still, Removes
    <3> QED BY <1>2, <3>1, <3>2
  <2> QED BY <1>2, <2>1, <2>2 DEF Fades, BackendKinds
<1>3. ASSUME NEW f \in Listeners, NEW u \in Uris, BackendUnsubscribe(f, u) \/ BackendSend(f, u)
      PROVE  BackendKinds
  <2>1. Next /\ UNCHANGED frontendVars
    BY <1>3 DEF BackendUnsubscribe, BackendSend, Next, Call
  <2>2. Still \/ CloseEntry(u)
    BY <1>3 DEF BackendUnsubscribe, BackendSend, Unsubscribe, Send, Still
  <2> QED BY <1>2, <2>1, <2>2
<1>4. CASE SocketEvent
  BY <1>2, <1>4, EventStep DEF SocketEvent, Next
<1> QED BY <1>1, <1>3, <1>4 DEF BackendNext, BackendKinds

LEMMA BackendStep ==
    ASSUME BackendInv, [BackendNext]_backendVars
    PROVE  BackendInv'
<1> USE DEF BackendInv
<1>1. CASE \E f \in Listeners : Connect(f) \/ Disconnect(f)
  BY <1>1, FrontendsConnect, ConnectionFades, EntryFades, StrandedFades DEF RegistryInv, EntryInv
<1>2. CASE Next
  <2>1. RegistryInv'
    BY <1>2, RegistryStep
  <2>2. CASE NoNewListener
    BY <2>1, <2>2, FrontendsWait
  <2>3. CASE \E f \in Listeners : Listens(f)
    BY <2>1, <2>3, FrontendsListen DEF RegistryInv, EntryInv
  <2>4. CASE \E f \in Listeners : Connect(f) \/ Disconnect(f)
    BY <1>1, <2>4
  <2>5. CASE UNCHANGED backendVars
    BY <2>1, <2>5, FrontendsWait DEF NoNewListener, backendVars, vars, socketVars
  <2> QED BY <2>2, <2>3, <2>4, <2>5, BackendStepKinds DEF BackendKinds
<1>3. CASE UNCHANGED backendVars
  BY <1>3, RegistryStep, FrontendsWait DEF NoNewListener, backendVars, vars, socketVars
<1> QED BY <1>1, <1>2, <1>3, BackendStepKinds DEF BackendKinds

LEMMA BackendInvariant == BackendSpec => []BackendInv
<1>1. BackendInit => BackendInv
  BY EntryInit, FrontendsInit DEF BackendInit, Init, BackendInv
<1>2. BackendInv /\ [BackendNext]_backendVars => BackendInv'
  BY BackendStep
<1> QED BY <1>1, <1>2, PTL DEF BackendSpec

(* The composed state has its types: what listens is always a frontend.    *)
THEOREM BackendTypeCorrect == BackendSpec => []BackendTypeOK
<1>1. BackendInv => BackendTypeOK
  BY DEF BackendInv, RegistryInv, EntryInv, FrontendInv, BackendTypeOK
<1> QED BY <1>1, BackendInvariant, PTL

(* Through any number of reloads, and for every use of                     *)
(* errorWhenUnsuccessful, callbacks reach the frontend that subscribed, as *)
(* long as no two are connected at a time.                                 *)
THEOREM BackendRouted == BackendSpec => []RoutedToRequester
<1>1. BackendInv => RoutedToRequester
  BY DEF BackendInv, FrontendInv
<1> QED BY <1>1, BackendInvariant, PTL

----------------------------------------------------------------------------
(* Frontends that always pass errorWhenUnsuccessful: the invariant says    *)
(* that dispose finds every live socket in the registry.                   *)
DisposableInv == BackendInv /\ LiveSocketIsRegistered /\ AttendedInv

LEMMA DisposableStep ==
    ASSUME StrictCallers, DisposableInv, [BackendNext]_backendVars
    PROVE  DisposableInv'
<1> USE DEF DisposableInv, BackendInv
<1>1. BackendInv'
  BY BackendStep
<1>2. ASSUME NEW f \in Listeners, Connect(f) \/ Disconnect(f)
      PROVE  DisposableInv'
  <2>1. Fades /\ openSockets' = openSockets
    BY <1>2, ConnectionFades DEF RegistryInv, EntryInv
  <2>2. AttendedInv'
    BY <1>2, AttendedConnects, AttendedDisconnects DEF RegistryInv
  <2> QED BY <1>1, <2>1, <2>2, LiveFades
<1>3. CASE Next
  <2>1. LiveSocketIsRegistered'
    BY <1>3, StrictStep DEF StrictInv
  <2>2. CASE NoNewListener /\ \A s \in Sockets : Live(s)' => Live(s)
    BY <1>1, <2>1, <2>2, AttendedWaits
  <2>3. CASE \E f \in Listeners :
                /\ Listens(f)
                /\ \A s \in Sockets : s # NextSocket => (Live(s)' => Live(s))
    BY <1>1, <2>1, <2>3, AttendedListens DEF RegistryInv, EntryInv
  <2>4. CASE UNCHANGED backendVars
    BY <1>1, <2>1, <2>4, AttendedWaits DEF NoNewListener, backendVars, vars, socketVars, Live
  <2> QED BY <1>2, <2>2, <2>3, <2>4, BackendStepKinds DEF BackendKinds
<1>4. CASE UNCHANGED backendVars
  BY <1>1, <1>4, StillFades, LiveFades, AttendedWaits
     DEF NoNewListener, backendVars, vars, socketVars, Live
<1> QED BY <1>2, <1>3, <1>4, BackendStepKinds DEF BackendKinds

LEMMA DisposableInvariant ==
    ASSUME StrictCallers
    PROVE  BackendSpec => []DisposableInv
<1>1. BackendInit => DisposableInv
  BY EntryInit, FrontendsInit DEF BackendInit, Init, DisposableInv, BackendInv
<1>2. DisposableInv /\ [BackendNext]_backendVars => DisposableInv'
  BY DisposableStep
<1> QED BY <1>1, <1>2, PTL DEF BackendSpec

(* As long as frontends do not overlap, a live socket belongs to one that  *)
(* is there.                                                               *)
THEOREM BackendAttended ==
    ASSUME StrictCallers
    PROVE  BackendSpec => []LiveListenerConnected
<1>1. DisposableInv => LiveListenerConnected
  BY DEF DisposableInv, AttendedInv
<1> QED BY <1>1, DisposableInvariant, PTL

(* However they overlap, when the last one has gone no socket is live.     *)
THEOREM BackendDisposed ==
    ASSUME StrictCallers
    PROVE  BackendSpec => []NoFrontendNoLiveSocket
<1>1. DisposableInv => NoFrontendNoLiveSocket
  BY DEF DisposableInv, AttendedInv
<1> QED BY <1>1, DisposableInvariant, PTL

(* Shared by frontends that come and go, with dispose in the middle of     *)
(* anything, the client still implements Subscriptions.                    *)
THEOREM BackendRefines ==
    ASSUME StrictCallers
    PROVE  BackendSpec => Promise!Spec
<1>1. DisposableInv /\ [BackendNext]_backendVars => [Promise!Next]_(Promise!channelVars)
  <2> SUFFICES ASSUME DisposableInv, [BackendNext]_backendVars
               PROVE  [Promise!Next]_(Promise!channelVars)
    OBVIOUS
  <2> USE DEF DisposableInv, BackendInv
  <2>1. CASE \E f \in Listeners : Connect(f)
    BY <2>1, PromiseNothing DEF Connect, Handles
  <2>2. CASE \E f \in Listeners : Disconnect(f)
    BY <2>2, PromiseGiveUp DEF Disconnect, Handles, RegistryInv, EntryInv
  <2>3. CASE Next
    BY <2>3, PromiseStep DEF StrictInv
  <2>4. CASE UNCHANGED backendVars
    BY <2>4 DEF backendVars, vars, socketVars, Promise!channelVars
  <2> QED BY <2>1, <2>2, <2>3, <2>4, BackendStepKinds DEF BackendKinds
<1>2. BackendInit => Promise!Init
  BY PromiseInit DEF BackendInit
<1> QED BY <1>1, <1>2, DisposableInvariant, PTL DEF BackendSpec, Promise!Spec

----------------------------------------------------------------------------
(* The client of the example.                                              *)

(* Inductive only with the first and the last conjunct: a tick must be a   *)
(* send of the client, so that the registry keeps its type.                *)
IntervalInv ==
    /\ TypeOK
    /\ IntervalHasEntry
    /\ running # {} => KeptUri \in Uris

(* The steps of the timers are steps of the client.                        *)
LEMMA KeepAliveStep ==
    ASSUME IntervalInv, [KeepAliveNext]_<<vars, keepAliveVars>>
    PROVE  [Next]_vars
<1>1. ASSUME NEW u \in Uris, NEW l \in Listeners, NEW strict \in Strictness,
             NEW timeout \in BOOLEAN, CustomSubscribe(u, l, strict, timeout)
      PROVE  Next
  BY <1>1 DEF CustomSubscribe, Next, Call
<1>2. ASSUME NEW u \in Uris, CustomUnsubscribe(u) \/ Send(u)
      PROVE  Next
  BY <1>2 DEF CustomUnsubscribe, Next, Call
<1>3. CASE Tick
  BY <1>3 DEF Tick, IntervalInv, Next, Call
<1>4. CASE Event
  BY <1>4 DEF Next
<1> QED BY <1>1, <1>2, <1>3, <1>4 DEF KeepAliveNext, vars

(* A subscribe never leaves a model without the entry it had, or without   *)
(* one when it had none.                                                   *)
LEMMA SubscribeKeepsEntries ==
    ASSUME TypeOK, NEW u \in Uris, NEW l \in Listeners, NEW strict \in Strictness,
           Subscribe(u, l, strict)
    PROVE  /\ isSocketOpen(u)'
           /\ \A v \in Uris : isSocketOpen(v) => isSocketOpen(v)'
<1>1. CASE Still /\ isSocketOpen(u)
  BY <1>1 DEF Still, isSocketOpen
<1>2. CASE DoSubscribe(u, l)
  <2>1. NextSocket # NoSocket
    BY DEF NextSocket, NoSocket, TypeOK, SocketTypeOK
  <2> QED BY <1>2, <2>1 DEF DoSubscribe, isSocketOpen, TypeOK
<1> QED BY <1>1, <1>2 DEF Subscribe, OpenOrRefuse, Still

LEMMA IntervalStep ==
    ASSUME IntervalInv, [KeepAliveNext]_<<vars, keepAliveVars>>
    PROVE  IntervalInv'
<1> USE DEF IntervalInv
<1>0. TypeOK'
  BY KeepAliveStep, TypeKept
<1>1. ASSUME NEW u \in Uris, NEW l \in Listeners, NEW strict \in Strictness,
             NEW timeout \in BOOLEAN, CustomSubscribe(u, l, strict, timeout)
      PROVE  IntervalInv'
  <2>1. /\ isSocketOpen(u)'
        /\ \A v \in Uris : isSocketOpen(v) => isSocketOpen(v)'
    BY <1>1, SubscribeKeepsEntries DEF CustomSubscribe
  <2>2. CASE timeout /\ ~isSocketOpen(u) /\ u = KeptUri
    <3>1. running = {}
      BY <2>2 DEF IntervalHasEntry
    <3>2. running' = {intervalId'}
      BY <1>1, <2>2, <3>1 DEF CustomSubscribe, SetKeepAliveInterval
    <3> QED BY <1>0, <2>1, <2>2, <3>2 DEF IntervalHasEntry
  <2>3. CASE UNCHANGED keepAliveVars
    BY <1>0, <2>1, <2>3 DEF keepAliveVars, IntervalHasEntry
  <2> QED BY <1>1, <2>2, <2>3 DEF CustomSubscribe
<1>2. ASSUME NEW u \in Uris, CustomUnsubscribe(u) PROVE IntervalInv'
  <2>1. CASE u = KeptUri
    BY <1>0, <1>2, <2>1 DEF CustomUnsubscribe, IntervalHasEntry
  <2>2. CASE u # KeptUri
    BY <1>0, <1>2, <2>2
       DEF CustomUnsubscribe, Unsubscribe, CloseEntry, IntervalHasEntry, isSocketOpen, TypeOK
  <2> QED BY <2>1, <2>2
<1>3. ASSUME UNCHANGED keepAliveVars, openSockets' = openSockets PROVE IntervalInv'
  BY <1>0, <1>3 DEF keepAliveVars, IntervalHasEntry, isSocketOpen
<1>4. CASE \E u \in Uris : Send(u) /\ UNCHANGED keepAliveVars
  BY <1>3, <1>4 DEF Send
<1>5. CASE Tick
  BY <1>3, <1>5 DEF Tick, Send
<1>6. CASE Event /\ UNCHANGED keepAliveVars
  BY <1>3, <1>6, EventStep
<1>7. CASE UNCHANGED <<vars, keepAliveVars>>
  BY <1>3, <1>7 DEF vars
<1> QED BY <1>1, <1>2, <1>4, <1>5, <1>6, <1>7 DEF KeepAliveNext

LEMMA IntervalInvariant == KeepAliveSpec => []IntervalInv
<1>1. Init /\ KeepAliveInit => IntervalInv
  BY TypeInit DEF KeepAliveInit, IntervalInv, IntervalHasEntry
<1>2. IntervalInv /\ [KeepAliveNext]_<<vars, keepAliveVars>> => IntervalInv'
  BY IntervalStep
<1> QED BY <1>1, <1>2, PTL DEF KeepAliveSpec

(* No timer is forgotten, and none runs for a model without an entry.      *)
THEOREM NoForgottenInterval == KeepAliveSpec => []IntervalHasEntry
<1>1. IntervalInv => IntervalHasEntry
  BY DEF IntervalInv
<1> QED BY <1>1, IntervalInvariant, PTL

(* The timers add nothing to what the client of API v2 may do, ...         *)
THEOREM KeepAliveIsClient == KeepAliveSpec => Spec
<1>1. IntervalInv /\ [KeepAliveNext]_<<vars, keepAliveVars>> => [Next]_vars
  BY KeepAliveStep
<1> QED BY <1>1, IntervalInvariant, PTL DEF KeepAliveSpec, Spec

(* ... so its registry is as correct as that one's.                        *)
THEOREM KeepAliveRegistry == KeepAliveSpec => [](EntryIsNewest /\ StrandedOnlyBySuccessor)
  BY KeepAliveIsClient, RegistryCorrect, PTL
==============================================================================
