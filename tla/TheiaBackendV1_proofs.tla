----------------------- MODULE TheiaBackendV1_proofs -----------------------
(***************************************************************************)
(* Proofs about ClientSocketsV1, and about TheiaBackendV1, which puts that *)
(* client behind its frontends.                                            *)
(***************************************************************************)
EXTENDS TheiaBackendV1, Frontends_proofs

(* What the events do, of a socket that does not end or of one that does.  *)
Turns(s) == Moves(s, "CONNECTING", "OPEN") \/ Moves(s, "OPEN", "CLOSING")
Ends(s) == Closed(s) \/ Aborted(s) \/ Refused(s)

Forgets(s) ==
    /\ Ends(s)
    /\ openSockets' = [openSockets EXCEPT ![uriOf[s]] = NoSocket]

(* The listener subscribes in onClose: it is refused, ...                  *)
IsRefused(s) ==
    /\ "resubscribe" \in Reactions
    /\ Ends(s)
    /\ reply' = Reply("subscribe", uriOf[s], "already subscribed")
    /\ UNCHANGED openSockets

(* ... or gets a socket, whose entry is deleted when the handler goes on.  *)
IsReplaced(s) ==
    /\ "resubscribe" \in Reactions
    /\ Ending(s)
    /\ created < MaxSockets
    /\ created' = NextSocket
    /\ readyState' = [readyState EXCEPT ![s] = "CLOSED", ![NextSocket] = "CONNECTING"]
    /\ uriOf' = [uriOf EXCEPT ![NextSocket] = uriOf[s]]
    /\ listenerOf' = [listenerOf EXCEPT ![NextSocket] = listenerOf[s]]
    /\ openSockets' = [openSockets EXCEPT ![uriOf[s]] = NoSocket]

(* A subscribe that opens a socket: by a patient caller, not before the    *)
(* close event of the last one; by a strict one, not where an entry is.    *)
Opens(u, l) ==
    /\ Patient => ~ClosePending(u)
    /\ Strictness \subseteq {TRUE} => ~isSocketOpen(u)
    /\ DoSubscribe(u, l)

Kinds ==
    \/ Still
    \/ \E s \in Sockets :
        \/ Turns(s) /\ UNCHANGED openSockets
        \/ Forgets(s)
        \/ IsRefused(s)
        \/ IsReplaced(s)
    \/ \E u \in Uris : CloseEntry(u)
    \/ \E u \in Uris, l \in Listeners : Opens(u, l)

(* The actions, one by one.                                                *)
LEMMA SubscribeKind ==
    ASSUME NEW u \in Uris, NEW l \in Listeners \union {NoListener}, NEW strict \in Strictness,
           Subscribe(u, l, strict)
    PROVE  /\ callbacks' = <<>> /\ ReplyTyped
           /\ Still \/ (l \in Listeners /\ Opens(u, l))
<1>1. PICK result \in Results : reply' = Reply("subscribe", u, result)
  BY DEF Subscribe, OpenOrRefuse, Results
<1>2. ReplyTyped
  BY <1>1, ReplyType DEF Calls
<1>3. Still \/ (l \in Listeners /\ Opens(u, l))
  BY DEF Subscribe, OpenOrRefuse, Still, Opens
<1> QED BY <1>2, <1>3 DEF Subscribe

LEMMA UnsubscribeKind ==
    ASSUME NEW u \in Uris, Unsubscribe(u)
    PROVE  callbacks' = <<>> /\ ReplyTyped /\ CloseEntry(u)
<1>1. PICK result \in Results : reply' = Reply("unsubscribe", u, result)
  BY DEF Unsubscribe, Results
<1>2. ReplyTyped
  BY <1>1, ReplyType DEF Calls
<1> QED BY <1>2 DEF Unsubscribe

LEMMA SendKind ==
    ASSUME NEW u \in Uris, Send(u)
    PROVE  callbacks' = <<>> /\ ReplyTyped /\ Still
<1>1. SendResult(u) \in Results
  BY DEF SendResult, Results
<1>2. ReplyTyped
  BY <1>1, ReplyType DEF Send, Calls
<1> QED BY <1>2 DEF Send, Still

(* The events that leave the registry alone, ...                           *)
Turning(s) == OnOpen(s) \/ OnMessage(s) \/ OnError(s) \/ PeerLeaves(s)

LEMMA TurningKind ==
    ASSUME NEW s \in Sockets, Turning(s)
    PROVE  /\ SocketStep(s) /\ reply' = NoReply
           /\ Still \/ (Turns(s) /\ UNCHANGED openSockets)
<1>1. SocketStep(s) /\ reply' = NoReply
  BY Zenon DEF Turning, OnOpen, OnMessage, OnError, PeerLeaves, SocketStep, Handles
<1>2. Still \/ (Turns(s) /\ UNCHANGED openSockets)
  BY DEF Turning, OnOpen, OnMessage, OnError, PeerLeaves, Opened, Received, Broken, PeerCloses,
         Turns, Still
<1> QED BY <1>1, <1>2

(* ... and the ends of sockets.                                            *)
LEMMA TellsEndType ==
    ASSUME NEW s \in Sockets
    PROVE  TellsEnd(s) \in Seq(Callbacks)
<1>1. \A name \in CallbackNames : <<name, s>> \in Callbacks
  BY DEF Callbacks
<1>2. <<"onError", s>> \in Callbacks /\ <<"onClose", s>> \in Callbacks
  BY <1>1 DEF CallbackNames
<1> QED BY <1>2, ShortSequences DEF TellsEnd

LEMMA OnCloseKind ==
    ASSUME NEW s \in Sockets, OnClose(s)
    PROVE  SocketStep(s) /\ reply' = NoReply /\ Forgets(s)
<1>1. SocketStep(s)
  <2>1. CASE Closed(s)
    BY <2>1 DEF OnClose, Handles, TellsEnd, Closed, Moves, SocketStep
  <2>2. CASE Aborted(s)
    BY <2>2 DEF OnClose, Handles, TellsEnd, Aborted, Moves, SocketStep
  <2>3. CASE Refused(s)
    BY <2>3 DEF OnClose, Handles, TellsEnd, Refused, Moves, SocketStep
  <2> QED BY <2>1, <2>2, <2>3 DEF OnClose
<1> QED BY <1>1 DEF OnClose, Handles, Forgets, Ends

LEMMA ResubscribeKind ==
    ASSUME TypeOK, NEW s \in Sockets, NEW strict \in Strictness, OnCloseResubscribes(s, strict)
    PROVE  /\ CallbacksTyped /\ ReplyTyped
           /\ IsRefused(s) \/ IsReplaced(s)
<1>1. CallbacksTyped
  BY TellsEndType DEF OnCloseResubscribes, CallbacksTyped
<1>2. PICK result \in Results : reply' = Reply("subscribe", uriOf[s], result)
  BY DEF OnCloseResubscribes, Results
<1>3. ReplyTyped
  BY <1>2, ReplyType DEF Calls, TypeOK, SocketTypeOK
<1>4. IsRefused(s) \/ IsReplaced(s)
  BY DEF OnCloseResubscribes, IsRefused, IsReplaced, Ends
<1> QED BY <1>1, <1>3, <1>4

LEMMA StepKinds ==
    ASSUME TypeOK, Next
    PROVE  CallbacksTyped /\ ReplyTyped /\ Kinds
<1>1. <<>> \in Seq(Callbacks)
  OBVIOUS
<1>2. ASSUME NEW u \in Uris, NEW l \in Listeners \union {NoListener}, NEW strict \in Strictness,
             Subscribe(u, l, strict)
      PROVE  CallbacksTyped /\ ReplyTyped /\ Kinds
  BY <1>1, <1>2, SubscribeKind, Zenon DEF CallbacksTyped, Kinds
<1>3. ASSUME NEW u \in Uris, Unsubscribe(u)
      PROVE  CallbacksTyped /\ ReplyTyped /\ Kinds
  BY <1>1, <1>3, UnsubscribeKind DEF CallbacksTyped, Kinds
<1>4. ASSUME NEW u \in Uris, Send(u)
      PROVE  CallbacksTyped /\ ReplyTyped /\ Kinds
  BY <1>1, <1>4, SendKind DEF CallbacksTyped, Kinds
<1>5. NoReply = Reply("none", NoUri, "none") /\ "none" \in Calls /\ "none" \in Results
  BY DEF NoReply, Calls, Results
<1>6. ASSUME NEW s \in Sockets, Turning(s) \/ OnClose(s)
      PROVE  CallbacksTyped /\ ReplyTyped /\ Kinds
  <2>1. SocketStep(s) /\ reply' = NoReply
    BY <1>6, TurningKind, OnCloseKind
  <2>2. ReplyTyped
    BY <2>1, <1>5, ReplyType
  <2>3. Kinds
    BY <1>6, TurningKind, OnCloseKind DEF Kinds
  <2> QED BY <2>1, <2>2, <2>3, SocketStepKind
<1>7. ASSUME NEW s \in Sockets, NEW strict \in Strictness, OnCloseResubscribes(s, strict)
      PROVE  CallbacksTyped /\ ReplyTyped /\ Kinds
  BY <1>7, ResubscribeKind DEF Kinds
<1> QED BY <1>2, <1>3, <1>4, <1>6, <1>7, Zenon DEF Next, Call, Event, Turning

----------------------------------------------------------------------------
(* Types.                                                                  *)

LEMMA EndsProgresses ==
    ASSUME NEW s, Ends(s) \/ Turns(s)
    PROVE  Progresses(s)
<1>1. \E m \in MoveKinds : Moves(s, m[1], m[2])
  <2>1. \/ Moves(s, "CONNECTING", "OPEN") \/ Moves(s, "CONNECTING", "CLOSED")
        \/ Moves(s, "OPEN", "CLOSING")
        \/ Moves(s, "CLOSING", "CLOSED") \/ Moves(s, "ABORTING", "CLOSED")
    BY DEF Ends, Turns, Closed, Aborted, Refused
  <2> QED BY <2>1, Zenon DEF MoveKinds
<1> QED BY <1>1 DEF Progresses

LEMMA TypeKept == TypeOK /\ [Next]_vars => TypeOK'
<1> SUFFICES ASSUME TypeOK, [Next]_vars PROVE TypeOK'
  OBVIOUS
<1>1. CASE Next
  <2>1. CallbacksTyped /\ ReplyTyped /\ Kinds
    BY <1>1, StepKinds
  <2>2. CASE Still
    BY <2>1, <2>2, TypeStep DEF Still, EntriesTyped, TypeOK
  <2>3. CASE \E s \in Sockets : (Turns(s) /\ UNCHANGED openSockets) \/ Forgets(s) \/ IsRefused(s)
    <3>1. EntriesTyped
      BY <2>3 DEF Forgets, IsRefused, EntriesTyped, TypeOK
    <3>2. \E s \in Sockets : Progresses(s)
      BY <2>3, EndsProgresses DEF Forgets, IsRefused
    <3> QED BY <2>1, <3>1, <3>2, TypeStep
  <2>4. CASE \E s \in Sockets : IsReplaced(s)
    <3>1. PICK s \in Sockets : IsReplaced(s)
      BY <2>4
    <3>2. NextSocket \in Sockets /\ created' \in 0..MaxSockets
      BY <3>1, MaxSocketsAssumption DEF IsReplaced, NextSocket, TypeOK, SocketTypeOK, Sockets
    <3>3. /\ readyState' \in [Sockets -> ReadyStates]
          /\ uriOf' \in [Sockets -> Uris \union {NoUri}]
          /\ listenerOf' \in [Sockets -> Listeners \union {NoListener}]
      BY <3>1, <3>2 DEF IsReplaced, TypeOK, SocketTypeOK, ReadyStates
    <3>4. openSockets' \in [Uris -> Sockets \union {NoSocket}]
      BY <3>1 DEF IsReplaced, TypeOK
    <3> QED BY <2>1, <3>2, <3>3, <3>4 DEF CallbacksTyped, ReplyTyped, TypeOK, SocketTypeOK
  <2>5. CASE \E u \in Uris : CloseEntry(u)
    <3>1. EntriesTyped
      BY <2>5 DEF CloseEntry, EntriesTyped, TypeOK
    <3> QED BY <2>1, <2>5, <3>1, TypeStep DEF CloseEntry
  <2>6. CASE \E u \in Uris, l \in Listeners : Opens(u, l)
    <3>1. NextSocket \in Sockets
      BY <2>6, MaxSocketsAssumption
         DEF Opens, DoSubscribe, Construct, NextSocket, Sockets, TypeOK, SocketTypeOK
    <3>2. EntriesTyped
      BY <2>6, <3>1 DEF Opens, DoSubscribe, EntriesTyped, TypeOK
    <3> QED BY <2>1, <2>6, <3>2, TypeStep DEF Opens, DoSubscribe
  <2> QED BY <2>1, <2>2, <2>3, <2>4, <2>5, <2>6 DEF Kinds
<1>2. CASE UNCHANGED vars
  BY <1>2 DEF vars, socketVars, TypeOK, SocketTypeOK
<1> QED BY <1>1, <1>2

(* For every behaviour of listeners and callers.                           *)
THEOREM TypeCorrect == Spec => []TypeOK
  BY TypeInit, TypeKept, PTL DEF Spec

----------------------------------------------------------------------------
(* The registry.                                                           *)

(* A socket that has a state other than NEW has a model.                   *)
LEMMA EndingHasUri ==
    ASSUME EntryInv, NEW s \in Sockets, Ends(s) \/ Ending(s)
    PROVE  uriOf[s] \in Uris /\ s # NextSocket
  BY DEF EntryInv, Ends, Ending, Closed, Aborted, Refused, Moves, Numbered, TypeOK, SocketTypeOK,
         Sockets, NextSocket

LEMMA ForgetsRemoves ==
    ASSUME EntryInv, NEW s \in Sockets, Forgets(s)
    PROVE  Removes(uriOf[s])
<1>1. uriOf[s] \in Uris
  BY EndingHasUri DEF Forgets
<1>2. Fades
  BY EndsProgresses, ProgressFades DEF Forgets, EntryInv
<1> QED BY <1>1, <1>2 DEF Removes, Forgets, EntryInv, TypeOK

LEMMA ReplacedConstructs ==
    ASSUME EntryInv, NEW s \in Sockets, IsReplaced(s)
    PROVE  /\ uriOf[s] \in Uris
           /\ Constructs(uriOf[s])
           /\ openSockets'[uriOf[s]] = NoSocket
<1> USE DEF EntryInv, TypeOK, SocketTypeOK
<1>1. uriOf[s] \in Uris /\ s # NextSocket
  BY EndingHasUri DEF IsReplaced
<1>2. NextSocket \in Sockets
  BY MaxSocketsAssumption DEF IsReplaced, NextSocket, Sockets
<1>3. readyState[s] # "NEW"
  BY DEF IsReplaced, Ending
<1>4. \A t \in Sockets : uriOf[t] = uriOf[s] => t < NextSocket
  BY <1>1, NoUriAssumption DEF Numbered, NextSocket, Sockets
<1>5. /\ readyState'[NextSocket] = "CONNECTING" /\ uriOf'[NextSocket] = uriOf[s]
      /\ \A t \in Sockets : t # NextSocket =>
            /\ readyState'[t] = IF t = s THEN "CLOSED" ELSE readyState[t]
            /\ uriOf'[t] = uriOf[t]
  BY <1>1, <1>2 DEF IsReplaced
<1>6. \A v \in Uris : openSockets'[v] = IF v = uriOf[s] THEN NoSocket ELSE openSockets[v]
  BY <1>1 DEF IsReplaced
<1> QED BY <1>1, <1>2, <1>3, <1>4, <1>5, <1>6 DEF Constructs, IsReplaced, Live

LEMMA EntryStep == EntryInv /\ [Next]_vars => EntryInv'
<1> SUFFICES ASSUME EntryInv, [Next]_vars PROVE EntryInv'
  OBVIOUS
<1>1. TypeOK /\ TypeOK'
  BY TypeKept DEF EntryInv
<1>2. CASE \/ UNCHANGED vars \/ Still
           \/ \E s \in Sockets : (Turns(s) /\ UNCHANGED openSockets) \/ IsRefused(s)
  <2>1. Fades /\ openSockets' = openSockets
    BY <1>1, <1>2, StillFades, EndsProgresses, ProgressFades
       DEF Still, vars, socketVars, IsRefused
  <2> QED BY <1>1, <2>1, EntryFades
<1>3. CASE \E s \in Sockets : Forgets(s)
  BY <1>1, <1>3, ForgetsRemoves, EndingHasUri, EntryRemoves DEF Forgets
<1>4. CASE \E s \in Sockets : IsReplaced(s)
  BY <1>1, <1>4, ReplacedConstructs, EntryConstructs
<1>5. CASE \E u \in Uris : CloseEntry(u)
  BY <1>1, <1>5, CloseEntryRemoves, EntryRemoves
<1>6. CASE \E u \in Uris, l \in Listeners : Opens(u, l)
  BY <1>1, <1>6, NewSocket, EntryConstructs DEF Adds, Opens, EntryInv
<1> QED BY <1>1, <1>2, <1>3, <1>4, <1>5, <1>6, StepKinds DEF Kinds

LEMMA EntryInvariant == Spec => []EntryInv
<1>1. Init => EntryInv
  BY EntryInit DEF RegistryInv
<1> QED BY <1>1, EntryStep, PTL DEF Spec

(* Even for callers that warn, hurry or subscribe in onClose: an entry is  *)
(* the newest socket of its model, late close events or not.               *)
THEOREM NewestEntry == Spec => []EntryIsNewest
<1>1. EntryInv => EntryIsNewest
  BY DEF EntryInv
<1> QED BY <1>1, EntryInvariant, PTL

----------------------------------------------------------------------------
(* Entries of closed sockets.                                              *)

StaleStep ==
    \A u \in Uris : Stale(u)' /\ ~Stale(u) => reply' = Reply("subscribe", u, "already subscribed")

LEMMA StaleNext ==
    ASSUME EntryInv, [Next]_vars
    PROVE  StaleStep
<1> SUFFICES ASSUME NEW u \in Uris, Stale(u)', ~Stale(u)
             PROVE  reply' = Reply("subscribe", u, "already subscribed")
  BY DEF StaleStep
<1> DEFINE e == openSockets[u]
<1> USE DEF EntryInv, TypeOK, SocketTypeOK, Stale, isSocketOpen
<1>1. CASE UNCHANGED vars \/ Still
  BY <1>1 DEF vars, socketVars, Still
<1>2. ASSUME NEW s \in Sockets, Turns(s), UNCHANGED openSockets PROVE FALSE
  BY <1>2 DEF Turns, Moves, NoSocket
<1>3. ASSUME NEW s \in Sockets, Forgets(s) PROVE FALSE
  <2>1. uriOf[s] \in Uris /\ uriOf[s] # u
    BY <1>3, EndingHasUri DEF Forgets
  <2>2. openSockets'[u] = e /\ e \in Sockets /\ readyState'[e] = "CLOSED"
    BY <1>3, <2>1 DEF Forgets
  <2>3. e # s
    BY <2>1, <2>2 DEF EntryIsNewest, Sockets, NoSocket
  <2> QED BY <1>3, <2>2, <2>3 DEF Forgets, Ends, Closed, Aborted, Refused, Moves, Sockets, NoSocket
<1>4. ASSUME NEW s \in Sockets, IsRefused(s)
      PROVE  reply' = Reply("subscribe", u, "already subscribed")
  <2>1. e # NoSocket /\ e = s
    BY <1>4 DEF IsRefused, Ends, Closed, Aborted, Refused, Moves
  <2>2. uriOf[s] = u
    BY <2>1 DEF EntryIsNewest
  <2> QED BY <1>4, <2>2 DEF IsRefused
<1>5. ASSUME NEW s \in Sockets, IsReplaced(s) PROVE FALSE
  <2>1. uriOf[s] \in Uris /\ uriOf[s] # u
    BY <1>5, ReplacedConstructs DEF NoSocket
  <2>2. openSockets'[u] = e /\ e \in Sockets /\ readyState'[e] = "CLOSED"
    BY <1>5, <2>1 DEF IsReplaced
  <2>3. uriOf[e] = u
    BY <2>2 DEF EntryIsNewest, Sockets, NoSocket
  <2>4. e # s
    BY <2>1, <2>3
  <2>5. e <= created
    BY <2>2, <2>3, NoUriAssumption DEF Numbered, Sockets
  <2>6. e # NextSocket
    BY <2>2, <2>5 DEF NextSocket, Sockets
  <2> QED BY <1>5, <2>2, <2>4, <2>6 DEF IsReplaced, Sockets, NoSocket
<1>6. ASSUME NEW v \in Uris, CloseEntry(v) PROVE FALSE
  <2>1. openSockets'[u] = e /\ e \in Sockets /\ readyState'[e] = "CLOSED"
    BY <1>6 DEF CloseEntry
  <2> QED BY <1>6, <2>1 DEF CloseEntry, CloseAll, AfterClose, Sockets, NoSocket
<1>7. ASSUME NEW v \in Uris, NEW l \in Listeners, Opens(v, l) PROVE FALSE
  <2>1. /\ NextSocket \in Sockets /\ NextSocket \notin {openSockets[w] : w \in Uris}
        /\ readyState' = [readyState EXCEPT ![NextSocket] = "CONNECTING"]
    <3>1. NextSocket \in Sockets
      BY <1>7, NewSocket DEF Opens, Adds, Constructs
    <3>2. ASSUME NEW w \in Uris, openSockets[w] = NextSocket PROVE FALSE
      BY <3>1, <3>2, NoUriAssumption DEF EntryIsNewest, Numbered, NextSocket, NoSocket, Sockets
    <3> QED BY <1>7, <3>1, <3>2 DEF Opens, DoSubscribe, Construct
  <2>2. openSockets'[u] # NextSocket
    BY <2>1
  <2>3. openSockets'[u] = e
    BY <1>7, <2>2 DEF Opens, DoSubscribe
  <2> QED BY <2>1, <2>2, <2>3 DEF Sockets, NoSocket
<1> QED BY <1>1, <1>2, <1>3, <1>4, <1>5, <1>6, <1>7, StepKinds DEF Kinds

(* The registry forgets what ended: an entry becomes that of a closed      *)
(* socket in no way but by a listener whose subscribe in onClose throws.   *)
THEOREM StaleOnlyWhenRefused == Spec => StaleOnlyByRefusedListener
<1>1. EntryInv /\ [Next]_vars => [StaleStep]_vars
  BY StaleNext
<1>2. Spec => [][StaleStep]_vars
  BY <1>1, EntryInvariant, PTL DEF Spec
<1> QED BY <1>2 DEF StaleOnlyByRefusedListener, StaleStep

----------------------------------------------------------------------------
(* Callers that pass errorWhenUnsuccessful and subscribe again only after  *)
(* onClose, but not in it.  The run TheiaBackendV1 has such callers.       *)
PatientCallers == Patient = TRUE /\ Strictness \subseteq {TRUE} /\ Reactions \subseteq {"none"}

(* While the close event of a socket is still to come, its model has no    *)
(* live socket.  Without it LiveSocketIsRegistered is not inductive: the   *)
(* late close event would take the entry from under a newer socket.        *)
PendingIsAlone ==
    \A s, t \in Sockets :
        uriOf[s] = uriOf[t] /\ readyState[s] \in {"CLOSING", "ABORTING"} => ~Live(t)

PatientInv == EntryInv /\ LiveSocketIsRegistered /\ PendingIsAlone

(* Where no socket of a model is live, nothing but a new socket can break  *)
(* PendingIsAlone; and where one is, it is the only one that may close.    *)
LEMMA PendingTurns ==
    ASSUME PatientInv, NEW s \in Sockets, Turns(s) \/ Ends(s)
    PROVE  PendingIsAlone'
<1> USE DEF PatientInv, EntryInv, TypeOK, SocketTypeOK
<1>1. \A r, t \in Sockets : Live(r) /\ Live(t) /\ uriOf[r] = uriOf[t] => r = t
  BY DEF LiveSocketIsRegistered
<1>2. PICK from \in ReadyStates, to \in ReadyStates :
         /\ <<from, to>> \in MoveKinds
         /\ Moves(s, from, to)
  BY Zenon DEF Turns, Ends, Closed, Aborted, Refused, MoveKinds, ReadyStates
<1>3. <<from, to>> \in MoveKinds /\ to \in {"CLOSING", "OPEN"} => from \in {"CONNECTING", "OPEN"}
  BY DEF MoveKinds
<1>4. /\ uriOf' = uriOf
      /\ \A t \in Sockets : readyState'[t] = IF t = s THEN to ELSE readyState[t]
      /\ to \in {"OPEN", "CLOSING", "CLOSED"}
      /\ to # "CLOSED" => Live(s)
  BY <1>2, <1>3 DEF Moves, MoveKinds, Live
<1> QED BY <1>1, <1>4 DEF PendingIsAlone, Live

LEMMA PendingCloses ==
    ASSUME PatientInv, NEW u \in Uris, CloseEntry(u)
    PROVE  PendingIsAlone'
<1> USE DEF PatientInv, EntryInv, TypeOK, SocketTypeOK
<1>1. \A r, t \in Sockets : Live(r) /\ Live(t) /\ uriOf[r] = uriOf[t] => r = t
  BY DEF LiveSocketIsRegistered
<1>2. /\ uriOf' = uriOf
      /\ \A t \in Sockets : readyState'[t] = IF t = openSockets[u] THEN AfterClose(readyState[t])
                                                                    ELSE readyState[t]
  BY DEF CloseEntry, CloseAll
<1>3. \A t \in Sockets : /\ Live(t)' => Live(t)
                         /\ readyState'[t] \in {"CLOSING", "ABORTING"}
                              => readyState[t] \in {"CLOSING", "ABORTING"}
                                 \/ (Live(t) /\ ~Live(t)')
  BY <1>2 DEF AfterClose, Live
<1> QED BY <1>1, <1>2, <1>3 DEF PendingIsAlone

LEMMA PendingOpens ==
    ASSUME PatientCallers, PatientInv, NEW u \in Uris, NEW l, Opens(u, l)
    PROVE  PendingIsAlone'
<1> USE DEF PatientInv, EntryInv, TypeOK, SocketTypeOK
<1>1. \A s \in Sockets : uriOf[s] = u => readyState[s] \notin {"CLOSING", "ABORTING"}
  BY DEF PatientCallers, Opens, ClosePending
<1>2. /\ NextSocket \in Sockets
      /\ readyState' = [readyState EXCEPT ![NextSocket] = "CONNECTING"]
      /\ uriOf' = [uriOf EXCEPT ![NextSocket] = u]
  BY NewSocket DEF Opens, DoSubscribe, Construct, Adds, Constructs
<1> QED BY <1>1, <1>2 DEF PendingIsAlone, Live

(* The end of a socket leaves no live one of its model behind.             *)
LEMMA LiveForgets ==
    ASSUME PatientInv, NEW s \in Sockets, Forgets(s)
    PROVE  LiveSocketIsRegistered'
<1> USE DEF PatientInv
<1>1. uriOf[s] \in Uris /\ Removes(uriOf[s])
  BY ForgetsRemoves, EndingHasUri DEF Forgets
<1>2. ASSUME NEW t \in Sockets, Live(t)', t = openSockets[uriOf[s]] PROVE FALSE
  <2>1. Live(t)
    BY <1>1, <1>2 DEF Removes, Fades
  <2>2. t # NoSocket /\ uriOf[t] = uriOf[s]
    BY <1>1, <1>2 DEF EntryInv, EntryIsNewest, isSocketOpen, NoSocket, Sockets
  <2>3. readyState[s] \notin {"CLOSING", "ABORTING"}
    BY <2>1, <2>2 DEF PendingIsAlone
  <2>4. Refused(s)
    BY <2>3 DEF Forgets, Ends, Closed, Aborted, Moves
  <2>5. Live(s) /\ ~Live(s)'
    BY <2>4 DEF Refused, Moves, Live, EntryInv, TypeOK, SocketTypeOK
  <2> QED BY <1>2, <2>5 DEF LiveSocketIsRegistered
<1> QED BY <1>1, <1>2, LiveRemoves

LEMMA PatientStep ==
    ASSUME PatientCallers, PatientInv, [Next]_vars
    PROVE  PatientInv'
<1> USE DEF PatientInv
<1>1. EntryInv'
  BY EntryStep
<1>2. TypeOK
  BY DEF EntryInv
<1>3. CASE UNCHANGED vars \/ Still
  <2>1. PendingIsAlone'
    BY <1>3 DEF vars, socketVars, Still, PendingIsAlone, Live
  <2>2. Fades /\ openSockets' = openSockets
    BY <1>3, StillFades DEF vars, socketVars, Still
  <2> QED BY <1>1, <2>1, <2>2, LiveFades
<1>4. CASE \E s \in Sockets : Turns(s) /\ UNCHANGED openSockets
  BY <1>1, <1>2, <1>4, EndsProgresses, ProgressFades, LiveFades, PendingTurns
<1>5. CASE \E s \in Sockets : Forgets(s)
  BY <1>1, <1>5, LiveForgets, PendingTurns DEF Forgets
<1>6. CASE \E s \in Sockets : IsRefused(s) \/ IsReplaced(s)
  BY <1>6 DEF IsRefused, IsReplaced, PatientCallers
<1>7. CASE \E u \in Uris : CloseEntry(u)
  BY <1>1, <1>2, <1>7, CloseEntryRemoves, LiveRemoves, PendingCloses
<1>8. CASE \E u \in Uris, l \in Listeners : Opens(u, l)
  BY <1>1, <1>2, <1>8, NewSocket, LiveAdds, PendingOpens DEF Opens, PatientCallers, EntryInv
<1> QED BY <1>2, <1>3, <1>4, <1>5, <1>6, <1>7, <1>8, StepKinds DEF Kinds

LEMMA PatientInit == Init => PatientInv
  BY EntryInit DEF PatientInv, RegistryInv, Init, SocketInit, PendingIsAlone

(* Patient callers keep every live socket within the registry's reach.     *)
THEOREM PatientRegistered ==
    ASSUME PatientCallers
    PROVE  Spec => []LiveSocketIsRegistered
<1>1. PatientInv /\ [Next]_vars => PatientInv'
  BY PatientStep
<1>2. PatientInv => LiveSocketIsRegistered
  BY DEF PatientInv
<1> QED BY <1>1, <1>2, PatientInit, PTL DEF Spec

----------------------------------------------------------------------------
(* Refinement.                                                             *)

LEMMA PromiseStep ==
    ASSUME PatientCallers, PatientInv, [Next]_vars
    PROVE  [Promise!Next]_(Promise!channelVars)
<1> USE DEF PatientInv, EntryInv
<1>1. CASE UNCHANGED vars
  BY <1>1 DEF vars, socketVars, Promise!channelVars
<1>2. ASSUME NEW u \in Uris, NEW l \in Listeners \union {NoListener}, NEW strict \in Strictness,
             Subscribe(u, l, strict)
      PROVE  Promise!Next
  <2>1. CASE Still
    BY <1>2, <2>1, SubscribeKind, PromiseNothing DEF Still
  <2>2. CASE Opens(u, l)
    BY <1>2, <2>2, SubscribeKind, PromiseRequest DEF PatientCallers, Opens
  <2> QED BY <1>2, <2>1, <2>2, SubscribeKind
<1>3. ASSUME NEW u \in Uris, Unsubscribe(u) PROVE Promise!Next
  BY <1>3, PromiseGiveUp DEF Unsubscribe, CloseEntry
<1>4. ASSUME NEW u \in Uris, Send(u) PROVE Promise!Next
  BY <1>4, PromiseNothing DEF Send
<1>5. ASSUME NEW s \in Sockets, Turning(s) \/ OnClose(s) PROVE Promise!Next
  BY <1>5, TurningKind, OnCloseKind, PromiseEvent
<1>6. ASSUME NEW s \in Sockets, NEW strict \in Strictness, OnCloseResubscribes(s, strict)
      PROVE  FALSE
  BY <1>6 DEF OnCloseResubscribes, PatientCallers
<1> QED BY <1>1, <1>2, <1>3, <1>4, <1>5, <1>6, Zenon DEF Next, Call, Event, Turning

(* To patient callers the client of API v1 keeps the promises that the one *)
(* of v2 keeps to strict callers.                                          *)
THEOREM PatientRefines ==
    ASSUME PatientCallers
    PROVE  Spec => Promise!Spec
<1>1. PatientInv /\ [Next]_vars => PatientInv'
  BY PatientStep
<1>2. PatientInv /\ [Next]_vars => [Promise!Next]_(Promise!channelVars)
  BY PromiseStep
<1> QED BY <1>1, <1>2, PatientInit, PromiseInit, PTL DEF Spec, Promise!Spec

----------------------------------------------------------------------------
(* The backend.  Its listeners are proxies of frontends: what they do with *)
(* onClose happens elsewhere and later, not inside the handler.            *)
RemoteListeners == Reactions \subseteq {"none"}

BackendInv == EntryInv /\ FrontendInv

(* As in TheiaBackendV2_proofs.                                            *)
BackendKinds ==
    \/ \E f \in Listeners : Connect(f) \/ Disconnect(f)
    \/ /\ Next
       /\ \/ NoNewListener /\ \A s \in Sockets : Live(s)' => Live(s)
          \/ \E f \in Listeners :
                /\ Listens(f)
                /\ \A s \in Sockets : s # NextSocket => (Live(s)' => Live(s))
    \/ UNCHANGED backendVars

LEMMA SocketStepFades ==
    ASSUME TypeOK, NEW s \in Sockets, SocketStep(s)
    PROVE  /\ UNCHANGED <<created, listenerOf>>
           /\ \A t \in Sockets : Live(t)' => Live(t)
<1>1. UNCHANGED <<created, listenerOf>>
  BY DEF SocketStep, Opened, Received, Broken, PeerCloses, Refused, Closed, Aborted, Moves
<1>2. Fades
  BY SocketStepKind, ProgressFades, StillFades
<1> QED BY <1>1, <1>2 DEF Fades

LEMMA BackendStepKinds ==
    ASSUME RemoteListeners, BackendInv, [BackendNext]_backendVars
    PROVE  BackendKinds
<1> USE DEF BackendInv, EntryInv, FrontendInv
<1>1. ASSUME NEW f \in Listeners, NEW u \in Uris, NEW strict \in Strictness,
             BackendSubscribe(f, u, strict)
      PROVE  BackendKinds
  <2>1. subscriptionClient \in Listeners
    BY <1>1 DEF BackendSubscribe, Connected, ClientKnown
  <2>2. Subscribe(u, subscriptionClient, strict) /\ Next
    BY <1>1, <2>1 DEF BackendSubscribe, Next, Call
  <2>3. CASE Still
    <3>1. UNCHANGED frontendVars
      BY <1>1, <2>3 DEF BackendSubscribe, Still, RequestedBy, frontendVars, ghostVars,
                        TypeOK, SocketTypeOK
    <3> QED BY <2>2, <2>3, <3>1 DEF BackendKinds, Still, NoNewListener, Live
  <2>4. CASE Opens(u, subscriptionClient)
    <3>1. Listens(f)
      BY <1>1, <2>4 DEF BackendSubscribe, Listens, Opens, DoSubscribe, Construct
    <3>2. \A s \in Sockets : s # NextSocket => (Live(s)' => Live(s))
      BY <2>4, NewSocket DEF Opens, Adds, Constructs
    <3> QED BY <2>2, <3>1, <3>2 DEF BackendKinds
  <2> QED BY <2>1, <2>2, <2>3, <2>4, SubscribeKind
<1>2. ASSUME NEW f \in Listeners, NEW u \in Uris, BackendUnsubscribe(f, u) \/ BackendSend(f, u)
      PROVE  BackendKinds
  <2>1. Next /\ UNCHANGED frontendVars
    BY <1>2 DEF BackendUnsubscribe, BackendSend, Next, Call
  <2>2. Still \/ CloseEntry(u)
    BY <1>2, UnsubscribeKind, SendKind DEF BackendUnsubscribe, BackendSend
  <2>3. NoNewListener
    BY <2>1, <2>2 DEF NoNewListener, Still, CloseEntry, CloseAll
  <2>4. Fades
    BY <2>2, StillFades, CloseEntryRemoves DEF Still, Removes
  <2> QED BY <2>1, <2>3, <2>4 DEF Fades, BackendKinds
<1>3. CASE SocketEvent
  <2>1. PICK s \in Sockets : Turning(s) \/ OnClose(s)
    <3>1. ASSUME NEW s \in Sockets, NEW strict \in Strictness, OnCloseResubscribes(s, strict)
          PROVE  FALSE
      BY <3>1 DEF OnCloseResubscribes, RemoteListeners
    <3> QED BY <1>3, <3>1, Zenon DEF SocketEvent, Event, Turning
  <2>2. SocketStep(s)
    BY <2>1, TurningKind, OnCloseKind
  <2> QED BY <1>3, <2>2, SocketStepFades DEF SocketEvent, Next, NoNewListener, BackendKinds
<1> QED BY <1>1, <1>2, <1>3 DEF BackendNext, BackendKinds

LEMMA BackendStep ==
    ASSUME RemoteListeners, BackendInv, [BackendNext]_backendVars
    PROVE  BackendInv'
<1> USE DEF BackendInv
<1>1. CASE \E f \in Listeners : Connect(f) \/ Disconnect(f)
  BY <1>1, FrontendsConnect, ConnectionFades, EntryFades DEF EntryInv
<1>2. CASE Next
  <2>1. EntryInv'
    BY <1>2, EntryStep
  <2>2. CASE NoNewListener
    BY <2>1, <2>2, FrontendsWait
  <2>3. CASE \E f \in Listeners : Listens(f)
    BY <2>1, <2>3, FrontendsListen DEF EntryInv
  <2>4. CASE UNCHANGED backendVars
    BY <2>1, <2>4, FrontendsWait DEF NoNewListener, backendVars, vars, socketVars
  <2> QED BY <1>1, <2>2, <2>3, <2>4, BackendStepKinds DEF BackendKinds
<1>3. CASE UNCHANGED backendVars
  BY <1>3, EntryStep, FrontendsWait DEF NoNewListener, backendVars, vars, socketVars
<1> QED BY <1>1, <1>2, <1>3, BackendStepKinds DEF BackendKinds

LEMMA BackendInvariant ==
    ASSUME RemoteListeners
    PROVE  BackendSpec => []BackendInv
<1>1. BackendInit => BackendInv
  BY EntryInit, FrontendsInit DEF BackendInit, Init, BackendInv, RegistryInv
<1>2. BackendInv /\ [BackendNext]_backendVars => BackendInv'
  BY BackendStep
<1> QED BY <1>1, <1>2, PTL DEF BackendSpec

(* The composed state has its types.                                       *)
THEOREM BackendTypeCorrect ==
    ASSUME RemoteListeners
    PROVE  BackendSpec => []BackendTypeOK
<1>1. BackendInv => BackendTypeOK
  BY DEF BackendInv, EntryInv, FrontendInv, BackendTypeOK
<1> QED BY <1>1, BackendInvariant, PTL

(* Callbacks reach the frontend that subscribed, as long as no two are     *)
(* connected at a time, whether or not callers are strict or patient.      *)
THEOREM BackendRouted ==
    ASSUME RemoteListeners
    PROVE  BackendSpec => []RoutedToRequester
<1>1. BackendInv => RoutedToRequester
  BY DEF BackendInv, FrontendInv
<1> QED BY <1>1, BackendInvariant, PTL

----------------------------------------------------------------------------
(* Frontends that are strict and patient.                                  *)
DisposableInv == PatientInv /\ FrontendInv /\ AttendedInv

LEMMA DisposableStep ==
    ASSUME PatientCallers, DisposableInv, [BackendNext]_backendVars
    PROVE  DisposableInv'
<1> USE DEF DisposableInv, PatientInv
<1>0. RemoteListeners /\ BackendInv
  BY DEF PatientCallers, RemoteListeners, BackendInv
<1>1. BackendInv'
  BY <1>0, BackendStep
<1>2. ASSUME NEW f \in Listeners, Connect(f) \/ Disconnect(f)
      PROVE  DisposableInv'
  <2>1. Fades /\ openSockets' = openSockets
    BY <1>2, ConnectionFades DEF EntryInv
  <2>2. AttendedInv'
    BY <1>2, AttendedConnects, AttendedDisconnects
  <2>3. PendingIsAlone'
    <3>1. CASE Connect(f)
      BY <3>1 DEF Connect, PendingIsAlone, Live
    <3>2. CASE Disconnect(f)
      BY <3>2, DisposeClosesAll DEF PendingIsAlone
    <3> QED BY <1>2, <3>1, <3>2
  <2> QED BY <1>1, <2>1, <2>2, <2>3, LiveFades DEF BackendInv
<1>3. CASE Next
  <2>1. PatientInv'
    BY <1>3, PatientStep
  <2>2. CASE NoNewListener /\ \A s \in Sockets : Live(s)' => Live(s)
    BY <1>1, <2>1, <2>2, AttendedWaits DEF BackendInv
  <2>3. CASE \E f \in Listeners :
                /\ Listens(f)
                /\ \A s \in Sockets : s # NextSocket => (Live(s)' => Live(s))
    BY <1>1, <2>1, <2>3, AttendedListens DEF BackendInv, EntryInv
  <2>4. CASE UNCHANGED backendVars
    BY <1>1, <2>1, <2>4, AttendedWaits
       DEF BackendInv, NoNewListener, backendVars, vars, socketVars, Live
  <2> QED BY <1>0, <1>2, <2>2, <2>3, <2>4, BackendStepKinds DEF BackendKinds
<1>4. CASE UNCHANGED backendVars
  <2>1. PatientInv'
    BY <1>4, PatientStep DEF backendVars
  <2> QED BY <1>1, <1>4, <2>1, AttendedWaits
          DEF BackendInv, NoNewListener, backendVars, vars, socketVars, Live
<1> QED BY <1>0, <1>2, <1>3, <1>4, BackendStepKinds DEF BackendKinds

LEMMA DisposableInvariant ==
    ASSUME PatientCallers
    PROVE  BackendSpec => []DisposableInv
<1>1. BackendInit => DisposableInv
  BY PatientInit, FrontendsInit DEF BackendInit, Init, DisposableInv
<1>2. DisposableInv /\ [BackendNext]_backendVars => DisposableInv'
  BY DisposableStep
<1> QED BY <1>1, <1>2, PTL DEF BackendSpec

(* dispose and late close events leave every live socket registered, so a  *)
(* frontend's unsubscribe, or its end, still closes it.                    *)
THEOREM BackendRegistered ==
    ASSUME PatientCallers
    PROVE  BackendSpec => []LiveSocketIsRegistered
<1>1. DisposableInv => LiveSocketIsRegistered
  BY DEF DisposableInv, PatientInv
<1> QED BY <1>1, DisposableInvariant, PTL

(* What no run checks of v1: a live socket belongs to a frontend that is   *)
(* there.                                                                  *)
THEOREM BackendAttended ==
    ASSUME PatientCallers
    PROVE  BackendSpec => [](LiveListenerConnected /\ NoFrontendNoLiveSocket)
<1>1. DisposableInv => LiveListenerConnected /\ NoFrontendNoLiveSocket
  BY DEF DisposableInv, AttendedInv
<1> QED BY <1>1, DisposableInvariant, PTL

(* Behind frontends that come and go the client implements Subscriptions.  *)
THEOREM BackendRefines ==
    ASSUME PatientCallers
    PROVE  BackendSpec => Promise!Spec
<1>1. DisposableInv /\ [BackendNext]_backendVars => [Promise!Next]_(Promise!channelVars)
  <2> SUFFICES ASSUME DisposableInv, [BackendNext]_backendVars
               PROVE  [Promise!Next]_(Promise!channelVars)
    OBVIOUS
  <2>0. RemoteListeners /\ BackendInv /\ PatientInv /\ TypeOK
    BY DEF PatientCallers, RemoteListeners, DisposableInv, PatientInv, BackendInv, EntryInv
  <2>1. CASE \E f \in Listeners : Connect(f)
    BY <2>1, PromiseNothing DEF Connect, Handles
  <2>2. CASE \E f \in Listeners : Disconnect(f)
    BY <2>0, <2>2, PromiseGiveUp DEF Disconnect, Handles
  <2>3. CASE Next
    BY <2>0, <2>3, PromiseStep
  <2>4. CASE UNCHANGED backendVars
    BY <2>4 DEF backendVars, vars, socketVars, Promise!channelVars
  <2> QED BY <2>0, <2>1, <2>2, <2>3, <2>4, BackendStepKinds DEF BackendKinds
<1>2. BackendInit => Promise!Init
  BY PromiseInit DEF BackendInit
<1> QED BY <1>1, <1>2, DisposableInvariant, PTL DEF BackendSpec, Promise!Spec
============================================================================
