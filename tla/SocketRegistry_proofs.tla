------------------------ MODULE SocketRegistry_proofs ------------------------
(***************************************************************************)
(* What the proofs about the clients of both versions of the API rest on:  *)
(* the kinds of step their actions are made of, and what each of them      *)
(* preserves.  Nothing here mentions an action of a client.                *)
(***************************************************************************)
EXTENDS SocketRegistry, TLAPS

LEMMA ShortSequences ==
    ASSUME NEW S, NEW a \in S, NEW b \in S
    PROVE  <<>> \in Seq(S) /\ <<a>> \in Seq(S) /\ <<a, b>> \in Seq(S)
  OBVIOUS

----------------------------------------------------------------------------
(* Types.  The outputs, and what a step does to sockets and registry.      *)

CallbacksTyped == callbacks' \in Seq(Callbacks)
ReplyTyped == reply' \in [call : Calls, uri : Uris \union {NoUri}, result : Results]

Still == UNCHANGED <<created, readyState, uriOf, listenerOf, openSockets>>

(* A socket that gets further on, never back to life.                      *)
MoveKinds == { <<"CONNECTING", "OPEN">>, <<"CONNECTING", "CLOSED">>, <<"OPEN", "CLOSING">>,
               <<"CLOSING", "CLOSED">>, <<"ABORTING", "CLOSED">> }
Progresses(s) == \E m \in MoveKinds : Moves(s, m[1], m[2])

EntriesTyped == openSockets' \in [Uris -> Sockets \union {NoSocket}]

LEMMA TypeInit == Init => TypeOK
  BY MaxSocketsAssumption DEF Init, SocketInit, TypeOK, SocketTypeOK, NoReply, Reply, Results, Calls,
     ReadyStates, Sockets, NoSocket

LEMMA ReplyType ==
    ASSUME NEW call \in Calls, NEW u \in Uris \union {NoUri}, NEW result \in Results,
           reply' = Reply(call, u, result)
    PROVE  ReplyTyped
  BY DEF ReplyTyped, Reply

(* The events of sockets, with what the handlers of both clients tell.     *)
SocketStep(s) ==
    \/ Opened(s) /\ callbacks' = << <<"onOpen", s>> >>
    \/ Received(s) /\ callbacks' = << <<"onMessage", s>> >>
    \/ Broken(s) /\ callbacks' = << <<"onError", s>> >>
    \/ PeerCloses(s) /\ callbacks' = <<>>
    \/ Refused(s) /\ callbacks' = << <<"onError", s>>, <<"onClose", s>> >>
    \/ Closed(s) /\ callbacks' = << <<"onClose", s>> >>
    \/ Aborted(s) /\ callbacks' = << <<"onError", s>>, <<"onClose", s>> >>

LEMMA SocketStepKind ==
    ASSUME NEW s \in Sockets, SocketStep(s)
    PROVE  /\ CallbacksTyped
           /\ Progresses(s) \/ UNCHANGED <<created, readyState, uriOf, listenerOf>>
<1>1. CallbacksTyped
  <2>1. \A name \in CallbackNames : <<name, s>> \in Callbacks
    BY DEF Callbacks
  <2>2. /\ <<"onOpen", s>> \in Callbacks /\ <<"onMessage", s>> \in Callbacks
        /\ <<"onError", s>> \in Callbacks /\ <<"onClose", s>> \in Callbacks
    BY <2>1 DEF CallbackNames
  <2>3. callbacks' \in { <<>>, << <<"onOpen", s>> >>, << <<"onMessage", s>> >>,
                         << <<"onError", s>> >>, << <<"onClose", s>> >>,
                         << <<"onError", s>>, <<"onClose", s>> >> }
    BY Zenon DEF SocketStep
  <2> QED BY <2>2, <2>3, ShortSequences, Zenon DEF CallbacksTyped
<1>2. \/ Moves(s, "CONNECTING", "OPEN") \/ Moves(s, "CONNECTING", "CLOSED")
      \/ Moves(s, "OPEN", "CLOSING")
      \/ Moves(s, "CLOSING", "CLOSED") \/ Moves(s, "ABORTING", "CLOSED")
      \/ UNCHANGED <<created, readyState, uriOf, listenerOf>>
  BY DEF SocketStep, Opened, Received, Broken, PeerCloses, Refused, Closed, Aborted
<1>3. Progresses(s) \/ UNCHANGED <<created, readyState, uriOf, listenerOf>>
  BY <1>2, Zenon DEF Progresses, MoveKinds
<1> QED BY <1>1, <1>3

LEMMA TypeStep ==
    ASSUME TypeOK, CallbacksTyped, ReplyTyped, EntriesTyped,
           \/ UNCHANGED <<created, readyState, uriOf, listenerOf>>
           \/ \E s \in Sockets : Progresses(s)
           \/ \E S : CloseAll(S)
           \/ \E u \in Uris, l \in Listeners \union {NoListener} : Construct(u, l)
    PROVE  TypeOK'
<1> USE DEF CallbacksTyped, ReplyTyped, EntriesTyped, TypeOK, SocketTypeOK
<1>1. CASE UNCHANGED <<created, readyState, uriOf, listenerOf>>
  BY <1>1
<1>2. CASE \E s \in Sockets : Progresses(s)
  BY <1>2 DEF Progresses, Moves, MoveKinds, ReadyStates
<1>3. CASE \E S : CloseAll(S)
  BY <1>3 DEF CloseAll, AfterClose, ReadyStates
<1>4. CASE \E u \in Uris, l \in Listeners \union {NoListener} : Construct(u, l)
  <2>1. NextSocket \in Sockets /\ created < MaxSockets
    BY <1>4, MaxSocketsAssumption DEF Construct, NextSocket, Sockets
  <2> QED BY <1>4, <2>1, MaxSocketsAssumption DEF Construct, NextSocket, Sockets, ReadyStates
<1> QED BY <1>1, <1>2, <1>3, <1>4

----------------------------------------------------------------------------
(* The registry.  Sockets are numbered as they are constructed, and only   *)
(* constructed ones have a model.  EntryIsNewest is not inductive without  *)
(* it: it needs the next socket to be newer than every one with a model.   *)
Numbered ==
    \A s \in Sockets :
        /\ s <= created => readyState[s] # "NEW" /\ uriOf[s] \in Uris
        /\ s > created => readyState[s] = "NEW" /\ uriOf[s] = NoUri

EntryInv == TypeOK /\ Numbered /\ EntryIsNewest
RegistryInv == EntryInv /\ StrandedOnlyBySuccessor

(* What the other steps do, socket by socket: no socket is constructed or  *)
(* comes to life, ...                                                      *)
Fades ==
    /\ created' = created /\ uriOf' = uriOf
    /\ \A t \in Sockets : /\ (readyState[t] = "NEW") <=> (readyState'[t] = "NEW")
                          /\ Live(t)' => Live(t)

(* ... and the entry of u goes; ...                                        *)
Removes(u) ==
    /\ Fades
    /\ openSockets'[u] = NoSocket
    /\ \A v \in Uris : v # u => openSockets'[v] = openSockets[v]

(* ... and what constructing a socket for u does, ...                      *)
Constructs(u) ==
    /\ NextSocket \in Sockets /\ created' = NextSocket
    /\ readyState'[NextSocket] = "CONNECTING" /\ uriOf'[NextSocket] = u
    /\ \A s \in Sockets : s # NextSocket =>
          /\ (readyState[s] = "NEW") <=> (readyState'[s] = "NEW")
          /\ Live(s)' => Live(s)
          /\ uriOf'[s] = uriOf[s]
    /\ \A v \in Uris : v # u => openSockets'[v] = openSockets[v]
    /\ \A s \in Sockets : uriOf[s] = u => s < NextSocket

(* ... with the entry a subscribe makes for it.                            *)
Adds(u) == Constructs(u) /\ openSockets'[u] = NextSocket

LEMMA ProgressFades ==
    ASSUME TypeOK, NEW s \in Sockets, Progresses(s)
    PROVE  Fades
  BY DEF Fades, Progresses, Moves, MoveKinds, TypeOK, SocketTypeOK, Live

LEMMA CloseFades ==
    ASSUME TypeOK, NEW S, CloseAll(S)
    PROVE  Fades /\ \A s \in Sockets : Live(s)' => s \notin S
  BY DEF Fades, CloseAll, AfterClose, TypeOK, SocketTypeOK, Live

LEMMA StillFades ==
    ASSUME UNCHANGED <<created, readyState, uriOf>>
    PROVE  Fades
  BY DEF Fades, Live

LEMMA CloseEntryRemoves ==
    ASSUME TypeOK, NEW u \in Uris, CloseEntry(u)
    PROVE  Removes(u) /\ \A s \in Sockets : Live(s)' => s # openSockets[u]
<1>1. Fades /\ \A s \in Sockets : Live(s)' => s \notin {openSockets[u]}
  BY CloseFades DEF CloseEntry
<1> QED BY <1>1 DEF Removes, CloseEntry, TypeOK

LEMMA NewSocket ==
    ASSUME TypeOK, Numbered, NEW u \in Uris, NEW l, DoSubscribe(u, l)
    PROVE  Adds(u)
  BY MaxSocketsAssumption, NoUriAssumption
     DEF Adds, Constructs, DoSubscribe, Construct, NextSocket, Sockets, TypeOK, SocketTypeOK,
         Numbered, Live

LEMMA EntryInit == Init => RegistryInv /\ LiveSocketIsRegistered
<1> SUFFICES ASSUME Init PROVE RegistryInv /\ LiveSocketIsRegistered
  OBVIOUS
<1>1. TypeOK
  BY TypeInit
<1>2. Numbered
  BY DEF Init, SocketInit, Numbered, Sockets
<1>3. EntryIsNewest
  BY DEF Init, EntryIsNewest, isSocketOpen
<1>4. StrandedOnlyBySuccessor /\ LiveSocketIsRegistered
  BY DEF Init, SocketInit, StrandedOnlyBySuccessor, LiveSocketIsRegistered, Live
<1> QED BY <1>1, <1>2, <1>3, <1>4 DEF RegistryInv, EntryInv

LEMMA EntryFades ==
    ASSUME EntryInv, TypeOK', Fades, openSockets' = openSockets
    PROVE  EntryInv'
  BY DEF EntryInv, Fades, Numbered, EntryIsNewest, isSocketOpen

LEMMA EntryRemoves ==
    ASSUME EntryInv, TypeOK', NEW u \in Uris, Removes(u)
    PROVE  EntryInv'
  BY DEF EntryInv, Removes, Fades, Numbered, EntryIsNewest, isSocketOpen

(* A socket is constructed, and the entry of its model is the new one or   *)
(* there is none.                                                          *)
LEMMA EntryConstructs ==
    ASSUME EntryInv, TypeOK', NEW u \in Uris, Constructs(u),
           openSockets'[u] \in {NextSocket, NoSocket}
    PROVE  EntryInv'
<1> USE DEF EntryInv, isSocketOpen, NoSocket
<1>2. NextSocket \in Nat /\ created \in Nat /\ Sockets \subseteq Nat
  BY DEF TypeOK, SocketTypeOK, NextSocket, Sockets
<1>3. Numbered'
  BY <1>2 DEF Constructs, Numbered, NextSocket
<1>4. EntryIsNewest'
  <2> SUFFICES ASSUME NEW v \in Uris, openSockets'[v] # 0
               PROVE  /\ uriOf'[openSockets'[v]] = v
                      /\ \A s \in Sockets : uriOf'[s] = v => s <= openSockets'[v]
    BY DEF EntryIsNewest
  <2>1. CASE v = u
    <3>1. openSockets'[v] = NextSocket /\ uriOf'[NextSocket] = v
      BY <2>1 DEF Constructs
    <3>2. ASSUME NEW s \in Sockets, uriOf'[s] = v PROVE s <= NextSocket
      <4>1. CASE s = NextSocket
        BY <4>1, <1>2
      <4>2. CASE s # NextSocket
        BY <4>2, <3>2, <2>1, <1>2 DEF Constructs
      <4> QED BY <4>1, <4>2
    <3> QED BY <3>1, <3>2
  <2>2. CASE v # u
    <3>1. /\ openSockets'[v] = openSockets[v] /\ openSockets[v] \in Sockets
          /\ uriOf[openSockets[v]] = v
          /\ \A s \in Sockets : uriOf[s] = v => s <= openSockets[v]
      BY <2>2 DEF Constructs, EntryIsNewest, TypeOK
    <3>2. openSockets[v] # NextSocket
      BY <3>1, <1>2, NoUriAssumption DEF Numbered, NextSocket
    <3> QED BY <2>2, <3>1, <3>2 DEF Constructs
  <2> QED BY <2>1, <2>2
<1> QED BY <1>3, <1>4

(* A live socket has a model.                                              *)
LEMMA LiveHasUri ==
    ASSUME TypeOK, Numbered, NEW s \in Sockets, Live(s)
    PROVE  s <= created /\ uriOf[s] \in Uris
  BY DEF Numbered, Live, TypeOK, SocketTypeOK, Sockets

----------------------------------------------------------------------------
(* Live sockets and entries.                                               *)

LEMMA StrandedFades ==
    ASSUME StrandedOnlyBySuccessor, Fades, openSockets' = openSockets
    PROVE  StrandedOnlyBySuccessor'
  BY DEF Fades, StrandedOnlyBySuccessor

LEMMA StrandedRemoves ==
    ASSUME RegistryInv, NEW u \in Uris, Removes(u),
           \A s \in Sockets : Live(s)' => s # openSockets[u]
    PROVE  StrandedOnlyBySuccessor'
<1> USE DEF RegistryInv, EntryInv
<1> SUFFICES ASSUME NEW s \in Sockets, Live(s)'
             PROVE  \/ openSockets'[uriOf'[s]] = s
                    \/ \E t \in Sockets : t > s /\ uriOf'[t] = uriOf'[s]
  BY DEF StrandedOnlyBySuccessor
<1>1. Live(s) /\ s # openSockets[u] /\ uriOf' = uriOf
  BY DEF Removes, Fades
<1>2. uriOf[s] \in Uris
  BY <1>1, LiveHasUri
<1>3. CASE openSockets[uriOf[s]] = s
  BY <1>1, <1>2, <1>3 DEF Removes
<1>4. CASE \E t \in Sockets : t > s /\ uriOf[t] = uriOf[s]
  BY <1>1, <1>4
<1> QED BY <1>1, <1>3, <1>4 DEF StrandedOnlyBySuccessor

LEMMA StrandedAdds ==
    ASSUME RegistryInv, NEW u \in Uris, Adds(u)
    PROVE  StrandedOnlyBySuccessor'
<1> USE DEF RegistryInv, EntryInv
<1>1. NextSocket \in Nat /\ created \in Nat /\ Sockets \subseteq Nat
  BY DEF TypeOK, SocketTypeOK, NextSocket, Sockets
<1> SUFFICES ASSUME NEW s \in Sockets, Live(s)'
             PROVE  \/ openSockets'[uriOf'[s]] = s
                    \/ \E t \in Sockets : t > s /\ uriOf'[t] = uriOf'[s]
  BY DEF StrandedOnlyBySuccessor
<1>2. CASE s = NextSocket
  BY <1>2 DEF Adds, Constructs
<1>3. CASE s # NextSocket
  <2>1. Live(s) /\ uriOf'[s] = uriOf[s]
    BY <1>3 DEF Adds, Constructs, Live
  <2>2. CASE uriOf[s] = u
    BY <2>1, <2>2, <1>1 DEF Adds, Constructs
  <2>3. CASE uriOf[s] # u
    <3>1. uriOf[s] \in Uris
      BY <2>1, LiveHasUri
    <3>2. CASE openSockets[uriOf[s]] = s
      BY <3>1, <3>2, <2>1, <2>3 DEF Adds, Constructs
    <3>3. CASE \E t \in Sockets : t > s /\ uriOf[t] = uriOf[s]
      <4>1. PICK t \in Sockets : t > s /\ uriOf[t] = uriOf[s]
        BY <3>3
      <4>2. t # NextSocket
        BY <4>1, <3>1, <1>1, NoUriAssumption DEF Numbered, NextSocket
      <4> QED BY <4>1, <4>2, <2>1 DEF Adds, Constructs
    <3> QED BY <3>2, <3>3, <2>1 DEF StrandedOnlyBySuccessor
  <2> QED BY <2>2, <2>3
<1> QED BY <1>2, <1>3

LEMMA LiveFades ==
    ASSUME LiveSocketIsRegistered, Fades, openSockets' = openSockets
    PROVE  LiveSocketIsRegistered'
  BY DEF Fades, LiveSocketIsRegistered

(* An entry may go when no live socket stays behind.                       *)
LEMMA LiveRemoves ==
    ASSUME EntryInv, LiveSocketIsRegistered, NEW u \in Uris, Removes(u),
           \A s \in Sockets : Live(s)' => s # openSockets[u]
    PROVE  LiveSocketIsRegistered'
<1> SUFFICES ASSUME NEW s \in Sockets, Live(s)'
             PROVE  openSockets'[uriOf'[s]] = s
  BY DEF LiveSocketIsRegistered
<1>1. Live(s) /\ s # openSockets[u] /\ uriOf' = uriOf
  BY DEF Removes, Fades
<1>2. uriOf[s] # u
  BY <1>1 DEF LiveSocketIsRegistered
<1>3. uriOf[s] \in Uris
  BY <1>1, LiveHasUri DEF EntryInv
<1> QED BY <1>1, <1>2, <1>3 DEF Removes, LiveSocketIsRegistered

(* A socket that is subscribed to where there is no entry.                 *)
LEMMA LiveAdds ==
    ASSUME EntryInv, LiveSocketIsRegistered, NEW u \in Uris, ~isSocketOpen(u), Adds(u)
    PROVE  LiveSocketIsRegistered'
<1> SUFFICES ASSUME NEW s \in Sockets, Live(s)'
             PROVE  openSockets'[uriOf'[s]] = s
  BY DEF LiveSocketIsRegistered
<1>2. CASE s = NextSocket
  BY <1>2 DEF Adds, Constructs
<1>3. CASE s # NextSocket
  <2>1. Live(s) /\ uriOf'[s] = uriOf[s]
    BY <1>3 DEF Adds, Constructs, Live
  <2>2. openSockets[uriOf[s]] = s /\ s # NoSocket
    BY <2>1 DEF LiveSocketIsRegistered, Sockets, NoSocket
  <2>3. uriOf[s] # u
    BY <2>2 DEF isSocketOpen
  <2>4. uriOf[s] \in Uris
    BY <2>1, LiveHasUri DEF EntryInv
  <2> QED BY <2>1, <2>2, <2>3, <2>4 DEF Adds, Constructs
<1> QED BY <1>2, <1>3

----------------------------------------------------------------------------
(* The refinement of Subscriptions.                                        *)

Phase == [s \in Sockets |-> PhaseOf(readyState[s])]

(* A socket that moves is a channel that advances.                         *)
LEMMA Advances ==
    ASSUME TypeOK, NEW s \in Sockets, NEW from \in ReadyStates, NEW to \in ReadyStates,
           Moves(s, from, to)
    PROVE  Promise!Advance(s, PhaseOf(from), PhaseOf(to))
  BY DEF Promise!Advance, Moves, TypeOK, SocketTypeOK

LEMMA PromiseInit == Init => Promise!Init
  BY DEF Init, SocketInit, Promise!Init, PhaseOf

LEMMA PromiseRequest ==
    ASSUME EntryInv, LiveSocketIsRegistered, NEW u \in Uris, NEW l, ~isSocketOpen(u),
           DoSubscribe(u, l), callbacks' = <<>>
    PROVE  Promise!Next
<1> USE DEF EntryInv
<1>1. NextSocket \in Sockets /\ readyState[NextSocket] = "NEW"
  BY NewSocket DEF Adds, Constructs, Numbered, NextSocket, Sockets, TypeOK, SocketTypeOK
<1>2. ASSUME NEW d \in Sockets, uriOf[d] = u, Live(d) PROVE FALSE
  BY <1>2 DEF LiveSocketIsRegistered, isSocketOpen, Sockets, NoSocket
<1>3. \A d \in Sockets : PhaseOf(readyState[d]) \in {"requested", "established"} => Live(d)
  BY DEF TypeOK, SocketTypeOK, ReadyStates, PhaseOf, Live
<1>4. \A d \in Sockets : uriOf[d] = u => ~Promise!Active(d)
  BY <1>2, <1>3 DEF Promise!Active
<1>5. Phase' = [Phase EXCEPT ![NextSocket] = "requested"]
  <2>1. PhaseOf("CONNECTING") = "requested"
    BY DEF PhaseOf
  <2> QED BY <1>1, <2>1 DEF DoSubscribe, Construct, Phase, TypeOK, SocketTypeOK
<1>6. uriOf' = [uriOf EXCEPT ![NextSocket] = u]
  BY DEF DoSubscribe, Construct
<1>7. Promise!Request(NextSocket, u)
  BY <1>1, <1>4, <1>5, <1>6 DEF Promise!Request, Phase, PhaseOf
<1> QED BY <1>1, <1>7 DEF Promise!Next

LEMMA PromiseNothing ==
    ASSUME UNCHANGED <<readyState, uriOf>>, callbacks' = <<>>
    PROVE  Promise!Next
<1>1. Promise!GiveUp({})
  BY DEF Promise!GiveUp
<1> QED BY <1>1 DEF Promise!Next

LEMMA PromiseGiveUp ==
    ASSUME TypeOK, NEW S, CloseAll(S), callbacks' = <<>>
    PROVE  Promise!Next
<1> DEFINE C == S \cap Sockets
<1>1. /\ uriOf' = uriOf
      /\ \A s \in Sockets : readyState'[s] = IF s \in C THEN AfterClose(readyState[s])
                                                     ELSE readyState[s]
  BY DEF CloseAll
<1>2. \A s \in Sockets : PhaseOf(AfterClose(readyState[s]))
                            = Promise!GivenUp(PhaseOf(readyState[s]))
  BY DEF TypeOK, SocketTypeOK, ReadyStates, PhaseOf, AfterClose, Promise!GivenUp
<1>3. Promise!GiveUp(C)
  BY <1>1, <1>2 DEF Promise!GiveUp
<1> QED BY <1>3 DEF Promise!Next

LEMMA PromiseEvent ==
    ASSUME TypeOK, NEW s \in Sockets, SocketStep(s)
    PROVE  Promise!Next
<1>1. CASE Opened(s) /\ callbacks' = << <<"onOpen", s>> >>
  <2>1. Promise!Establish(s)
    BY <1>1, Advances DEF Opened, ReadyStates, PhaseOf, Promise!Establish
  <2> QED BY <2>1 DEF Promise!Next
<1>2. CASE Received(s) /\ callbacks' = << <<"onMessage", s>> >>
  <2>1. Promise!Notify(s)
    BY <1>2 DEF Received, PhaseOf, Promise!Notify
  <2> QED BY <2>1 DEF Promise!Next
<1>3. CASE \/ Broken(s) /\ callbacks' = << <<"onError", s>> >>
           \/ PeerCloses(s) /\ callbacks' = <<>>
  <2>1. Promise!Lose(s)
    BY <1>3, Advances DEF Broken, PeerCloses, ReadyStates, PhaseOf, Promise!Lose
  <2> QED BY <2>1 DEF Promise!Next
<1>4. CASE Refused(s) /\ callbacks' = << <<"onError", s>>, <<"onClose", s>> >>
  <2>1. Promise!Fail(s)
    BY <1>4, Advances DEF Refused, ReadyStates, PhaseOf, Promise!Fail
  <2> QED BY <2>1 DEF Promise!Next
<1>5. CASE \/ Closed(s) /\ callbacks' = << <<"onClose", s>> >>
           \/ Aborted(s) /\ callbacks' = << <<"onError", s>>, <<"onClose", s>> >>
  <2>1. Promise!End(s)
    BY <1>5, Advances DEF Closed, Aborted, ReadyStates, PhaseOf, Promise!End
  <2> QED BY <2>1 DEF Promise!Next
<1> QED BY <1>1, <1>2, <1>3, <1>4, <1>5 DEF SocketStep
==============================================================================
