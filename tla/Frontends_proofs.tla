-------------------------- MODULE Frontends_proofs --------------------------
(***************************************************************************)
(* What frontends that come and go leave behind, whichever version of the  *)
(* API the client they share is of.  The steps of a backend are those of   *)
(* its client, taken for a connected frontend or for none, and the two     *)
(* ends of a connection.                                                   *)
(***************************************************************************)
EXTENDS Frontends, SocketRegistry_proofs

(* Once a frontend was there, there is a proxy to listen, ...              *)
ClientKnown ==
    \A f \in Listeners : connection[f] # "new" => subscriptionClient \in Listeners

(* ... and it is that of the connected frontend while they do not overlap: *)
(* without this RoutedToRequester is not inductive.                        *)
ClientIsCurrent ==
    ~overlapped => \A f \in Listeners : Connected(f) => subscriptionClient = f

FrontendInv == FrontendTypeOK /\ ClientKnown /\ ClientIsCurrent /\ RoutedToRequester

AttendedInv == LiveListenerConnected /\ NoFrontendNoLiveSocket

LEMMA FrontendsInit ==
    ASSUME SocketInit, FrontendInit
    PROVE  FrontendInv /\ AttendedInv
  BY DEF SocketInit, FrontendInit, FrontendInv, FrontendTypeOK, ClientKnown, ClientIsCurrent,
         RoutedToRequester, AttendedInv, LiveListenerConnected, NoFrontendNoLiveSocket,
         Connected, Live

----------------------------------------------------------------------------
(* The steps of the client: those that construct a socket, with the proxy  *)
(* of the moment for its listener, and those that do not.                  *)
Listens(f) ==
    /\ Connected(f)
    /\ RequestedBy(f)
    /\ UNCHANGED <<connection, subscriptionClient>>
    /\ created' = NextSocket
    /\ listenerOf' = [listenerOf EXCEPT ![NextSocket] = subscriptionClient]

NoNewListener ==
    /\ UNCHANGED <<created, listenerOf, frontendVars>>

LEMMA FrontendsListen ==
    ASSUME TypeOK, FrontendInv, NEW f \in Listeners, Listens(f)
    PROVE  FrontendInv'
<1> USE DEF FrontendInv, Listens, RequestedBy
<1>1. NextSocket > created
  BY DEF NextSocket, TypeOK, SocketTypeOK
<1>2. requester' = [requester EXCEPT ![NextSocket] = f] /\ overlapped' = overlapped
  BY <1>1
<1>3. FrontendTypeOK'
  BY <1>2 DEF FrontendTypeOK
<1>4. ClientKnown' /\ ClientIsCurrent'
  BY <1>2 DEF ClientKnown, ClientIsCurrent, Connected
<1>5. RoutedToRequester'
  <2>1. ~overlapped => subscriptionClient = f
    BY DEF ClientIsCurrent
  <2> QED BY <1>2, <2>1 DEF RoutedToRequester, FrontendTypeOK, TypeOK, SocketTypeOK
<1> QED BY <1>3, <1>4, <1>5

LEMMA FrontendsWait ==
    ASSUME FrontendInv, NoNewListener
    PROVE  FrontendInv'
  BY DEF FrontendInv, FrontendTypeOK, ClientKnown, ClientIsCurrent, RoutedToRequester, Connected,
         NoNewListener, frontendVars, ghostVars

(* The two ends of a connection.                                           *)
LEMMA FrontendsConnect ==
    ASSUME FrontendInv, NEW f \in Listeners, Connect(f) \/ Disconnect(f)
    PROVE  FrontendInv'
<1> USE DEF FrontendInv
<1>1. FrontendTypeOK'
  BY DEF FrontendTypeOK, Connect, Disconnect, ghostVars
<1>2. overlapped => overlapped'
  BY Zenon DEF Connect, Disconnect, ghostVars
<1>3. RoutedToRequester'
  <2>1. listenerOf' = listenerOf /\ requester' = requester
    BY DEF Connect, Disconnect, CloseAll, ghostVars
  <2> QED BY <1>2, <2>1 DEF RoutedToRequester
<1>4. ClientKnown'
  BY DEF ClientKnown, FrontendTypeOK, Connect, Disconnect, Connected
<1>5. ClientIsCurrent'
  <2>1. CASE Connect(f)
    <3>1. ~overlapped' => \A g \in Listeners : ~Connected(g)
      BY <2>1, Zenon DEF Connect
    <3>2. subscriptionClient' = f /\ \A g \in Listeners : Connected(g)' => Connected(g) \/ g = f
      BY <2>1 DEF Connect, Connected, FrontendTypeOK
    <3> QED BY <3>1, <3>2 DEF ClientIsCurrent
  <2>2. CASE Disconnect(f)
    <3>1. /\ subscriptionClient' = subscriptionClient
          /\ \A g \in Listeners : Connected(g)' => Connected(g)
      BY <2>2 DEF Disconnect, Connected, FrontendTypeOK
    <3> QED BY <1>2, <3>1 DEF ClientIsCurrent
  <2> QED BY <2>1, <2>2
<1> QED BY <1>1, <1>3, <1>4, <1>5

----------------------------------------------------------------------------
(* Live sockets.                                                           *)

LEMMA AttendedListens ==
    ASSUME TypeOK, FrontendInv, AttendedInv, NEW f \in Listeners, Listens(f),
           \A s \in Sockets : s # NextSocket => (Live(s)' => Live(s))
    PROVE  AttendedInv'
<1> USE DEF FrontendInv, AttendedInv, Listens, RequestedBy
<1>1. ~overlapped => subscriptionClient = f
  BY DEF ClientIsCurrent
<1>2. LiveListenerConnected'
  BY <1>1 DEF LiveListenerConnected, Connected, TypeOK, SocketTypeOK
<1>3. NoFrontendNoLiveSocket'
  BY DEF NoFrontendNoLiveSocket, Unattended, Connected
<1> QED BY <1>2, <1>3

LEMMA AttendedWaits ==
    ASSUME AttendedInv, NoNewListener, \A s \in Sockets : Live(s)' => Live(s)
    PROVE  AttendedInv'
  BY DEF AttendedInv, LiveListenerConnected, NoFrontendNoLiveSocket, Unattended, Connected,
         NoNewListener, frontendVars, ghostVars

LEMMA AttendedConnects ==
    ASSUME FrontendInv, AttendedInv, NEW f \in Listeners, Connect(f)
    PROVE  AttendedInv'
<1> USE DEF FrontendInv, AttendedInv, Connect
<1>1. LiveListenerConnected'
  BY DEF LiveListenerConnected, FrontendTypeOK, Connected, Live
<1>2. NoFrontendNoLiveSocket'
  BY DEF NoFrontendNoLiveSocket, Unattended, FrontendTypeOK, Connected
<1> QED BY <1>1, <1>2

(* dispose leaves no live socket, if the registry has every one.           *)
LEMMA DisposeClosesAll ==
    ASSUME EntryInv, LiveSocketIsRegistered, NEW f \in Listeners, Disconnect(f)
    PROVE  \A s \in Sockets : ~Live(s)'
<1> SUFFICES ASSUME NEW s \in Sockets, Live(s)'
             PROVE  FALSE
  OBVIOUS
<1>1. CloseAll(Registered)
  BY DEF Disconnect
<1>2. Fades /\ s \notin Registered
  BY <1>1, CloseFades DEF EntryInv
<1>3. Live(s)
  BY <1>2 DEF Fades
<1>4. uriOf[s] \in Uris /\ openSockets[uriOf[s]] = s
  BY <1>3, LiveHasUri DEF LiveSocketIsRegistered, EntryInv
<1>5. s # NoSocket
  BY DEF Sockets, NoSocket
<1> QED BY <1>2, <1>4, <1>5 DEF Registered

LEMMA AttendedDisconnects ==
    ASSUME EntryInv, LiveSocketIsRegistered, NEW f \in Listeners, Disconnect(f)
    PROVE  AttendedInv'
  BY DisposeClosesAll DEF AttendedInv, LiveListenerConnected, NoFrontendNoLiveSocket

----------------------------------------------------------------------------
(* The registry when a connection begins or ends: its entries stay.        *)
LEMMA ConnectionFades ==
    ASSUME TypeOK, NEW f \in Listeners, Connect(f) \/ Disconnect(f)
    PROVE  Fades /\ openSockets' = openSockets /\ TypeOK'
<1>1. Fades /\ openSockets' = openSockets
  BY CloseFades, StillFades DEF Connect, Disconnect
<1>2. <<>> \in Seq(Callbacks)
  OBVIOUS
<1>3. CallbacksTyped /\ EntriesTyped
  BY <1>1, <1>2 DEF Connect, Disconnect, Handles, CallbacksTyped, EntriesTyped, TypeOK
<1>4. ReplyTyped
  BY ReplyType DEF Connect, Disconnect, Handles, NoReply, Calls, Results
<1>5. TypeOK'
  BY <1>3, <1>4, TypeStep DEF Connect, Disconnect
<1> QED BY <1>1, <1>5
=============================================================================
