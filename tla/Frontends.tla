----------------------------- MODULE Frontends -----------------------------
(***************************************************************************)
(* The Theia frontends that share one backend client.  The backend module  *)
(* binds the client as a singleton: every frontend connection makes its    *)
(* own proxy the subscriptionClient, the last one wins, and the end of any *)
(* connection disposes the client.  The proxies are the listeners of the   *)
(* sockets.                                                                *)
(***************************************************************************)
EXTENDS SocketRegistry

ASSUME NoListenerAssumption == NoListener \notin Listeners

VARIABLES
    connection,          \* of each frontend: "new", "connected" or "closed"
    subscriptionClient,  \* the proxy the client takes for its listener
    requester,           \* ghost: the frontend that asked for each socket
    overlapped           \* ghost: whether two were ever connected at a time

ghostVars == <<requester, overlapped>>
frontendVars == <<connection, subscriptionClient, ghostVars>>

FrontendTypeOK ==
    /\ connection \in [Listeners -> {"new", "connected", "closed"}]
    /\ subscriptionClient \in Listeners \union {NoListener}
    /\ requester \in [Sockets -> Listeners \union {NoListener}]
    /\ overlapped \in BOOLEAN

FrontendInit ==
    /\ connection = [f \in Listeners |-> "new"]
    /\ subscriptionClient = NoListener
    /\ requester = [s \in Sockets |-> NoListener]
    /\ overlapped = FALSE

Connected(f) == connection[f] = "connected"

(* Mutant: only the first connection sets the client.                      *)
ConnectKeepsClient(f) ==
    /\ connection[f] = "new"
    /\ connection' = [connection EXCEPT ![f] = "connected"]
    /\ subscriptionClient' = IF subscriptionClient = NoListener THEN f ELSE subscriptionClient
    /\ overlapped' = (overlapped \/ \E g \in Listeners : Connected(g))
    /\ Handles(<<>>)
    /\ UNCHANGED <<created, readyState, uriOf, listenerOf, openSockets, requester>>

(* JsonRpcConnectionHandler builds the proxy f and calls setClient(f).     *)
Connect(f) ==
    /\ connection[f] = "new"
    /\ connection' = [connection EXCEPT ![f] = "connected"]
    /\ subscriptionClient' = f
    /\ overlapped' = (overlapped \/ \E g \in Listeners : Connected(g))
    /\ Handles(<<>>)
    /\ UNCHANGED <<created, readyState, uriOf, listenerOf, openSockets, requester>>

Registered == { openSockets[u] : u \in Uris } \ {NoSocket}

(* Mutant: the end of a connection disposes nothing.                       *)
DisconnectWithoutDispose(f) ==
    /\ Connected(f)
    /\ connection' = [connection EXCEPT ![f] = "closed"]
    /\ Handles(<<>>)
    /\ UNCHANGED <<created, readyState, uriOf, listenerOf, openSockets,
                   subscriptionClient, ghostVars>>

(* onDidCloseConnection calls dispose: it closes the sockets of all        *)
(* entries, whoever asked for them, and keeps the entries.                 *)
Disconnect(f) ==
    /\ Connected(f)
    /\ connection' = [connection EXCEPT ![f] = "closed"]
    /\ CloseAll(Registered)
    /\ Handles(<<>>)
    /\ UNCHANGED <<openSockets, subscriptionClient, ghostVars>>

(* f is on record as the one who asked for the socket the step constructs. *)
RequestedBy(f) ==
    /\ requester' = IF created' > created THEN [requester EXCEPT ![NextSocket] = f] ELSE requester
    /\ UNCHANGED overlapped

----------------------------------------------------------------------------
(* As long as connections do not overlap, which includes any number of     *)
(* reloads, a socket's callbacks reach the frontend that asked for it, ... *)
RoutedToRequester ==
    ~overlapped => \A s \in Sockets : listenerOf[s] = requester[s]

(* ... and live sockets belong to a frontend that is still there: dispose  *)
(* reaches all of them, whatever was unsubscribed, subscribed to again or  *)
(* closed by the server before.                                            *)
LiveListenerConnected ==
    ~overlapped => \A s \in Sockets : Live(s) => Connected(listenerOf[s])

(* However connections overlap, this much is left of it.                   *)
Unattended == \A f \in Listeners : ~Connected(f)
NoFrontendNoLiveSocket == Unattended => \A s \in Sockets : ~Live(s)

(* protocol.ts on selfSubscribe: "Subscribe the frontend client of the     *)
(* remote `TheiaModelServerClientV2` service as the `SubscriptionListener` *)
(* handler".  So the listener of a socket is the frontend that asked.      *)
SelfSubscribed == \A s \in Sockets : listenerOf[s] = requester[s]
============================================================================
