--------------------------- MODULE TheiaBackendV2 ---------------------------
(***************************************************************************)
(* TheiaBackendModelServerClientV2 behind its frontends.  A frontend calls *)
(* it over JSON-RPC and passes no listener: subscribe and selfSubscribe    *)
(* take the subscriptionClient of the moment.                              *)
(***************************************************************************)
EXTENDS ClientSocketsV2, Frontends

backendVars == <<vars, frontendVars>>

BackendTypeOK == TypeOK /\ FrontendTypeOK

BackendInit == Init /\ FrontendInit

BackendSubscribe(f, u, strict) ==
    /\ Connected(f)
    /\ Subscribe(u, subscriptionClient, strict)
    /\ RequestedBy(f)
    /\ UNCHANGED <<connection, subscriptionClient>>

BackendUnsubscribe(f, u) ==
    /\ Connected(f)
    /\ Unsubscribe(u)
    /\ UNCHANGED frontendVars

BackendSend(f, u) ==
    /\ Connected(f)
    /\ Send(u)
    /\ UNCHANGED frontendVars

SocketEvent ==
    /\ Event
    /\ UNCHANGED frontendVars

BackendNext ==
    \/ \E f \in Listeners :
        \/ Connect(f)
        \/ Disconnect(f)
        \/ \E u \in Uris :
            \/ \E strict \in Strictness : BackendSubscribe(f, u, strict)
            \/ BackendUnsubscribe(f, u)
            \/ BackendSend(f, u)
    \/ SocketEvent

BackendSpec == BackendInit /\ [][BackendNext]_backendVars
=============================================================================
