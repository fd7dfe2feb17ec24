--------------------------- MODULE TheiaBackendV1 ---------------------------
(***************************************************************************)
(* TheiaBackendModelServerClient, the v1 client, behind its frontends.     *)
(***************************************************************************)
EXTENDS ClientSocketsV1, Frontends

backendVars == <<vars, frontendVars>>

BackendTypeOK == TypeOK /\ FrontendTypeOK

BackendInit == Init /\ FrontendInit

(* options.listener is the subscriptionClient if the caller gave none.     *)
BackendSubscribe(f, u, strict) ==
    /\ Connected(f)
    /\ Subscribe(u, subscriptionClient, strict)
    /\ RequestedBy(f)
    /\ UNCHANGED <<connection, subscriptionClient>>

BackendUnsubscribe(f, u) ==
    /\ Connected(f)
    /\ Unsubscribe(u)
    /\ UNCHANGED frontendVars

BackendSend(f, u) ==
    /\ Connected(f)
    /\ Send(u)
    /\ UNCHANGED frontendVars

SocketEvent ==
    /\ Event
    /\ UNCHANGED frontendVars

BackendNext ==
    \/ \E f \in Listeners :
        \/ Connect(f)
        \/ Disconnect(f)
        \/ \E u \in Uris :
            \/ \E strict \in Strictness : BackendSubscribe(f, u, strict)
            \/ BackendUnsubscribe(f, u)
            \/ BackendSend(f, u)
    \/ SocketEvent

BackendFairness ==
    \A s \in Sockets :
        WF_backendVars(readyState[s] # "CONNECTING" /\ OnClose(s) /\ UNCHANGED frontendVars)

BackendSpec == BackendInit /\ [][BackendNext]_backendVars
BackendFairSpec == BackendSpec /\ BackendFairness

----------------------------------------------------------------------------
(* Unlike v2, the v1 client recovers from dispose: the close events empty  *)
(* the registry, so that after a frontend is gone the next one, or nobody, *)
(* finds no entry that would refuse a subscription.                        *)
RegistryEmpty == \A u \in Uris : ~isSocketOpen(u)
DisposeForgets == Unattended ~> (~Unattended \/ RegistryEmpty)
=============================================================================
