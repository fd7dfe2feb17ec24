-------------------------- MODULE ClientSocketsV2 --------------------------
(***************************************************************************)
(* The subscriptions of ModelServerClientV2: subscribe, unsubscribe, send, *)
(* and the handlers doSubscribe attaches to a socket.  JavaScript runs     *)
(* each call and each handler to its end, so each is one step; what        *)
(* interleaves is calls with the events of sockets, those of sockets the   *)
(* registry no longer holds included: nothing detaches their handlers.     *)
(***************************************************************************)
EXTENDS SocketRegistry

Subscribe(u, l, strict) ==
    /\ OpenOrRefuse(u, l, strict)
    /\ callbacks' = <<>>

Unsubscribe(u) ==
    /\ CloseEntry(u)
    /\ reply' = Reply("unsubscribe", u, "none")
    /\ callbacks' = <<>>

Send(u) ==
    /\ reply' = Reply("send", u, IF isSocketOpen(u) THEN SendOutcome(readyState[openSockets[u]])
                                                    ELSE "ignored")
    /\ callbacks' = <<>>
    /\ UNCHANGED <<created, readyState, uriOf, listenerOf, openSockets>>

----------------------------------------------------------------------------
(* The handlers.  Each calls the listener of its socket; none of them      *)
(* touches the registry.                                                   *)

OnOpen(s) ==
    /\ Opened(s)
    /\ Handles(<< <<"onOpen", s>> >>)
    /\ UNCHANGED openSockets

OnMessage(s) ==
    /\ Received(s)
    /\ Handles(<< <<"onMessage", s>> >>)
    /\ UNCHANGED openSockets

(* The error event of a socket that fails while open; its close event is   *)
(* still to come.                                                          *)
OnError(s) ==
    /\ Broken(s)
    /\ Handles(<< <<"onError", s>> >>)
    /\ UNCHANGED openSockets

(* Mutant: the end of a failed connection is not announced.                *)
OnConnectErrorSilent(s) ==
    /\ Refused(s)
    /\ Handles(<< <<"onError", s>> >>)
    /\ UNCHANGED openSockets

(* A socket that never opens: the error and the close event together.      *)
OnConnectError(s) ==
    /\ Refused(s)
    /\ Handles(<< <<"onError", s>>, <<"onClose", s>> >>)
    /\ UNCHANGED openSockets

PeerLeaves(s) ==
    /\ PeerCloses(s)
    /\ Handles(<<>>)
    /\ UNCHANGED openSockets

OnClose(s) ==
    /\ \/ Closed(s) /\ Handles(<< <<"onClose", s>> >>)
       \/ Aborted(s) /\ Handles(<< <<"onError", s>>, <<"onClose", s>> >>)
    /\ UNCHANGED openSockets

----------------------------------------------------------------------------
Call ==
    \E u \in Uris :
        \/ \E l \in Listeners, strict \in Strictness : Subscribe(u, l, strict)
        \/ Unsubscribe(u)
        \/ Send(u)

Event ==
    \E s \in Sockets :
        \/ OnOpen(s)
        \/ OnMessage(s)
        \/ OnError(s)
        \/ OnConnectError(s)
        \/ PeerLeaves(s)
        \/ OnClose(s)

Next == Call \/ Event

(* Only a socket that is closing is certain to get anywhere: ws ends it by *)
(* its close timer if the server does not answer.  Callers and servers owe *)
(* nothing.                                                                *)
Fairness == \A s \in Sockets : WF_vars(OnClose(s))

Spec == Init /\ [][Next]_vars
FairSpec == Spec /\ Fairness
============================================================================
