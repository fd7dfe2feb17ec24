-------------------------- MODULE ClientSocketsV1 --------------------------
(***************************************************************************)
(* The subscriptions of ModelServerClient, the client of API v1.  Unlike   *)
(* that of ClientSocketsV2, the close handler of a socket removes the      *)
(* entry of the socket's model, whichever socket that entry is by then,    *)
(* and does so after it called the listener.                               *)
(***************************************************************************)
EXTENDS SocketRegistry

CONSTANTS
    Reactions,   \* what listeners do in onClose: "none", "resubscribe"
    Patient      \* whether callers subscribe again only after onClose

ASSUME ReactionsAssumption == Reactions \subseteq {"none", "resubscribe"}
ASSUME PatientAssumption == Patient \in BOOLEAN

(* The caller's side: a socket of u whose close event is still to come.    *)
ClosePending(u) ==
    \E s \in Sockets : uriOf[s] = u /\ readyState[s] \in {"CLOSING", "ABORTING"}

(* Without a listener subscribe throws before it looks at anything.        *)
Subscribe(u, l, strict) ==
    /\ Patient => ~ClosePending(u)
    /\ \/ /\ l = NoListener
          /\ reply' = Reply("subscribe", u, "no listener")
          /\ UNCHANGED <<created, readyState, uriOf, listenerOf, openSockets>>
       \/ /\ l # NoListener
          /\ OpenOrRefuse(u, l, strict)
    /\ callbacks' = <<>>

Unsubscribe(u) ==
    /\ CloseEntry(u)
    /\ reply' = Reply("unsubscribe", u, IF isSocketOpen(u) THEN "true" ELSE "false")
    /\ callbacks' = <<>>

(* True whenever there is an entry, unless WebSocket.send itself throws.   *)
SendResult(u) ==
    CASE ~isSocketOpen(u) -> "false"
      [] isSocketOpen(u) /\ SendOutcome(readyState[openSockets[u]]) = "throws" -> "throws"
      [] OTHER -> "true"

Send(u) ==
    /\ reply' = Reply("send", u, SendResult(u))
    /\ callbacks' = <<>>
    /\ UNCHANGED <<created, readyState, uriOf, listenerOf, openSockets>>

----------------------------------------------------------------------------
(* The handlers.                                                           *)

OnOpen(s) ==
    /\ Opened(s)
    /\ Handles(<< <<"onOpen", s>> >>)
    /\ UNCHANGED openSockets

OnMessage(s) ==
    /\ Received(s)
    /\ Handles(<< <<"onMessage", s>> >>)
    /\ UNCHANGED openSockets

OnError(s) ==
    /\ Broken(s)
    /\ Handles(<< <<"onError", s>> >>)
    /\ UNCHANGED openSockets

PeerLeaves(s) ==
    /\ PeerCloses(s)
    /\ Handles(<<>>)
    /\ UNCHANGED openSockets

(* The close event, after the error event if the socket never opened.      *)
Ending(s) == readyState[s] \in {"CONNECTING", "CLOSING", "ABORTING"}

(* Mutant: the two events in the wrong order.                              *)
TellsEndCloseFirst(s) ==
    IF readyState[s] = "CLOSING" THEN << <<"onClose", s>> >>
                                 ELSE << <<"onClose", s>>, <<"onError", s>> >>

TellsEnd(s) ==
    IF readyState[s] = "CLOSING" THEN << <<"onClose", s>> >>
                                 ELSE << <<"onError", s>>, <<"onClose", s>> >>

(* Mutant: the close handler of V2, which leaves the registry alone.       *)
OnCloseKeepsEntry(s) ==
    /\ "none" \in Reactions
    /\ Closed(s) \/ Aborted(s) \/ Refused(s)
    /\ Handles(TellsEnd(s))
    /\ UNCHANGED openSockets

(* The close handler: the listener, then openSockets.delete by model.      *)
OnClose(s) ==
    /\ "none" \in Reactions
    /\ Closed(s) \/ Aborted(s) \/ Refused(s)
    /\ Handles(TellsEnd(s))
    /\ openSockets' = [openSockets EXCEPT ![uriOf[s]] = NoSocket]

(* The same with a listener that subscribes to the model again in onClose. *)
(* The entry is still there unless unsubscribe removed it, so a strict     *)
(* subscribe throws out of the handler and nothing is deleted; otherwise   *)
(* what is deleted is the entry of the new socket.                         *)
OnCloseResubscribes(s, strict) ==
    /\ "resubscribe" \in Reactions
    /\ Ending(s)
    /\ callbacks' = TellsEnd(s)
    /\ \/ /\ isSocketOpen(uriOf[s]) /\ strict
          /\ reply' = Reply("subscribe", uriOf[s], "already subscribed")
          /\ Closed(s) \/ Aborted(s) \/ Refused(s)
          /\ UNCHANGED openSockets
       \/ /\ ~(isSocketOpen(uriOf[s]) /\ strict)
          /\ reply' = Reply("subscribe", uriOf[s],
                            IF isSocketOpen(uriOf[s]) THEN "subscribed with warning"
                                                      ELSE "subscribed")
          /\ created < MaxSockets
          /\ created' = NextSocket
          /\ readyState' = [readyState EXCEPT ![s] = "CLOSED", ![NextSocket] = "CONNECTING"]
          /\ uriOf' = [uriOf EXCEPT ![NextSocket] = uriOf[s]]
          /\ listenerOf' = [listenerOf EXCEPT ![NextSocket] = listenerOf[s]]
          /\ openSockets' = [openSockets EXCEPT ![uriOf[s]] = NoSocket]

----------------------------------------------------------------------------
Call ==
    \E u \in Uris :
        \/ \E l \in Listeners \union {NoListener}, strict \in Strictness : Subscribe(u, l, strict)
        \/ Unsubscribe(u)
        \/ Send(u)

Event ==
    \E s \in Sockets :
        \/ OnOpen(s)
        \/ OnMessage(s)
        \/ OnError(s)
        \/ PeerLeaves(s)
        \/ OnClose(s)
        \/ \E strict \in Strictness : OnCloseResubscribes(s, strict)

Next == Call \/ Event

(* As in ClientSocketsV2: only a socket that is closing is certain to end. *)
Fairness == \A s \in Sockets : WF_vars(readyState[s] # "CONNECTING" /\ OnClose(s))

Spec == Init /\ [][Next]_vars
FairSpec == Spec /\ Fairness

----------------------------------------------------------------------------
(* The entry of a model does not become a closed socket, however calls and *)
(* late close events interleave: unlike that of V2, the registry forgets a *)
(* subscription the server ended.  The one exception is a listener whose   *)
(* strict subscribe in onClose is refused, for the exception it gets skips *)
(* the delete.                                                             *)
Stale(u) == isSocketOpen(u) /\ readyState[openSockets[u]] = "CLOSED"
StaleOnlyByRefusedListener ==
    [][\A u \in Uris : Stale(u)' /\ ~Stale(u)
                         => reply' = Reply("subscribe", u, "already subscribed")]_vars
============================================================================
