----------------------------- MODULE WebSocket -----------------------------
(***************************************************************************)
(* The WebSocket objects the two model server clients create (external:    *)
(* isomorphic-ws, which is ws in a Node process and the browser's          *)
(* WebSocket otherwise).  Sockets are numbered in the order in which they  *)
(* are constructed.  This module gives what a call on a socket and what    *)
(* the network do to it; the handlers a client attaches to a socket are    *)
(* conjoined to these steps by the client's own module.                    *)
(***************************************************************************)
EXTENDS Naturals, Sequences

CONSTANTS
    Uris,        \* the model URIs that are subscribed to
    Listeners,   \* the SubscriptionListeners passed to subscribe
    NoUri,       \* the uri of a socket that is not constructed yet
    NoListener,  \* its listener
    MaxSockets   \* BOUND: the number of sockets a behaviour may construct

ASSUME MaxSocketsAssumption == MaxSockets \in Nat \ {0}
ASSUME NoUriAssumption == NoUri \notin Uris

Sockets == 1..MaxSockets
NoSocket == 0

VARIABLES
    created,     \* how many sockets have been constructed
    readyState,  \* the state of each socket
    uriOf,       \* the model URI each socket was opened for
    listenerOf,  \* the listener whose callbacks each socket's handlers call
    callbacks    \* the listener callbacks made by the last step, in order

socketVars == <<created, readyState, uriOf, listenerOf, callbacks>>

(* "NEW" is a socket not constructed yet.  "ABORTING" is the readyState     *)
(* CLOSING of a socket whose handshake was aborted by close(): its error    *)
(* and close events are still to come and it never receives a message.      *)
ReadyStates == {"NEW", "CONNECTING", "OPEN", "CLOSING", "ABORTING", "CLOSED"}

CallbackNames == {"onOpen", "onMessage", "onError", "onClose"}
Callbacks == CallbackNames \X Sockets

(* A socket the server may still regard, or come to regard, as subscribed. *)
Live(s) == readyState[s] \in {"CONNECTING", "OPEN"}

SocketTypeOK ==
    /\ created \in 0..MaxSockets
    /\ readyState \in [Sockets -> ReadyStates]
    /\ uriOf \in [Sockets -> Uris \union {NoUri}]
    /\ listenerOf \in [Sockets -> Listeners \union {NoListener}]
    /\ callbacks \in Seq(Callbacks)

SocketInit ==
    /\ created = 0
    /\ readyState = [s \in Sockets |-> "NEW"]
    /\ uriOf = [s \in Sockets |-> NoUri]
    /\ listenerOf = [s \in Sockets |-> NoListener]
    /\ callbacks = <<>>

----------------------------------------------------------------------------
(* Calls of the program.                                                   *)

NextSocket == created + 1

(* new WebSocket(path) for model u, with handlers that call listener l.    *)
Construct(u, l) ==
    /\ created < MaxSockets
    /\ created' = NextSocket
    /\ readyState' = [readyState EXCEPT ![NextSocket] = "CONNECTING"]
    /\ uriOf' = [uriOf EXCEPT ![NextSocket] = u]
    /\ listenerOf' = [listenerOf EXCEPT ![NextSocket] = l]

(* close() starts the closing handshake of an open socket, aborts one that *)
(* is connecting, and does nothing to one that is closing or closed.       *)
AfterClose(state) ==
    CASE state = "OPEN" -> "CLOSING"
      [] state = "CONNECTING" -> "ABORTING"
      [] OTHER -> state

(* close() called on every socket of S, in any order.                      *)
CloseAll(S) ==
    /\ readyState' = [s \in Sockets |-> IF s \in S THEN AfterClose(readyState[s])
                                                   ELSE readyState[s]]
    /\ UNCHANGED <<created, uriOf, listenerOf>>

(* send() throws before the handshake is done, and drops the data, with no *)
(* error for the caller, once the socket is closing.                       *)
SendOutcome(state) ==
    CASE state = "CONNECTING" -> "throws"
      [] state = "OPEN" -> "sent"
      [] OTHER -> "dropped"

----------------------------------------------------------------------------
(* Events of the network and of the server.                                *)

Moves(s, from, to) ==
    /\ readyState[s] = from
    /\ readyState' = [readyState EXCEPT ![s] = to]
    /\ UNCHANGED <<created, uriOf, listenerOf>>

(* The handshake is done: the open event.                                  *)
Opened(s) == Moves(s, "CONNECTING", "OPEN")

(* The connection is refused, or the handshake is rejected: the error and  *)
(* the close event are emitted one after the other, in the same turn.      *)
Refused(s) == Moves(s, "CONNECTING", "CLOSED")

(* The server's close frame arrives, or the connection drops: no event yet. *)
PeerCloses(s) == Moves(s, "OPEN", "CLOSING")

(* An unreadable frame: the error event; the close event comes later.      *)
Broken(s) == Moves(s, "OPEN", "CLOSING")

(* A message of the server.  A socket that is closing still delivers what  *)
(* the server sent before the server's own close frame.                    *)
Received(s) ==
    /\ readyState[s] \in {"OPEN", "CLOSING"}
    /\ UNCHANGED <<created, readyState, uriOf, listenerOf>>

(* The closing handshake ended or timed out: the close event.              *)
Closed(s) == Moves(s, "CLOSING", "CLOSED")

(* The aborted handshake: the error event and the close event.             *)
Aborted(s) == Moves(s, "ABORTING", "CLOSED")
============================================================================
