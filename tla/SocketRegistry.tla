--------------------------- MODULE SocketRegistry ---------------------------
(***************************************************************************)
(* What the clients of API v1 and v2 share: the registry openSockets that  *)
(* maps a model URI to the socket of its subscription, the part of         *)
(* subscribe and unsubscribe that works on it, and what a registry of      *)
(* sockets has to guarantee.                                               *)
(***************************************************************************)
EXTENDS WebSocket

CONSTANTS
    Strictness   \* the values callers give options.errorWhenUnsuccessful

ASSUME StrictnessAssumption == Strictness \subseteq BOOLEAN

VARIABLES
    openSockets, \* the registry: the socket kept for each model URI
    reply        \* what the call made in the last step came to

vars == <<socketVars, openSockets, reply>>

Calls == {"subscribe", "unsubscribe", "send", "none"}
Results == {"subscribed", "subscribed with warning", "already subscribed", "no listener",
            "true", "false", "sent", "dropped", "throws", "ignored", "none"}
Reply(call, u, result) == [call |-> call, uri |-> u, result |-> result]
NoReply == Reply("none", NoUri, "none")

TypeOK ==
    /\ SocketTypeOK
    /\ openSockets \in [Uris -> Sockets \union {NoSocket}]
    /\ reply \in [call : Calls, uri : Uris \union {NoUri}, result : Results]

Init ==
    /\ SocketInit
    /\ openSockets = [u \in Uris |-> NoSocket]
    /\ reply = NoReply

----------------------------------------------------------------------------
isSocketOpen(u) == openSockets[u] # NoSocket

(* Mutants: an entry one past the socket, and a set that keeps an entry.   *)
DoSubscribeOffByOne(u, l) ==
    /\ Construct(u, l)
    /\ openSockets' = [openSockets EXCEPT ![u] = NextSocket + 1]

DoSubscribeKeepsEntry(u, l) ==
    /\ Construct(u, l)
    /\ openSockets' = [openSockets EXCEPT ![u] = IF isSocketOpen(u) THEN @ ELSE NextSocket]

(* new WebSocket, its handlers, and openSockets.set, whatever was there.   *)
DoSubscribe(u, l) ==
    /\ Construct(u, l)
    /\ openSockets' = [openSockets EXCEPT ![u] = NextSocket]

(* Mutant: errorWhenUnsuccessful has no effect.                            *)
OpenOrRefuseNever(u, l, strict) ==
    /\ DoSubscribe(u, l)
    /\ reply' = Reply("subscribe", u, "subscribed")

(* An existing entry makes subscribe throw only if the caller asked for    *)
(* it; otherwise it warns that it cannot open a socket, and opens one.     *)
OpenOrRefuse(u, l, strict) ==
    \/ /\ isSocketOpen(u) /\ strict
       /\ reply' = Reply("subscribe", u, "already subscribed")
       /\ UNCHANGED <<created, readyState, uriOf, listenerOf, openSockets>>
    \/ /\ ~(isSocketOpen(u) /\ strict)
       /\ reply' = Reply("subscribe", u, IF isSocketOpen(u) THEN "subscribed with warning"
                                                           ELSE "subscribed")
       /\ DoSubscribe(u, l)

(* Mutant: the entry goes, the socket is not closed.                       *)
CloseEntryKeepsSocket(u) ==
    /\ openSockets' = [openSockets EXCEPT ![u] = NoSocket]
    /\ UNCHANGED <<created, readyState, uriOf, listenerOf>>

(* Close the socket of the entry, if there is one, and remove the entry.   *)
CloseEntry(u) ==
    /\ CloseAll({openSockets[u]})
    /\ openSockets' = [openSockets EXCEPT ![u] = NoSocket]

(* A handler runs: the calls it makes on the listener, and no reply.       *)
Handles(tells) ==
    /\ callbacks' = tells
    /\ reply' = NoReply

----------------------------------------------------------------------------
(* The registry entry of a model is the newest of its sockets.             *)
EntryIsNewest ==
    \A u \in Uris : isSocketOpen(u) =>
        /\ uriOf[openSockets[u]] = u
        /\ \A s \in Sockets : uriOf[s] = u => s <= openSockets[u]

(* A socket that is connecting or open and is not the entry of its model   *)
(* was passed over by a later subscribe to the model: no interleaving of   *)
(* closes, late events and re-subscriptions strands one in another way.    *)
StrandedOnlyBySuccessor ==
    \A s \in Sockets : Live(s) =>
        \/ openSockets[uriOf[s]] = s
        \/ \E t \in Sockets : t > s /\ uriOf[t] = uriOf[s]

(* A connecting or open socket is always the one unsubscribe would close   *)
(* and send would use: nothing notifies a listener that can no longer be   *)
(* stopped, and a model has one live socket at most.                       *)
LiveSocketIsRegistered ==
    \A s \in Sockets : Live(s) => openSockets[uriOf[s]] = s

(* After unsubscribe, unless the model is subscribed to again, every       *)
(* socket ever opened for it is finally closed and its listener told so.   *)
SilentModel(u) ==
    \A s \in Sockets : uriOf[s] = u => readyState[s] = "CLOSED"
UnsubscribeSilences ==
    \A u \in Uris : ~isSocketOpen(u) ~> (isSocketOpen(u) \/ SilentModel(u))

(* The client keeps the promises of Subscriptions: its sockets are the     *)
(* channels, in the phases their states stand for.                         *)
PhaseOf(state) ==
    CASE state = "NEW" -> "unused"
      [] state = "CONNECTING" -> "requested"
      [] state = "OPEN" -> "established"
      [] state = "CLOSING" -> "ending"
      [] state = "ABORTING" -> "cancelled"
      [] state = "CLOSED" -> "ended"

Promise == INSTANCE Subscriptions WITH
    Channels <- Sockets,
    Topics <- Uris,
    NoTopic <- NoUri,
    phase <- [s \in Sockets |-> PhaseOf(readyState[s])],
    topic <- uriOf,
    notices <- callbacks

KeepsPromise == Promise!FairSpec

----------------------------------------------------------------------------
(* What the documentation says, for the runs that compare it with the code. *)

(* model-server-notification.ts: a CloseNotification says "that the        *)
(* subscription for a model has ended".  So subscribe does not refuse a    *)
(* model, as "already subscribed", whose CloseNotification was sent.       *)
RefusesOnlySubscribed ==
    [][\A u \in Uris : reply' = Reply("subscribe", u, "already subscribed")
                         => readyState[openSockets[u]] # "CLOSED"]_vars

(* The same comment: the subscription ends "directly by invoking the       *)
(* unsubscribe method".  So unsubscribe leaves no live socket of a model.  *)
UnsubscribeEndsSubscription ==
    [][\A u \in Uris : reply'.call = "unsubscribe" /\ reply'.uri = u
                         => \A s \in Sockets : uriOf[s] = u => ~Live(s)']_vars
============================================================================
