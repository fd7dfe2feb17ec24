--------------------------- MODULE Subscriptions ---------------------------
(***************************************************************************)
(* What subscribe and unsubscribe promise, without sockets or registries:  *)
(* a subscription is a channel of its own; a model has at most one active  *)
(* channel; and the listener of a channel is told of it in order: nothing  *)
(* before onOpen except a failure, notifications only afterwards, and      *)
(* onClose exactly once and last.                                          *)
(***************************************************************************)
EXTENDS Naturals, Sequences

CONSTANTS Channels, Topics, NoTopic

VARIABLES
    phase,    \* how far each channel is
    topic,    \* the model each channel is about
    notices   \* what the last step told listeners: <<callback, channel>> pairs

channelVars == <<phase, topic, notices>>

(* A cancelled channel was given up before it was established; an ending   *)
(* one after, and may still deliver what was under way.                    *)
Phases == {"unused", "requested", "established", "ending", "cancelled", "ended"}

Active(c) == phase[c] \in {"requested", "established"}

Init ==
    /\ phase = [c \in Channels |-> "unused"]
    /\ topic = [c \in Channels |-> NoTopic]
    /\ notices = <<>>

Advance(c, from, to) ==
    /\ phase[c] = from
    /\ phase' = [phase EXCEPT ![c] = to]
    /\ UNCHANGED topic

(* A new channel for t, which has no active one.                           *)
Request(c, t) ==
    /\ phase[c] = "unused"
    /\ \A d \in Channels : topic[d] = t => ~Active(d)
    /\ phase' = [phase EXCEPT ![c] = "requested"]
    /\ topic' = [topic EXCEPT ![c] = t]
    /\ notices' = <<>>

Establish(c) ==
    /\ Advance(c, "requested", "established")
    /\ notices' = << <<"onOpen", c>> >>

Notify(c) ==
    /\ phase[c] \in {"established", "ending"}
    /\ notices' = << <<"onMessage", c>> >>
    /\ UNCHANGED <<phase, topic>>

(* The request fails.                                                      *)
Fail(c) ==
    /\ Advance(c, "requested", "ended")
    /\ notices' = << <<"onError", c>>, <<"onClose", c>> >>

(* The other side leaves, with or without an error.                        *)
Lose(c) ==
    /\ Advance(c, "established", "ending")
    /\ notices' \in { <<>>, << <<"onError", c>> >> }

(* What a channel becomes when its subscriber, or all of them, give it up. *)
GivenUp(p) ==
    CASE p = "requested" -> "cancelled"
      [] p = "established" -> "ending"
      [] OTHER -> p

GiveUp(C) ==
    /\ phase' = [c \in Channels |-> IF c \in C THEN GivenUp(phase[c]) ELSE phase[c]]
    /\ notices' = <<>>
    /\ UNCHANGED topic

End(c) ==
    \/ /\ Advance(c, "ending", "ended")
       /\ notices' = << <<"onClose", c>> >>
    \/ /\ Advance(c, "cancelled", "ended")
       /\ notices' = << <<"onError", c>>, <<"onClose", c>> >>

Next ==
    \/ \E c \in Channels :
        \/ \E t \in Topics : Request(c, t)
        \/ Establish(c)
        \/ Notify(c)
        \/ Fail(c)
        \/ Lose(c)
        \/ End(c)
    \/ \E C \in SUBSET Channels : GiveUp(C)

(* A channel that is given up or lost does end.                            *)
Fairness == \A c \in Channels : WF_channelVars(End(c))

Spec == Init /\ [][Next]_channelVars
FairSpec == Spec /\ Fairness
============================================================================
