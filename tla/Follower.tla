------------------------------ MODULE Follower ------------------------------
(***************************************************************************)
(* What a subscriber may rely on, without sockets, messages and patches:   *)
(* the model goes through a history of contents, and a follower has one of *)
(* them, only moves forward, and in the end has the last.  A follower may  *)
(* lose track; then nothing is promised until it is back on track.         *)
(***************************************************************************)
EXTENDS Naturals, Sequences

CONSTANTS Followers, Contents

Lost == 0

VARIABLES
    history,   \* the contents the model has had
    position,  \* where in it each follower is, or Lost
    seen       \* what each follower that is not lost has

followerVars == <<history, position, seen>>

Init ==
    /\ \E c \in Contents : history = <<c>>
    /\ position = [f \in Followers |-> Lost]
    /\ seen \in [Followers -> Contents]

Extended(old, new) == new = old \/ \E c \in Contents : new = Append(old, c)

Next ==
    /\ Extended(history, history')
    /\ \A f \in Followers :
        /\ position'[f] \in {Lost} \union DOMAIN history'
        /\ position[f] # Lost /\ position'[f] # Lost => position'[f] >= position[f]
        /\ position'[f] # Lost => seen'[f] = history'[position'[f]]

Behind(f) == position[f] # Lost /\ position[f] # Len(history)
CatchesUp == \A f \in Followers : Behind(f) ~> ~Behind(f)

Spec == Init /\ [][Next]_followerVars /\ CatchesUp
=============================================================================
