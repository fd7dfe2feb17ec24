------------------------------ MODULE KeepAlive ------------------------------
(***************************************************************************)
(* CustomDevModelServerClient of the development example, a ModelServer-   *)
(* ClientV2: a subscription with a timeout to one model is kept alive by   *)
(* an interval timer that sends on the model's registry entry.  Only the   *)
(* newest timer's id is kept.                                              *)
(***************************************************************************)
EXTENDS ClientSocketsV2

CONSTANTS
    KeptUri,      \* the model that is kept alive, Coffee.ecore
    MaxIntervals  \* BOUND: the number of timers that run at a time

ASSUME MaxIntervalsAssumption == MaxIntervals \in Nat

Intervals == 1..MaxIntervals
NoInterval == 0

VARIABLES
    running,     \* the timers that run
    intervalId   \* the one the client remembers

keepAliveVars == <<running, intervalId>>

KeepAliveInit ==
    /\ running = {}
    /\ intervalId = NoInterval

(* setInterval: the new timer runs besides those that nobody cleared.      *)
SetKeepAliveInterval ==
    \E i \in Intervals :
        /\ i \notin running
        /\ \A j \in 1..(i - 1) : j \in running
        /\ running' = running \union {i}
        /\ intervalId' = i

(* A timeout sets a timer unless the model has an entry; then the          *)
(* subscribe of the superclass.                                            *)
CustomSubscribe(u, l, strict, timeout) ==
    /\ IF timeout /\ ~isSocketOpen(u) /\ u = KeptUri
       THEN SetKeepAliveInterval
       ELSE UNCHANGED keepAliveVars
    /\ Subscribe(u, l, strict)

(* Mutant: the timer is not cleared.                                       *)
CustomUnsubscribeKeepsInterval(u) ==
    /\ UNCHANGED keepAliveVars
    /\ Unsubscribe(u)

(* clearInterval of the remembered timer, which may be an old one.         *)
CustomUnsubscribe(u) ==
    /\ running' = IF u = KeptUri THEN running \ {intervalId} ELSE running
    /\ UNCHANGED intervalId
    /\ Unsubscribe(u)

(* The timer sends a keepAlive message to the entry.                       *)
Tick ==
    /\ running # {}
    /\ Send(KeptUri)
    /\ UNCHANGED keepAliveVars

KeepAliveNext ==
    \/ \E u \in Uris, l \in Listeners, strict \in Strictness, timeout \in BOOLEAN :
            CustomSubscribe(u, l, strict, timeout)
    \/ \E u \in Uris : CustomUnsubscribe(u)
    \/ \E u \in Uris : Send(u) /\ UNCHANGED keepAliveVars
    \/ Tick
    \/ Event /\ UNCHANGED keepAliveVars

KeepAliveSpec == Init /\ KeepAliveInit /\ [][KeepAliveNext]_<<vars, keepAliveVars>>

----------------------------------------------------------------------------
(* No timer is forgotten: there is one at most, the client remembers it,   *)
(* and it runs only while the model has an entry for unsubscribe to find.  *)
(* It holds because no handler of a socket removes an entry.               *)
IntervalHasEntry ==
    running # {} => running = {intervalId} /\ isSocketOpen(KeptUri)
==============================================================================
