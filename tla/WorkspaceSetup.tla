--------------------------- MODULE WorkspaceSetup ---------------------------
(***************************************************************************)
(* ModelServerFrontendContribution beside the launcher.  Each change of    *)
(* the workspace starts an async handler that pings the server until it is *)
(* ready, a bounded number of times, and then configures it with the       *)
(* workspace of that change.  Handlers of several changes run              *)
(* concurrently: each await is a point where the others go on.             *)
(***************************************************************************)
EXTENDS Launcher

CONSTANTS
    Workspaces,     \* the roots that are opened
    MaxChanges,     \* BOUND: how often the workspace changes
    NumberOfTries   \* waitForReady's numberOfTries

ASSUME NumberOfTriesAssumption == NumberOfTries \in Nat \ {0}
ASSUME MaxChangesAssumption == MaxChanges \in Nat
ASSUME NoWorkspaceAssumption == NoWorkspace \notin Workspaces

VARIABLES
    announced,  \* the workspaces announced so far, NoWorkspace for none
    handler,    \* how far the handler of each change is
    tries,      \* the tries each handler has left
    request,    \* what has become of each handler's configureServer
    during,     \* ghost: the handlers that were running when a change came
    seen        \* ghost: how often the server had crashed when it last did what a handler asked

setupVars == <<announced, handler, tries, request, during, seen>>
vars == <<launcherVars, setupVars>>

Changes == 1..MaxChanges
Resting == {"absent", "ignored", "done", "rejected", "gave up"}
HandlerStates == Resting \union {"pinging", "available", "unavailable", "sleeping", "configuring"}
Ended == {"taken", "declined", "refused", "unreachable"}

TypeOK ==
    /\ LauncherTypeOK
    /\ config \in Workspaces \union {NoWorkspace}
    /\ announced \in Seq(Workspaces \union {NoWorkspace}) /\ Len(announced) <= MaxChanges
    /\ handler \in [Changes -> HandlerStates]
    /\ tries \in [Changes -> 0..NumberOfTries]
    /\ request \in [Changes -> {"none", "sent"} \union Ended]
    /\ during \in [Changes -> SUBSET Changes]
    /\ seen \in [Changes -> 0..MaxCrashes]

Init ==
    /\ LauncherInit
    /\ announced = <<>>
    /\ handler = [k \in Changes |-> "absent"]
    /\ tries = [k \in Changes |-> NumberOfTries]
    /\ request = [k \in Changes |-> "none"]
    /\ during = [k \in Changes |-> {}]
    /\ seen = [k \in Changes |-> 0]

Running == { k \in Changes : handler[k] \notin Resting }

----------------------------------------------------------------------------
(* onWorkspaceChanged fires.  Without a workspace the handler does nothing. *)
WorkspaceChanged(w) ==
    /\ Len(announced) < MaxChanges
    /\ announced' = Append(announced, w)
    /\ handler' = [handler EXCEPT ![Len(announced')] =
                      IF w = NoWorkspace THEN "ignored" ELSE "pinging"]
    /\ during' = [during EXCEPT ![Len(announced')] = Running]
    /\ UNCHANGED <<launcherVars, tries, request, seen>>

HandlerMoves(k, from, to) ==
    /\ handler[k] = from
    /\ handler' = [handler EXCEPT ![k] = to]

(* The server answers a ping: with success, or with anything else, ...     *)
AnswerPing(k) ==
    /\ server = "up"
    /\ \/ HandlerMoves(k, "pinging", "available") /\ seen' = [seen EXCEPT ![k] = crashes]
       \/ HandlerMoves(k, "pinging", "unavailable") /\ seen' = seen
    /\ UNCHANGED <<launcherVars, announced, tries, request, during>>

(* ... or is not there; waitForReady catches that.                         *)
NoAnswerPing(k) ==
    /\ server = "down"
    /\ HandlerMoves(k, "pinging", "unavailable")
    /\ UNCHANGED <<launcherVars, announced, tries, request, during, seen>>

SendConfigure(k) ==
    /\ request' = [request EXCEPT ![k] = "sent"]
    /\ UNCHANGED <<launcherVars, announced, tries, during, seen>>

(* Mutant: what ping resolved to is not looked at.                         *)
PingFailedGoesOn(k) == HandlerMoves(k, "unavailable", "configuring") /\ SendConfigure(k)

(* The handler gets the answer: it sleeps after each failed try ...        *)
PingFailed(k) ==
    /\ HandlerMoves(k, "unavailable", "sleeping")
    /\ UNCHANGED <<launcherVars, announced, tries, request, during, seen>>

(* ... or leaves the loop and calls configureServer.                       *)
PingSucceeded(k) == HandlerMoves(k, "available", "configuring") /\ SendConfigure(k)

(* Mutant: numberOfTries is not counted down.                              *)
AwakeForEver(k) ==
    /\ HandlerMoves(k, "sleeping", IF tries[k] > 0 THEN "pinging" ELSE "gave up")
    /\ UNCHANGED <<launcherVars, announced, tries, request, during, seen>>

(* Mutant: the loop goes on while numberOfTries >= 0.                       *)
AwakeOffByOne(k) ==
    /\ HandlerMoves(k, "sleeping", IF tries[k] > 0 THEN "pinging" ELSE "gave up")
    /\ tries' = [tries EXCEPT ![k] = @ - 1]
    /\ UNCHANGED <<launcherVars, announced, request, during, seen>>

(* The time between two tries is over.  The last one sleeps too.           *)
Awake(k) ==
    /\ HandlerMoves(k, "sleeping", IF tries[k] > 1 THEN "pinging" ELSE "gave up")
    /\ tries' = [tries EXCEPT ![k] = @ - 1]
    /\ UNCHANGED <<launcherVars, announced, request, during, seen>>

RequestMoves(k, to) ==
    /\ request[k] = "sent"
    /\ request' = [request EXCEPT ![k] = to]

(* The server takes the workspace, or declines it with a message that says *)
(* neither success nor error, or refuses with an error, ...                *)
AnswerConfigure(k) ==
    /\ server = "up"
    /\ \/ /\ RequestMoves(k, "taken")
          /\ config' = announced[k]
          /\ seen' = [seen EXCEPT ![k] = crashes]
       \/ /\ \E to \in {"declined", "refused"} : RequestMoves(k, to)
          /\ UNCHANGED <<config, seen>>
    /\ UNCHANGED <<launcher, process, server, crashes, announced, handler, tries, during>>

(* ... or is not there.                                                    *)
NoAnswerConfigure(k) ==
    /\ server = "down"
    /\ RequestMoves(k, "unreachable")
    /\ UNCHANGED <<launcherVars, announced, handler, tries, during, seen>>

(* Mutant: the handler does not await configureServer.                     *)
ConfigureNotAwaited(k) ==
    /\ HandlerMoves(k, "configuring", "done")
    /\ UNCHANGED <<launcherVars, announced, tries, request, during, seen>>

(* The handler ends: whether the server took the workspace or declined it  *)
(* is not looked at; a failure, of which a lost answer is one, is a        *)
(* rejection nobody handles.                                               *)
ConfigureResult(k) ==
    /\ request[k] \in Ended
    /\ \/ request[k] \in {"taken", "declined"} /\ HandlerMoves(k, "configuring", "done")
       \/ HandlerMoves(k, "configuring", "rejected")
    /\ UNCHANGED <<launcherVars, announced, tries, request, during, seen>>

----------------------------------------------------------------------------
(* What the handler does by itself, what the server does, and what happens *)
(* when there is no server.                                                *)
HandlerProgress(k) == PingFailed(k) \/ PingSucceeded(k) \/ Awake(k)
Answered(k) == AnswerPing(k) \/ AnswerConfigure(k) \/ ConfigureResult(k)
Unanswered(k) ==
    \/ NoAnswerPing(k) \/ NoAnswerConfigure(k)
    \/ server = "down" /\ ConfigureResult(k)

HandlerStep(k) == HandlerProgress(k) \/ Answered(k) \/ NoAnswerPing(k) \/ NoAnswerConfigure(k)

Next ==
    \/ \E w \in Workspaces \union {NoWorkspace} : WorkspaceChanged(w)
    \/ \E k \in Changes : HandlerStep(k)
    \/ LauncherNext /\ UNCHANGED setupVars

(* Timers expire, the event loop runs, and requests to nobody fail.  But   *)
(* nothing makes a server that is up answer: there is no timeout.          *)
Fairness ==
    /\ \A k \in Changes : WF_vars(HandlerProgress(k)) /\ WF_vars(Unanswered(k))
    /\ WF_vars(LauncherProgress /\ UNCHANGED setupVars)

Spec == Init /\ [][Next]_vars /\ Fairness

----------------------------------------------------------------------------
(* Of the workspaces the server took since it went down it has the last,   *)
(* and an earlier one only where their handlers ran at the same time: an   *)
(* older handler, slower by its sleeps, overtakes none that came after its *)
(* end.  If it took none since, it has none, whatever it had before.       *)
Taken == { k \in Changes : request[k] = "taken" /\ seen[k] = crashes }
Last(j) == \A k \in Taken : j >= k \/ j \in during[k]
ServerHasLastWorkspace ==
    IF Taken = {} THEN config = NoWorkspace ELSE \E j \in Taken : config = announced[j] /\ Last(j)

(* One answered ping is enough to go on: the configuration finds no server *)
(* only if that went down after it had answered the handler's ping.        *)
UnreachableOnlyAfterCrash ==
    \A k \in Changes : request[k] = "unreachable" => crashes > seen[k]

(* Every handler comes to an end, whatever the other handlers do and how   *)
(* often the server goes: done, or rejected, or after its last try.  Only  *)
(* for the answer of a server that is up it may wait for ever.             *)
AwaitsAnswer(k) == server = "up" /\ handler[k] \in {"pinging", "configuring"}
HandlersEnd == \A k \in Changes : <>[](handler[k] \in Resting \/ AwaitsAnswer(k))

(* With valid launch options there is a server in the end, whatever the    *)
(* launcher's ping found and whoever else starts one, unless the process   *)
(* could not be started or the server went down.                           *)
ServerGetsUp ==
    Configured => <>(server = "up" \/ process = "failed" \/ crashes > 0)
=============================================================================
