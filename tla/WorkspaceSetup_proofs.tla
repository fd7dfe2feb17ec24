------------------------ MODULE WorkspaceSetup_proofs ------------------------
(***************************************************************************)
(* Proofs about WorkspaceSetup, for every number of changes, tries and     *)
(* crashes, whether or not the launcher has valid options, however         *)
(* handlers overlap and whatever the server answers.                       *)
(***************************************************************************)
EXTENDS WorkspaceSetup, TLAPS

(* A handler exists for each announced change and no other, and one that   *)
(* pings has a try left: without this the types are not inductive.         *)
Trying == {"pinging", "available", "unavailable", "sleeping"}

HandlersCounted ==
    \A k \in Changes :
        /\ k > Len(announced) <=> handler[k] = "absent"
        /\ handler[k] \in Trying \union {"absent"} => tries[k] > 0

(* A handler awaits its configureServer: while that is under way it is not *)
(* at rest, and before it has made none.                                   *)
RequestsAwaited ==
    \A k \in Changes :
        /\ request[k] = "sent" => handler[k] = "configuring"
        /\ request[k] # "none" => handler[k] \in {"configuring", "done", "rejected"}

(* Crashes are counted upwards; between a ping that was answered and the   *)
(* request that configures, the server is up or has crashed since.         *)
AnswerStands ==
    \A k \in Changes :
        /\ seen[k] <= crashes
        /\ handler[k] = "available" \/ request[k] = "sent" => server = "up" \/ crashes > seen[k]

(* A handler that still runs was running when any later change came.       *)
RunsSince ==
    \A i, k \in Changes : i < k /\ k <= Len(announced) /\ i \in Running => i \in during[k]

SetupInv ==
    /\ TypeOK /\ HandlersCounted /\ RequestsAwaited /\ AnswerStands /\ RunsSince
    /\ UnreachableOnlyAfterCrash /\ ServerHasLastWorkspace

LEMMA SetupInit == Init => SetupInv
<1> SUFFICES ASSUME Init PROVE SetupInv
  OBVIOUS
<1>1. TypeOK
  <2>1. LauncherTypeOK
    BY MaxCrashesAssumption DEF Init, LauncherInit, LauncherTypeOK
  <2>2. announced \in Seq(Workspaces \union {NoWorkspace}) /\ Len(announced) <= MaxChanges
    BY MaxChangesAssumption DEF Init
  <2>3. /\ tries \in [Changes -> 0..NumberOfTries] /\ during \in [Changes -> SUBSET Changes]
        /\ seen \in [Changes -> 0..MaxCrashes]
    <3>1. NumberOfTries \in 0..NumberOfTries /\ 0 \in 0..MaxCrashes
      BY NumberOfTriesAssumption, MaxCrashesAssumption
    <3> QED BY <3>1 DEF Init
  <2>4. /\ handler \in [Changes -> HandlerStates] /\ config = NoWorkspace
        /\ request \in [Changes -> {"none", "sent"} \union Ended]
    BY DEF Init, LauncherInit, HandlerStates, Resting
  <2> QED BY <2>1, <2>2, <2>3, <2>4 DEF TypeOK
<1>2. HandlersCounted
  BY NumberOfTriesAssumption DEF Init, HandlersCounted, Changes, Trying
<1>3. RequestsAwaited /\ AnswerStands /\ UnreachableOnlyAfterCrash
  BY DEF Init, LauncherInit, RequestsAwaited, AnswerStands, UnreachableOnlyAfterCrash
<1>4. RunsSince
  BY DEF Init, RunsSince, Running, Resting
<1>5. Taken = {} /\ config = NoWorkspace
  BY DEF Init, LauncherInit, Taken
<1> QED BY <1>1, <1>2, <1>3, <1>4, <1>5 DEF SetupInv, ServerHasLastWorkspace

----------------------------------------------------------------------------
(* The kinds of step.                                                      *)

(* The handler of change k goes from one state to another.                 *)
Passes(k, from, to) ==
    /\ handler[k] = from
    /\ handler' = [handler EXCEPT ![k] = to]
    /\ UNCHANGED <<launcherVars, announced, during>>

(* The server does something with the request of change k, or nobody does. *)
Becomes(k, to) ==
    /\ request[k] = "sent"
    /\ request' = [request EXCEPT ![k] = to]
    /\ UNCHANGED <<launcher, process, server, crashes, announced, handler, tries, during>>

HandlerKinds(k) ==
    \/ /\ Passes(k, "pinging", "available") /\ server = "up"
       /\ seen' = [seen EXCEPT ![k] = crashes] /\ UNCHANGED <<tries, request>>
    \/ Passes(k, "pinging", "unavailable") /\ UNCHANGED <<tries, request, seen>>
    \/ Passes(k, "unavailable", "sleeping") /\ UNCHANGED <<tries, request, seen>>
    \/ /\ Passes(k, "available", "configuring")
       /\ request' = [request EXCEPT ![k] = "sent"] /\ UNCHANGED <<tries, seen>>
    \/ /\ Passes(k, "sleeping", "pinging") /\ tries[k] > 1
       /\ tries' = [tries EXCEPT ![k] = @ - 1] /\ UNCHANGED <<request, seen>>
    \/ /\ Passes(k, "sleeping", "gave up")
       /\ tries' = [tries EXCEPT ![k] = @ - 1] /\ UNCHANGED <<request, seen>>
    \/ /\ \E to \in {"done", "rejected"} : Passes(k, "configuring", to)
       /\ request[k] \in Ended /\ UNCHANGED <<tries, request, seen>>

RequestKinds(k) ==
    \/ Becomes(k, "taken") /\ config' = announced[k] /\ seen' = [seen EXCEPT ![k] = crashes]
    \/ \E to \in {"declined", "refused"} : Becomes(k, to) /\ UNCHANGED <<config, seen>>
    \/ Becomes(k, "unreachable") /\ server = "down" /\ UNCHANGED <<config, seen>>

LEMMA HandlerStepKinds ==
    ASSUME NEW k \in Changes, HandlerStep(k)
    PROVE  HandlerKinds(k) \/ RequestKinds(k)
<1> USE DEF HandlerKinds, Passes, HandlerMoves, SendConfigure
<1>1. CASE AnswerPing(k) \/ NoAnswerPing(k)
  BY <1>1 DEF AnswerPing, NoAnswerPing
<1>2. CASE PingFailed(k)
  BY <1>2 DEF PingFailed
<1>3. CASE PingSucceeded(k)
  BY <1>3 DEF PingSucceeded
<1>4. CASE Awake(k)
  BY <1>4 DEF Awake
<1>5. CASE AnswerConfigure(k)
  BY <1>5 DEF AnswerConfigure, RequestMoves, RequestKinds, Becomes
<1>6. CASE NoAnswerConfigure(k)
  BY <1>6 DEF NoAnswerConfigure, RequestMoves, RequestKinds, Becomes, launcherVars
<1>7. CASE ConfigureResult(k)
  BY <1>7 DEF ConfigureResult
<1> QED BY <1>1, <1>2, <1>3, <1>4, <1>5, <1>6, <1>7 DEF HandlerStep, HandlerProgress, Answered

(* A step of the launcher or of the server: no handler notices.            *)
LauncherKinds ==
    /\ UNCHANGED setupVars
    /\ LauncherTypeOK'
    /\ \/ UNCHANGED <<config, crashes>> /\ (server = "up" => server' = "up")
       \/ config' = NoWorkspace /\ crashes' = crashes + 1

LEMMA LauncherStepKinds ==
    ASSUME TypeOK, LauncherNext /\ UNCHANGED setupVars
    PROVE  LauncherKinds
<1> USE DEF TypeOK, LauncherTypeOK, LauncherKinds, LauncherMoves
<1>1. CASE Initialize \/ AnswerLauncher \/ NoAnswerLauncher \/ FindRunning
  BY <1>1 DEF Initialize, AnswerLauncher, NoAnswerLauncher, FindRunning
<1>2. CASE StartServer
  BY <1>2 DEF StartServer
<1>3. CASE ServerStartsElsewhere \/ ProcessComesUp \/ ProcessFails
  BY <1>3 DEF ServerStartsElsewhere, ProcessComesUp, ProcessFails
<1>4. CASE ServerCrashes
  BY <1>4, MaxCrashesAssumption DEF ServerCrashes
<1> QED BY <1>1, <1>2, <1>3, <1>4 DEF LauncherNext

(* A change: the next handler.                                             *)
LEMMA ChangeStep ==
    ASSUME TypeOK, NEW w \in Workspaces \union {NoWorkspace}, WorkspaceChanged(w)
    PROVE  /\ Len(announced) + 1 \in Changes
           /\ announced' \in Seq(Workspaces \union {NoWorkspace})
           /\ Len(announced') = Len(announced) + 1
           /\ \A k \in 1..Len(announced) : announced'[k] = announced[k]
           /\ \E to \in {"ignored", "pinging"} :
                 handler' = [handler EXCEPT ![Len(announced) + 1] = to]
           /\ during' = [during EXCEPT ![Len(announced) + 1] = Running]
           /\ UNCHANGED <<launcherVars, tries, request, seen>>
<1>1. /\ announced \in Seq(Workspaces \union {NoWorkspace})
      /\ announced' = Append(announced, w)
      /\ Len(announced) < MaxChanges
  BY DEF WorkspaceChanged, TypeOK
<1>2. /\ Len(announced) \in Nat
      /\ announced' \in Seq(Workspaces \union {NoWorkspace})
      /\ Len(announced') = Len(announced) + 1
      /\ \A k \in 1..Len(announced) : announced'[k] = announced[k]
  BY <1>1
<1>3. Len(announced) + 1 \in Changes
  BY <1>1, <1>2, MaxChangesAssumption DEF Changes
<1> QED BY <1>2, <1>3 DEF WorkspaceChanged

(* The configuration stays the last one as long as what was taken, by whom *)
(* and with which handlers running, does.                                  *)
LEMMA SameTaken ==
    ASSUME ServerHasLastWorkspace, config' = config, Taken' = Taken,
           \A k \in Taken : announced'[k] = announced[k] /\ during'[k] = during[k]
    PROVE  ServerHasLastWorkspace'
BY DEF ServerHasLastWorkspace, Last

----------------------------------------------------------------------------
(* Each kind of step preserves the invariant.                              *)

LEMMA ChangeKeeps ==
    ASSUME SetupInv, NEW w \in Workspaces \union {NoWorkspace}, WorkspaceChanged(w)
    PROVE  SetupInv'
<1> DEFINE n == Len(announced) + 1
<1> USE DEF SetupInv
<1>1. /\ n \in Changes /\ Len(announced) \in Nat /\ Changes \subseteq Nat /\ Len(announced') = n
      /\ UNCHANGED <<launcherVars, tries, request, seen>>
      /\ during' = [during EXCEPT ![n] = Running]
  BY ChangeStep DEF TypeOK, Changes
<1>2. PICK to \in {"ignored", "pinging"} : handler' = [handler EXCEPT ![n] = to]
  BY ChangeStep
<1>3. TypeOK'
  <2>1. LauncherTypeOK' /\ config' = config
    BY <1>1 DEF launcherVars, TypeOK, LauncherTypeOK
  <2>2. handler' \in [Changes -> HandlerStates]
    BY <1>2 DEF TypeOK, HandlerStates, Resting
  <2>3. during' \in [Changes -> SUBSET Changes]
    BY <1>1 DEF TypeOK, Running
  <2>4. announced' \in Seq(Workspaces \union {NoWorkspace}) /\ Len(announced') <= MaxChanges
    BY <1>1, ChangeStep DEF Changes
  <2> QED BY <1>1, <2>1, <2>2, <2>3, <2>4 DEF TypeOK
<1>4. handler[n] = "absent" /\ request[n] = "none"
  BY <1>1 DEF HandlersCounted, RequestsAwaited
<1>5. \A k \in Changes : k # n => handler'[k] = handler[k] /\ during'[k] = during[k]
  BY <1>1, <1>2 DEF TypeOK
<1>6. HandlersCounted'
  BY <1>1, <1>2, <1>4 DEF TypeOK, HandlersCounted, Trying
<1>7. RequestsAwaited' /\ AnswerStands' /\ UnreachableOnlyAfterCrash'
  BY <1>1, <1>2, <1>4, <1>5
     DEF launcherVars, TypeOK, RequestsAwaited, AnswerStands, UnreachableOnlyAfterCrash
<1>8. RunsSince'
  <2> SUFFICES ASSUME NEW i \in Changes, NEW k \in Changes, i < k, k <= n, handler'[i] \notin Resting
               PROVE  i \in during'[k]
    BY <1>1 DEF RunsSince, Running
  <2>1. i # n /\ i \in Running
    BY <1>1, <1>5 DEF Running
  <2>2. CASE k = n
    BY <1>1, <2>1, <2>2 DEF TypeOK
  <2>3. CASE k # n
    BY <1>1, <1>5, <2>1, <2>3 DEF RunsSince
  <2> QED BY <2>2, <2>3
<1>9. ServerHasLastWorkspace'
  <2>1. config' = config /\ Taken' = Taken
    BY <1>1 DEF launcherVars, Taken
  <2>2. ASSUME NEW k \in Taken PROVE k # n /\ k \in 1..Len(announced)
    BY <1>1, <1>4, <2>2 DEF Taken, RequestsAwaited, HandlersCounted, Changes
  <2> QED BY <1>5, <2>1, <2>2, ChangeStep, SameTaken DEF Taken
<1> QED BY <1>3, <1>6, <1>7, <1>8, <1>9

LEMMA HandlerKeeps ==
    ASSUME SetupInv, NEW k \in Changes, HandlerKinds(k)
    PROVE  SetupInv'
<1> USE DEF SetupInv
<1>1. /\ UNCHANGED <<launcherVars, announced, during>>
      /\ handler[k] \notin Resting
      /\ \A i \in Changes : i # k => /\ handler'[i] = handler[i] /\ tries'[i] = tries[i]
                                     /\ request'[i] = request[i] /\ seen'[i] = seen[i]
  BY DEF HandlerKinds, Passes, TypeOK, Resting
<1>2. TypeOK'
  <2>1. LauncherTypeOK' /\ config' = config
    BY <1>1 DEF launcherVars, TypeOK, LauncherTypeOK
  <2>2. handler' \in [Changes -> HandlerStates]
    BY DEF HandlerKinds, Passes, TypeOK, HandlerStates, Resting
  <2>3. request' \in [Changes -> {"none", "sent"} \union Ended] /\ seen' \in [Changes -> 0..MaxCrashes]
    BY DEF HandlerKinds, TypeOK, LauncherTypeOK
  <2>4. tries' \in [Changes -> 0..NumberOfTries]
    <3>1. CASE UNCHANGED tries
      BY <3>1 DEF TypeOK
    <3>2. CASE tries' = [tries EXCEPT ![k] = @ - 1] /\ handler[k] = "sleeping"
      <4>1. tries[k] \in 0..NumberOfTries /\ tries[k] > 0
        BY <3>2 DEF TypeOK, HandlersCounted, Trying
      <4>2. tries[k] - 1 \in 0..NumberOfTries
        BY <4>1, NumberOfTriesAssumption
      <4> QED BY <3>2, <4>2 DEF TypeOK
    <3> QED BY <3>1, <3>2 DEF HandlerKinds, Passes
  <2> QED BY <1>1, <2>1, <2>2, <2>3, <2>4 DEF TypeOK
<1>3. HandlersCounted'
  <2>1. handler[k] # "absent" /\ handler'[k] # "absent"
    BY DEF HandlerKinds, Passes, TypeOK
  <2>2. handler'[k] \in Trying => tries'[k] > 0
    <3>1. tries[k] \in Nat /\ (handler[k] \in Trying => tries[k] > 0)
      BY NumberOfTriesAssumption DEF TypeOK, HandlersCounted
    <3>2. handler'[k] \in Trying => handler[k] \in Trying
      BY DEF HandlerKinds, Passes, TypeOK, Trying
    <3>3. CASE tries' = tries
      BY <3>1, <3>2, <3>3
    <3>4. CASE tries' = [tries EXCEPT ![k] = @ - 1] /\ tries[k] > 1
      BY <3>1, <3>4 DEF TypeOK
    <3>5. CASE handler' = [handler EXCEPT ![k] = "gave up"]
      BY <3>5 DEF TypeOK, Trying
    <3> QED BY <3>3, <3>4, <3>5 DEF HandlerKinds, Passes
  <2> QED BY <1>1, <2>1, <2>2 DEF HandlersCounted
<1>4. RequestsAwaited'
  <2>1. /\ request'[k] = "sent" => handler'[k] = "configuring"
        /\ request'[k] # "none" => handler'[k] \in {"configuring", "done", "rejected"}
    BY DEF HandlerKinds, Passes, TypeOK, RequestsAwaited, Ended
  <2> QED BY <1>1, <2>1 DEF RequestsAwaited
<1>5. crashes' = crashes /\ crashes \in Nat /\ server' = server /\ config' = config
  BY <1>1, MaxCrashesAssumption DEF launcherVars, TypeOK, LauncherTypeOK
<1>6. AnswerStands'
  <2>1. /\ seen'[k] <= crashes
        /\ handler'[k] = "available" \/ request'[k] = "sent" => server = "up" \/ crashes > seen'[k]
    <3>1. /\ seen[k] <= crashes
          /\ handler[k] = "available" \/ request[k] = "sent" => server = "up" \/ crashes > seen[k]
          /\ request[k] = "sent" => handler[k] = "configuring"
      BY DEF AnswerStands, RequestsAwaited
    <3>2. CASE seen' = [seen EXCEPT ![k] = crashes] /\ server = "up"
      BY <1>5, <3>2 DEF TypeOK
    <3>3. CASE handler[k] = "available" /\ seen' = seen
      BY <3>1, <3>3
    <3>4. CASE seen' = seen /\ request' = request /\ handler'[k] # "available"
      BY <3>1, <3>4
    <3> QED BY <3>2, <3>3, <3>4 DEF HandlerKinds, Passes, TypeOK
  <2> QED BY <1>1, <1>5, <2>1 DEF AnswerStands
<1>7. request'[k] \in Ended => request'[k] = request[k] /\ seen'[k] = seen[k]
  BY DEF HandlerKinds, Passes, TypeOK, RequestsAwaited, Ended
<1>8. UnreachableOnlyAfterCrash'
  BY <1>1, <1>5, <1>7 DEF UnreachableOnlyAfterCrash, Ended
<1>9. RunsSince'
  BY <1>1 DEF RunsSince, Running
<1>10. ServerHasLastWorkspace'
  <2>1. request[k] = "taken" => request'[k] = "taken" /\ seen'[k] = seen[k]
    BY DEF HandlerKinds, Passes, TypeOK, RequestsAwaited
  <2>2. Taken' = Taken
    BY <1>1, <1>5, <1>7, <2>1 DEF Taken, Ended
  <2> QED BY <1>1, <1>5, <2>2, SameTaken
<1> QED BY <1>2, <1>3, <1>4, <1>6, <1>8, <1>9, <1>10

LEMMA RequestKeeps ==
    ASSUME SetupInv, NEW k \in Changes, RequestKinds(k)
    PROVE  SetupInv'
<1> USE DEF SetupInv
<1>1. /\ UNCHANGED <<launcher, process, server, crashes, announced, handler, tries, during>>
      /\ request[k] = "sent" /\ handler[k] = "configuring"
      /\ \A i \in Changes : i # k => request'[i] = request[i] /\ seen'[i] = seen[i]
  BY DEF RequestKinds, Becomes, TypeOK, RequestsAwaited
<1>2. /\ request'[k] \in Ended /\ crashes \in Nat
      /\ Len(announced) \in Nat /\ k \in 1..Len(announced)
  <2>1. request'[k] \in Ended
    BY DEF RequestKinds, Becomes, TypeOK, Ended
  <2>2. crashes \in Nat /\ Len(announced) \in Nat /\ k \in Nat /\ k >= 1
    BY MaxCrashesAssumption DEF TypeOK, LauncherTypeOK, Changes
  <2>3. ~(k > Len(announced))
    BY <1>1 DEF HandlersCounted
  <2> QED BY <2>1, <2>2, <2>3
<1>3. TypeOK'
  <2>1. LauncherTypeOK'
    BY <1>1 DEF TypeOK, LauncherTypeOK
  <2>2. config' \in Workspaces \union {NoWorkspace}
    <3>1. announced[k] \in Workspaces \union {NoWorkspace}
      BY <1>2 DEF TypeOK
    <3> QED BY <3>1 DEF RequestKinds, TypeOK
  <2>3. request' \in [Changes -> {"none", "sent"} \union Ended] /\ seen' \in [Changes -> 0..MaxCrashes]
    BY DEF RequestKinds, Becomes, TypeOK, LauncherTypeOK, Ended
  <2> QED BY <1>1, <2>1, <2>2, <2>3 DEF TypeOK
<1>4. HandlersCounted' /\ RunsSince'
  BY <1>1 DEF HandlersCounted, RunsSince, Running
<1>5. RequestsAwaited'
  BY <1>1, <1>2 DEF RequestsAwaited, Ended
<1>6. AnswerStands'
  <2>1. seen'[k] <= crashes
    BY <1>2 DEF RequestKinds, TypeOK, AnswerStands
  <2> QED BY <1>1, <1>2, <2>1 DEF AnswerStands, Ended
<1>7. UnreachableOnlyAfterCrash'
  <2>1. request'[k] = "unreachable" => server = "down" /\ seen'[k] = seen[k]
    BY DEF RequestKinds, Becomes, TypeOK
  <2>2. request'[k] = "unreachable" => crashes > seen'[k]
    BY <1>1, <2>1 DEF AnswerStands
  <2> QED BY <1>1, <2>2 DEF UnreachableOnlyAfterCrash
<1>8. ServerHasLastWorkspace'
  <2>1. CASE config' = config /\ request'[k] # "taken"
    <3>1. Taken' = Taken
      BY <1>1, <2>1 DEF Taken
    <3> QED BY <1>1, <2>1, <3>1, SameTaken
  (* It is the last now: whose handler came later found this one running. *)
  <2>2. CASE config' = announced[k] /\ seen' = [seen EXCEPT ![k] = crashes] /\ request'[k] = "taken"
    <3>1. k \in Taken'
      BY <1>1, <2>2 DEF Taken, TypeOK
    <3>2. ASSUME NEW i \in Taken' PROVE k >= i \/ k \in during'[i]
      <4>1. CASE i <= k
        BY <4>1, <3>2 DEF Taken, Changes
      <4>2. CASE k < i
        <5>1. i \in Changes /\ request[i] # "none" /\ k \in Running
          BY <1>1, <4>2, <3>2 DEF Taken, Running, Resting, Changes
        <5>2. i <= Len(announced)
          BY <1>2, <5>1 DEF RequestsAwaited, HandlersCounted, Changes
        <5> QED BY <1>1, <4>2, <5>1, <5>2 DEF RunsSince
      <4> QED BY <1>2, <3>2, <4>1, <4>2 DEF Taken, Changes
    <3>3. Last(k)'
      BY <3>2 DEF Last
    <3> QED BY <1>1, <2>2, <3>1, <3>3 DEF ServerHasLastWorkspace
  <2> QED BY <2>1, <2>2 DEF RequestKinds, Becomes, TypeOK
<1> QED BY <1>3, <1>4, <1>5, <1>6, <1>7, <1>8

LEMMA LauncherKeeps ==
    ASSUME SetupInv, LauncherKinds
    PROVE  SetupInv'
<1> USE DEF SetupInv
<1>1. UNCHANGED <<announced, handler, tries, request, during, seen>> /\ LauncherTypeOK'
  BY DEF LauncherKinds, setupVars
<1>2. /\ crashes \in Nat /\ \A k \in Changes : seen[k] \in Nat
      /\ config' \in Workspaces \union {NoWorkspace}
  BY MaxCrashesAssumption DEF TypeOK, LauncherTypeOK, LauncherKinds
<1>3. TypeOK'
  BY <1>1, <1>2 DEF TypeOK
<1>4. HandlersCounted' /\ RequestsAwaited' /\ RunsSince'
  BY <1>1 DEF HandlersCounted, RequestsAwaited, RunsSince, Running
<1>5. CASE UNCHANGED <<config, crashes>> /\ (server = "up" => server' = "up")
  <2>1. AnswerStands' /\ UnreachableOnlyAfterCrash'
    BY <1>1, <1>5 DEF AnswerStands, UnreachableOnlyAfterCrash
  <2>2. ServerHasLastWorkspace'
    BY <1>1, <1>5, SameTaken DEF Taken
  <2> QED BY <1>3, <1>4, <2>1, <2>2
<1>6. CASE config' = NoWorkspace /\ crashes' = crashes + 1
  <2>1. AnswerStands' /\ UnreachableOnlyAfterCrash'
    BY <1>1, <1>2, <1>6 DEF AnswerStands, UnreachableOnlyAfterCrash
  (* Whatever was taken before is forgotten. *)
  <2>2. Taken' = {}
    BY <1>1, <1>2, <1>6 DEF Taken, AnswerStands
  <2> QED BY <1>3, <1>4, <1>6, <2>1, <2>2 DEF ServerHasLastWorkspace
<1> QED BY <1>5, <1>6 DEF LauncherKinds

LEMMA SetupStep == SetupInv /\ [Next]_vars => SetupInv'
<1> SUFFICES ASSUME SetupInv, [Next]_vars PROVE SetupInv'
  OBVIOUS
<1>1. ASSUME NEW w \in Workspaces \union {NoWorkspace}, WorkspaceChanged(w)
      PROVE  SetupInv'
  BY <1>1, ChangeKeeps
<1>2. ASSUME NEW k \in Changes, HandlerStep(k)
      PROVE  SetupInv'
  BY <1>2, HandlerStepKinds, HandlerKeeps, RequestKeeps
<1>3. CASE LauncherNext /\ UNCHANGED setupVars
  BY <1>3, LauncherStepKinds, LauncherKeeps DEF SetupInv
<1>4. CASE UNCHANGED vars
  <2>1. UNCHANGED <<announced, handler, tries, request, during, seen, launcher, process, server, config, crashes>>
    BY <1>4 DEF vars, setupVars, launcherVars
  <2> QED BY <2>1 DEF SetupInv, TypeOK, LauncherTypeOK, HandlersCounted, RequestsAwaited, AnswerStands,
                      RunsSince, Running, UnreachableOnlyAfterCrash, ServerHasLastWorkspace, Taken, Last
<1> QED BY <1>1, <1>2, <1>3, <1>4 DEF Next

LEMMA SetupInvariant == Spec => []SetupInv
<1> QED BY SetupInit, SetupStep, PTL DEF Spec

(* Each handler is in one of its states and counts its tries down to 0,    *)
(* and what the server is configured with is a workspace that was opened.  *)
THEOREM SetupTypeCorrect == Spec => []TypeOK
<1>1. SetupInv => TypeOK
  BY DEF SetupInv
<1> QED BY <1>1, SetupInvariant, PTL

(* One answered ping is enough to find a server to configure: it is not    *)
(* there any more only if it crashed after that handler's ping, however    *)
(* many handlers and whichever launcher are at it, and whatever it         *)
(* answers.                                                                *)
THEOREM UnreachableAfterCrash == Spec => []UnreachableOnlyAfterCrash
<1>1. SetupInv => UnreachableOnlyAfterCrash
  BY DEF SetupInv
<1> QED BY <1>1, SetupInvariant, PTL

(* Of the workspaces the server took since its last crash it has the last  *)
(* one, or one of an older handler that was running when the last change   *)
(* came; and none if it took none, whatever the handlers were told.        *)
THEOREM LastWorkspaceWins == Spec => []ServerHasLastWorkspace
<1>1. SetupInv => ServerHasLastWorkspace
  BY DEF SetupInv
<1> QED BY <1>1, SetupInvariant, PTL

=============================================================================
