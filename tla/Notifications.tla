---------------------------- MODULE Notifications ----------------------------
(***************************************************************************)
(* From a change of the model on the server to the copies its subscribers  *)
(* keep: the sockets of the example's client, the messages under way on    *)
(* them, the listener that dispatches them, and subscribers that patch     *)
(* their copy of the model.  No message carries a version, and neither     *)
(* does the answer of a get or an edit.                                    *)
(***************************************************************************)
EXTENDS ClientSocketsV2, NotificationListeners, SubscriptionClients, FiniteSets

CONSTANTS
    SharedUri,       \* the model they subscribe to
    NumSubscribers,  \* the subscribers of the events of one listener
    Requesters,      \* BOUND: those of them that make requests of their own
    OtherMessages,   \* what the server may send besides updates
    MaxChanges       \* BOUND: how often the model changes

ASSUME SharedUriAssumption == SharedUri \in Uris
ASSUME OtherMessagesAssumption ==
    \A m \in OtherMessages : /\ m.data.kind \in DataKinds /\ m.data.from = m.data.to
                             /\ m.type = "fullUpdate" => ~IsObject(m.data)
ASSUME NumSubscribersAssumption == NumSubscribers \in Nat
ASSUME RequestersAssumption == Requesters \subseteq 1..NumSubscribers
ASSUME MaxChangesAssumption == MaxChanges \in Nat

Subscribers == 1..NumSubscribers

(* The contents of the model are numbered; Torn is none of them: a model   *)
(* that was patched with the patch of another version.                     *)
Torn == 0
Contents == 1..(MaxChanges + 2)

(* Model objects in the memory of the subscribers, which may share one.    *)
Objects == 1..(NumSubscribers + 1)
NoObject == 0

VARIABLES
    history,    \* the contents the model on the server has had, the last is its content
    timeline,   \* the server's undo stack: contents to go back and forward to
    now,        \* where in it the model is
    feed,       \* the messages under way on each socket
    holds,      \* the object each subscriber keeps as the model
    content,    \* of each object
    answer,     \* the content of the model under way to who asked for it
    following   \* ghost: which subscribers have done nothing a version would be needed for

serverVars == <<history, timeline, now>>
replicaVars == <<holds, content, answer, following>>
notificationVars == <<vars, serverVars, feed, replicaVars>>

NoAnswer == 0
Model == history[Len(history)]

NotificationTypeOK ==
    /\ TypeOK
    /\ history \in Seq(Contents) /\ timeline \in Seq(Contents) /\ now \in DOMAIN timeline
    /\ \A s \in Sockets : \A i \in DOMAIN feed[s] : feed[s][i].data.kind \in DataKinds
    /\ holds \in [Subscribers -> Objects \union {NoObject}]
    /\ content \in [Objects -> Contents \union {Torn}]
    /\ answer \in [Subscribers -> Contents \union {NoAnswer}]
    /\ following \in [Subscribers -> BOOLEAN]

NotificationInit ==
    /\ Init
    /\ history = <<2>> /\ timeline = <<1, 2>> /\ now = 2
    /\ feed = [s \in Sockets |-> <<>>]
    /\ holds = [r \in Subscribers |-> NoObject]
    /\ content = [o \in Objects |-> Torn]
    /\ answer = [r \in Subscribers |-> NoAnswer]
    /\ following = [r \in Subscribers |-> FALSE]

----------------------------------------------------------------------------
(* The model server (external).                                            *)

UpdateMessage(from, to) == Message("incrementalUpdate", Changed("patch", from, to))

Unclosed == { s \in Sockets : readyState[s] \notin {"NEW", "CLOSED"} }

(* The model becomes c.  All open sockets are sent m; of those that are    *)
(* closing, the ones whose close frame has not arrived yet.  BOUND: it     *)
(* changes only while there is a socket.                                   *)
Becomes(c, m) ==
    /\ Len(history) <= MaxChanges
    /\ Unclosed # {}
    /\ history' = Append(history, c)
    /\ \E unaware \in SUBSET { s \in Sockets : readyState[s] = "CLOSING" } :
        feed' = [s \in Sockets |-> IF readyState[s] = "OPEN" \/ s \in unaware
                                   THEN Append(feed[s], m) ELSE feed[s]]

Change(c) == Becomes(c, UpdateMessage(Model, c))

New == Len(history) + 2

Edited ==
    /\ Change(New)
    /\ timeline' = Append(SubSeq(timeline, 1, now), New)
    /\ now' = now + 1

Undone ==
    /\ now > 1
    /\ Change(timeline[now - 1])
    /\ now' = now - 1
    /\ UNCHANGED timeline

Redone ==
    /\ now < Len(timeline)
    /\ Change(timeline[now + 1])
    /\ now' = now + 1
    /\ UNCHANGED timeline

(* A client puts a whole new model: a full update for the subscribers.     *)
Replaced ==
    /\ Becomes(New, Message("fullUpdate", Changed("object", 0, New)))
    /\ timeline' = Append(SubSeq(timeline, 1, now), New)
    /\ now' = now + 1

----------------------------------------------------------------------------
(* The model objects of the subscribers.                                   *)

Memory == [holds |-> holds, content |-> content]
Held(mem) == { mem.holds[r] : r \in Subscribers }
FreeObject(mem) == CHOOSE o \in Objects : o \notin Held(mem)

(* applyPatch: right on the version the patch is for.                      *)
Applied(patch, c) ==
    CASE IsEmptyPatch(patch) -> c
      [] ~IsEmptyPatch(patch) /\ c = patch.from -> patch.to
      [] OTHER -> Torn

WithNew(mem, r, c) ==
    LET o == FreeObject(mem)
    IN  [holds |-> [mem.holds EXCEPT ![r] = o], content |-> [mem.content EXCEPT ![o] = c]]

(* Mutant: the copy is made, but the given object is patched.              *)
PatchModelInPlace(mem, r, patch, copy) ==
    IF mem.holds[r] = NoObject THEN mem
    ELSE [mem EXCEPT !.content[mem.holds[r]] = Applied(patch, @)]

(* patchModel(model, copy) of a notification or of the result of an edit:  *)
(* r keeps what it returns.                                                *)
PatchModel(mem, r, patch, copy) ==
    LET old == mem.holds[r]
    IN  CASE old = NoObject -> mem
          [] old # NoObject /\ copy -> WithNew(mem, r, Applied(patch, mem.content[old]))
          [] OTHER -> [mem EXCEPT !.content[old] = Applied(patch, @)]

(* Mutant: only the first of the subscribers is told.                      *)
AllPatchFirst(patch, copies) == PatchModel(Memory, 1, patch, 1 \in copies)

(* Every subscriber in turn patches its model, some of them a copy.        *)
AllPatch(patch, copies) ==
    LET After[r \in 0..NumSubscribers] ==
            IF r = 0 THEN Memory ELSE PatchModel(After[r - 1], r, patch, r \in copies)
    IN  After[NumSubscribers]

(* A full update gives all subscribers the same object.                    *)
AllTake(c) ==
    LET o == FreeObject(Memory)
    IN  [holds |-> [r \in Subscribers |-> o], content |-> [content EXCEPT ![o] = c]]

Has(r) == IF holds[r] = NoObject THEN Torn ELSE content[holds[r]]
SharedWith(r) == { t \in Subscribers : holds[t] = holds[r] /\ holds[r] # NoObject }

(* Someone patches the object of r in place before r patches it, or both   *)
(* patch it in place.                                                      *)
PatchedTwice(r, copies) ==
    \E t \in SharedWith(r) \ {r} : t \notin copies /\ (t < r \/ r \notin copies)

----------------------------------------------------------------------------
(* What the subscriber of a socket should have: the content the model had  *)
(* before the changes that are still under way to it.                      *)

Entry == openSockets[SharedUri]
Current == Entry # NoSocket /\ readyState[Entry] = "OPEN"
ChangesIn(messages) ==
    Cardinality({ i \in DOMAIN messages : messages[i].data.from # messages[i].data.to })
Place(s) == Len(history) - ChangesIn(feed[s])
Expected(s) == history[Place(s)]

(* The subscribers keep mem, and those of track are following.  An object  *)
(* gets the number of the first who has it; one that only subscribers have *)
(* who lost track, or nobody, is not recorded.                             *)
Keep(mem, track) ==
    LET Having(r) == { t \in Subscribers : mem.holds[t] = mem.holds[r] /\ mem.holds[r] # NoObject }
        First(r) == CHOOSE t \in Having(r) : \A u \in Having(r) : t <= u
        Recorded(r) == \E t \in Having(r) : track[t] \/ ~Current
    IN  /\ holds' = [r \in Subscribers |-> IF Recorded(r) THEN First(r) ELSE NoObject]
        /\ content' = [o \in Objects |->
                IF o \in Subscribers /\ holds'[o] = o THEN mem.content[mem.holds[o]] ELSE Torn]
        /\ following' = track

Nobody == [r \in Subscribers |-> FALSE]

----------------------------------------------------------------------------
(* The steps of the client and its sockets.                                *)

Quiet == UNCHANGED <<serverVars, feed, replicaVars>>

SubscribeTo(l, strict) == Subscribe(SharedUri, l, strict) /\ Quiet

(* From its open event on the server tells a socket of changes: who has    *)
(* the model of this moment misses none.                                   *)
Opens(s) ==
    /\ OnOpen(s)
    /\ following' = IF s = Entry THEN [r \in Subscribers |-> Has(r) = Model] ELSE following
    /\ UNCHANGED <<serverVars, feed, holds, content, answer>>

Ends(s) ==
    /\ OnError(s) \/ OnConnectError(s) \/ PeerLeaves(s) \/ OnClose(s)
    /\ feed' = IF readyState'[s] = "CLOSED" THEN [feed EXCEPT ![s] = <<>>] ELSE feed
    /\ UNCHANGED <<serverVars, replicaVars>>

(* What the listener of the sockets makes of a message: the frontend's;    *)
(* ListenersAgree compares the one of the client package with it.          *)
Dispatch(m) == ClientV2(m)

ToldUpdate(told) ==
    { told[i] : i \in { j \in DOMAIN told : \/ told[j].event = "IncrementalUpdateV2"
                                            \/ told[j].event = "FullUpdate" /\ IsObject(told[j].data) } }

(* onmessage with the message m, and all that its callbacks do.            *)
Delivered(s, m) ==
    /\ OnMessage(s)
    /\ LET told == ToldUpdate(Dispatch(m))
           data == m.data
           inTurn == Current /\ s = Entry
       IN  \/ /\ told = {}
              /\ Keep(Memory, IF data.from = data.to \/ ~inTurn THEN following ELSE Nobody)
           \/ \E t \in told : t.event = "FullUpdate"
              /\ Keep(AllTake(data.to), [r \in Subscribers |-> inTurn])
           \/ \E t \in told : t.event = "IncrementalUpdateV2"
              /\ \E copies \in SUBSET Subscribers :
                    Keep(AllPatch(data, copies),
                         [r \in Subscribers |->
                            following[r] /\ (IsEmptyPatch(data) \/ (inTurn /\ ~PatchedTwice(r, copies)))])
    /\ UNCHANGED <<serverVars, answer>>

(* The first message under way.                                            *)
Takes(s) ==
    /\ feed[s] # <<>>
    /\ feed' = [feed EXCEPT ![s] = Tail(@)]

Deliver(s) ==
    /\ Takes(s)
    /\ Delivered(s, Head(feed[s]))

(* BOUND: anything else the server sends comes alone, with nothing else    *)
(* under way on its socket.                                                *)
DeliverOther(s) ==
    /\ feed[s] = <<>>
    /\ \E m \in OtherMessages : Delivered(s, m)
    /\ UNCHANGED feed

----------------------------------------------------------------------------
(* The steps of the server, and the requests of subscribers.  The step in  *)
(* which the server handles a request stands for its sending too.          *)

Silent ==
    /\ Handles(<<>>)
    /\ UNCHANGED <<created, readyState, uriOf, listenerOf, openSockets>>

ServerChanges ==
    /\ Edited \/ Undone \/ Redone \/ Replaced
    /\ UNCHANGED replicaVars

(* BOUND: one get at a time, only while the model has an entry, and not by *)
(* a subscriber that needs none.                                           *)
Idle == isSocketOpen(SharedUri) /\ \A r \in Subscribers : answer[r] = NoAnswer

GetAnswered(r) ==
    /\ Idle
    /\ ~following[r]
    /\ answer' = [answer EXCEPT ![r] = Model]
    /\ UNCHANGED <<serverVars, feed, holds, content, following>>

(* A model that was got is the one to go on with if no change passed it:   *)
(* the subscriber cannot see whether one did.                              *)
TakeModel(r) ==
    /\ answer[r] # NoAnswer
    /\ Keep(WithNew(Memory, r, answer[r]),
            [following EXCEPT ![r] = Current /\ answer[r] = Expected(Entry)])
    /\ answer' = [answer EXCEPT ![r] = NoAnswer]
    /\ UNCHANGED <<serverVars, feed>>

(* A subscriber that edits may apply the result of the edit to its model;  *)
(* the notification of the edit comes all the same.  BOUND: the answer is  *)
(* there before the next change.                                           *)
EditApplied(r) ==
    /\ Edited
    /\ \E copy \in BOOLEAN :
            Keep(PatchModel(Memory, r, Changed("patch", Model, New), copy),
                 [t \in Subscribers |-> following[t] /\ t # r /\ (copy \/ t \notin SharedWith(r))])
    /\ UNCHANGED answer

Request ==
    \/ ServerChanges
    \/ \E r \in Requesters : GetAnswered(r) \/ TakeModel(r) \/ EditApplied(r)

NotificationNext ==
    \/ \E l \in Listeners, strict \in Strictness : SubscribeTo(l, strict)
    \/ Unsubscribe(SharedUri) /\ Quiet
    \/ \E s \in Sockets : Opens(s) \/ Ends(s) \/ Deliver(s) \/ DeliverOther(s)
    \/ Request /\ Silent

(* A message under way to a socket that stays open is delivered.  Nothing  *)
(* else is owed by anybody.                                                *)
NotificationSpec ==
    /\ NotificationInit
    /\ [][NotificationNext]_notificationVars
    /\ \A s \in Sockets : WF_feed(Takes(s))

----------------------------------------------------------------------------
(* A subscriber that has the right content when it starts, from a full     *)
(* update, from a get no change overtook, or from before the socket        *)
(* opened, and then only patches what the current socket tells it, keeps   *)
(* exactly the content that the changes under way lead on from: whatever   *)
(* is edited, undone, redone or replaced, and whoever shares its objects.  *)
(* What ends that is: a patch from a socket that was left, the patch of an *)
(* answer besides, an object somebody else patched in place, an update     *)
(* that is not a patch.                                                    *)
FollowsServer ==
    \A r \in Subscribers : following[r] /\ Current => Has(r) = Expected(Entry)

(* Such a subscriber is a Follower, which in the end has the last content. *)
OnTrack(r) == following[r] /\ Current

AsFollower == INSTANCE Follower WITH
    Followers <- Subscribers,
    Contents <- Contents \union {Torn},
    position <- [r \in Subscribers |-> IF OnTrack(r) THEN Place(Entry) ELSE 0],
    seen <- [r \in Subscribers |-> Has(r)]

FollowsHistory == AsFollower!Spec

(* The messages the current socket may be given next.                      *)
Deliverable ==
    CASE ~Current -> {}
      [] Current /\ feed[Entry] = <<>> -> OtherMessages
      [] OTHER -> {Head(feed[Entry])}

(* With the V2 client in the frontend an update reaches the subscribers of *)
(* both APIs or of none, once each, and those of V2 first.                 *)
Events(told) == [i \in DOMAIN told |-> told[i].event]
UpdatesReachBothApis ==
    \A m \in Deliverable : m.type = "incrementalUpdate" /\ IsMessage(m) =>
        Events(ClientV2(m)) \in { <<"IncrementalUpdateV2", "IncrementalUpdate">>, <<"throws">> }

(* The frontend's client and the listener of the client package tell the   *)
(* same of a message, but for the events of V1 that follow those of V2 and *)
(* the full updates that only the frontend passes on as text.              *)
OfV2(told) ==
    IF told # <<>> /\ told[Len(told)].event = "IncrementalUpdate"
    THEN SubSeq(told, 1, Len(told) - 1) ELSE told
ListenersAgree ==
    \A m \in Deliverable :
        OfV2(ClientV2(m)) = ListenerV2(CallbacksV2, m)
            <=> (m.type = "fullUpdate" /\ IsMessage(m) => IsObject(m.data))

(* The guard of a notification recognises what its callback is given.  Not *)
(* so for onUnknown: the types that exist, but that no callback is for,    *)
(* and the inherited names end there, and are not unknown to the guard.    *)
GuardsRecogniseEvents ==
    \A m \in Deliverable :
        LET told == ListenerV2(CallbacksV2, m)
            Neither == {"warning", "open", "close"} \union Inherited
        IN  \A i \in DOMAIN told :
                \/ told[i].event = "throws"
                \/ Recognises(told[i].event, m.type)
                    <=> ~(told[i].event = "Unknown" /\ m.type \in Neither)

(* The menu of the example can print whatever its frontend is told, except *)
(* updates that are no JSON: plain text, and the text of an empty patch.   *)
MenuPrintsAllButText ==
    \A m \in Deliverable :
        LET told == ClientV1(m)
            Plain == m.data.kind \in {"text", "emptyText"}
        IN  (\E i \in DOMAIN told : told[i].event \in MenuEvents /\ PrintNotification(told[i]) = "throws")
                <=> \/ m.type \in {"incrementalUpdate", "fullUpdate"} /\ Plain
                    \/ m.type = "incrementalUpdate" /\ IsEmptyPatch(m.data)
==============================================================================
