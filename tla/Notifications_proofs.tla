------------------------ MODULE Notifications_proofs ------------------------
(***************************************************************************)
(* Proofs about Notifications: what a message becomes on its way to the    *)
(* subscribers, for every message, and that subscribers follow the server, *)
(* for every number of them, of sockets and of changes.                    *)
(***************************************************************************)
EXTENDS Notifications, TheiaBackendV2_proofs, FiniteSetTheorems, SequenceTheorems,
        WellFoundedInduction

----------------------------------------------------------------------------
(* The dispatch of a message, by its type.                                 *)

(* Only names of types and inherited names are anything to the guards.     *)
LEMMA MessageTypeOf ==
    ASSUME NEW type
    PROVE  /\ type \in MessageTypes => AsMessageType(type) = type
           /\ type \in Inherited => AsMessageType(type) = "a function"
           /\ type \notin MessageTypes \union Inherited => AsMessageType(type) = "unknown"
  BY DEF AsMessageType, MessageTypes, Inherited

(* What the V1 client of a frontend tells.                                 *)
LEMMA ClientV1Tells ==
    ASSUME NEW m, IsMessage(m)
    PROVE  LET type == AsMessageType(m.type) IN
           /\ type = "dirtyState" => ClientV1(m) = Tell("DirtyStateChanged", AsBoolean(m.data))
           /\ type \in {"keepAlive", "success"} => ClientV1(m) = Tell("Success", NoData)
           /\ type = "error" => ClientV1(m) = Tell("Error", AsString(m.data))
           /\ type = "incrementalUpdate" =>
                ClientV1(m) = Tell("IncrementalUpdate",
                                   IF IsCommandResult(m.data) THEN m.data ELSE AsString(m.data))
           /\ type = "fullUpdate" =>
                ClientV1(m) = Tell("FullUpdate", IF IsObject(m.data) THEN m.data ELSE AsString(m.data))
           /\ type = "validationResult" =>
                ClientV1(m) = TellIf(IsDiagnostic(m.data), "Validation", m.data)
           /\ type \in {"warning", "open", "close", "unknown", "a function"} =>
                ClientV1(m) = Tell("Unknown", m.data)
<1> DEFINE type == AsMessageType(m.type)
<1>1. type = "dirtyState" => ClientV1(m) = Tell("DirtyStateChanged", AsBoolean(m.data))
  BY DEF ClientV1
<1>2. type \in {"keepAlive", "success"} => ClientV1(m) = Tell("Success", NoData)
  BY DEF ClientV1
<1>3. type = "error" => ClientV1(m) = Tell("Error", AsString(m.data))
  BY DEF ClientV1
<1>4. type = "incrementalUpdate" =>
        ClientV1(m) = Tell("IncrementalUpdate",
                           IF IsCommandResult(m.data) THEN m.data ELSE AsString(m.data))
  BY DEF ClientV1
<1>5. type = "fullUpdate" =>
        ClientV1(m) = Tell("FullUpdate", IF IsObject(m.data) THEN m.data ELSE AsString(m.data))
  BY DEF ClientV1
<1>6. type = "validationResult" =>
        ClientV1(m) = TellIf(IsDiagnostic(m.data), "Validation", m.data)
  BY DEF ClientV1
<1>7. type \in {"warning", "open", "close", "unknown", "a function"} =>
        ClientV1(m) = Tell("Unknown", m.data)
  BY DEF ClientV1
<1> QED BY <1>1, <1>2, <1>3, <1>4, <1>5, <1>6, <1>7

(* The events that the listener of the client package tells otherwise.     *)
LEMMA ListenerV2Tells ==
    ASSUME NEW m, IsMessage(m)
    PROVE  LET type == AsMessageType(m.type)
               told == ListenerV2(CallbacksV2, m)
           IN
           /\ type = "incrementalUpdate" =>
                told = IF IsPatch(m.data) THEN Tell("IncrementalUpdateV2", m.data) ELSE Throws
           /\ type = "fullUpdate" => told = TellIf(IsObject(m.data), "FullUpdate", m.data)
           /\ type \notin {"incrementalUpdate", "fullUpdate"} => told = ClientV1(m)
<1> DEFINE type == AsMessageType(m.type)
           told == ListenerV2(CallbacksV2, m)
<1> USE DEF CallbacksV2, CallbacksV1
<1>1. type = "incrementalUpdate" =>
        told = IF IsPatch(m.data) THEN Tell("IncrementalUpdateV2", m.data) ELSE Throws
  BY DEF ListenerV2
<1>2. type # "incrementalUpdate" => told = ListenerV1(CallbacksV2, m)
  BY DEF ListenerV2
<1>3. type = "fullUpdate" => told = TellIf(IsObject(m.data), "FullUpdate", m.data)
  BY <1>2 DEF ListenerV1
<1>4. ASSUME type \notin {"incrementalUpdate", "fullUpdate"}
      PROVE  told = ClientV1(m)
  <2>1. type \in {"dirtyState", "keepAlive", "success", "error", "validationResult",
                  "warning", "open", "close", "unknown", "a function"}
    BY <1>4, MessageTypeOf DEF MessageTypes
  <2>2. CASE type = "dirtyState"
    BY <1>2, <2>2, ClientV1Tells DEF ListenerV1
  <2>3. CASE type \in {"keepAlive", "success"}
    BY <1>2, <2>3, ClientV1Tells DEF ListenerV1
  <2>4. CASE type = "error"
    BY <1>2, <2>4, ClientV1Tells DEF ListenerV1
  <2>5. CASE type = "validationResult"
    BY <1>2, <2>5, ClientV1Tells DEF ListenerV1
  <2>6. CASE type \in {"warning", "open", "close", "unknown", "a function"}
    BY <1>2, <2>6, ClientV1Tells DEF ListenerV1
  <2> QED BY <2>1, <2>2, <2>3, <2>4, <2>5, <2>6
<1> QED BY <1>1, <1>3, <1>4

(* A message without data is told to nobody.                               *)
LEMMA NothingTold ==
    ASSUME NEW m, ~IsMessage(m)
    PROVE  ClientV1(m) = <<>> /\ ClientV2(m) = <<>> /\ ListenerV2(CallbacksV2, m) = <<>>
  BY DEF ClientV1, ClientV2, ListenerV1, ListenerV2

(* What one event told looks like as a sequence.                           *)
LEMMA Told ==
    ASSUME NEW event, NEW data
    PROVE  /\ Tell(event, data) # <<>> /\ Len(Tell(event, data)) = 1
           /\ DOMAIN Tell(event, data) = 1..1
           /\ Tell(event, data)[1] = [event |-> event, data |-> data]
           /\ Tell(event, data) \in Seq({[event |-> event, data |-> data]})
  BY DEF Tell

(* Whatever is no update becomes one event, of another name.               *)
LEMMA OtherTold ==
    ASSUME NEW m, IsMessage(m), AsMessageType(m.type) \notin {"incrementalUpdate", "fullUpdate"}
    PROVE  \E event, data : /\ event \notin {"IncrementalUpdate", "IncrementalUpdateV2", "FullUpdate"}
                            /\ ClientV1(m) = Tell(event, data)
<1> DEFINE type == AsMessageType(m.type)
<1>1. type \in {"dirtyState", "keepAlive", "success", "error", "validationResult",
                "warning", "open", "close", "unknown", "a function"}
  BY MessageTypeOf DEF MessageTypes
<1>2. CASE type = "dirtyState"
  BY <1>2, ClientV1Tells
<1>3. CASE type \in {"keepAlive", "success"}
  BY <1>3, ClientV1Tells
<1>4. CASE type = "error"
  BY <1>4, ClientV1Tells
<1>5. CASE type = "validationResult"
  BY <1>5, ClientV1Tells DEF TellIf, Throws
<1>6. CASE type \in {"warning", "open", "close", "unknown", "a function"}
  BY <1>6, ClientV1Tells
<1> QED BY <1>1, <1>2, <1>3, <1>4, <1>5, <1>6

(* Two events in a row.                                                    *)
LEMMA OneThenOther ==
    ASSUME NEW a, NEW b
    PROVE  <<a>> \o <<b>> = <<a, b>>
<1>1. <<a>> \in Seq({a, b}) /\ <<b>> \in Seq({a, b}) /\ <<a, b>> \in Seq({a, b})
  OBVIOUS
<1>2. <<a>> \o <<b>> \in Seq({a, b}) /\ Len(<<a>> \o <<b>>) = 2
  BY <1>1
<1>3. (<<a>> \o <<b>>)[1] = a /\ (<<a>> \o <<b>>)[2] = b
  BY <1>1
<1>4. /\ Len(<<a>> \o <<b>>) = Len(<<a, b>>)
      /\ \A i \in 1..Len(<<a>> \o <<b>>) : (<<a>> \o <<b>>)[i] = <<a, b>>[i]
  BY <1>2, <1>3
<1> QED BY <1>1, <1>2, <1>4, SeqEqual, Zenon

(* With the V2 client in the frontend, any update whatever reaches the     *)
(* subscribers of both APIs, those of V2 first, or throws before any.      *)
THEOREM BothApisReached == NotificationSpec => []UpdatesReachBothApis
<1>1. ASSUME NEW m, m.type = "incrementalUpdate", IsMessage(m)
      PROVE  Events(ClientV2(m)) \in { <<"IncrementalUpdateV2", "IncrementalUpdate">>, <<"throws">> }
  <2>1. AsMessageType(m.type) = "incrementalUpdate"
    BY <1>1, MessageTypeOf DEF MessageTypes
  <2>2. CASE IsPatch(m.data)
    <3>1. PICK data : ClientV1(m) = Tell("IncrementalUpdate", data)
      BY <1>1, <2>1, ClientV1Tells
    <3>2. ClientV2(m) = Tell("IncrementalUpdateV2", m.data) \o Tell("IncrementalUpdate", data)
      BY <1>1, <2>1, <2>2, <3>1 DEF ClientV2
    <3>3. Events(ClientV2(m)) = <<"IncrementalUpdateV2", "IncrementalUpdate">>
      BY <3>2 DEF Events, Tell
    <3> QED BY <3>3
  <2>3. CASE ~IsPatch(m.data)
    <3>1. ClientV2(m) = Tell("throws", NoData)
      BY <1>1, <2>1, <2>3 DEF ClientV2, Throws
    <3>2. Events(ClientV2(m)) = <<"throws">>
      BY <3>1 DEF Events, Tell
    <3> QED BY <3>2
  <2> QED BY <2>2, <2>3
<1>2. UpdatesReachBothApis
  BY <1>1 DEF UpdatesReachBothApis
<1> QED BY <1>2, PTL

(* Any message is told alike by the frontend's client and by the listener  *)
(* of the client package, but for full updates that are no objects.        *)
THEOREM SameTold == NotificationSpec => []ListenersAgree
<1> DEFINE Agree(m) ==
        OfV2(ClientV2(m)) = ListenerV2(CallbacksV2, m)
            <=> (m.type = "fullUpdate" /\ IsMessage(m) => IsObject(m.data))
<1>0. ASSUME NEW event, NEW data, event # "IncrementalUpdate"
      PROVE  OfV2(Tell(event, data)) = Tell(event, data)
  BY <1>0 DEF OfV2, Tell
<1>1. ASSUME NEW m, ~IsMessage(m) PROVE Agree(m)
  BY <1>1, NothingTold DEF OfV2
<1>2. ASSUME NEW m, IsMessage(m) PROVE Agree(m)
  <2> DEFINE type == AsMessageType(m.type)
  <2>1. (m.type = "fullUpdate") <=> (type = "fullUpdate")
    BY MessageTypeOf DEF MessageTypes, Inherited
  <2>2. CASE type = "incrementalUpdate"
    <3>1. CASE IsPatch(m.data)
      <4>1. PICK data : ClientV2(m) = Tell("IncrementalUpdateV2", m.data) \o Tell("IncrementalUpdate", data)
        BY <1>2, <2>2, <3>1, ClientV1Tells DEF ClientV2
      <4>2. /\ ClientV2(m) = << [event |-> "IncrementalUpdateV2", data |-> m.data],
                                 [event |-> "IncrementalUpdate", data |-> data] >>
            /\ Tell("IncrementalUpdateV2", m.data) = << [event |-> "IncrementalUpdateV2", data |-> m.data] >>
        BY <4>1, OneThenOther, Zenon DEF Tell
      <4>3. OfV2(ClientV2(m)) = SubSeq(ClientV2(m), 1, 1)
        BY <4>2 DEF OfV2
      <4>4. OfV2(ClientV2(m)) = Tell("IncrementalUpdateV2", m.data)
        BY <4>2, <4>3
      <4> QED BY <1>2, <2>1, <2>2, <3>1, <4>4, ListenerV2Tells
    <3>2. CASE ~IsPatch(m.data)
      <4>1. ClientV2(m) = Tell("throws", NoData)
        BY <1>2, <2>2, <3>2 DEF ClientV2, Throws
      <4>2. OfV2(ClientV2(m)) = Tell("throws", NoData)
        BY <4>1, <1>0
      <4> QED BY <1>2, <2>1, <2>2, <3>2, <4>2, ListenerV2Tells DEF Throws
    <3> QED BY <3>1, <3>2
  <2>3. CASE type = "fullUpdate"
    <3>1. PICK data : /\ ClientV2(m) = Tell("FullUpdate", data)
                      /\ IsObject(m.data) => data = m.data
      BY <1>2, <2>3, ClientV1Tells DEF ClientV2
    <3>2. OfV2(ClientV2(m)) = Tell("FullUpdate", data)
      BY <3>1, <1>0
    <3>3. Tell("FullUpdate", data) # Tell("throws", NoData)
      BY DEF Tell
    <3> QED BY <1>2, <2>1, <2>3, <3>1, <3>2, <3>3, ListenerV2Tells DEF TellIf, Throws
  <2>4. CASE type \notin {"incrementalUpdate", "fullUpdate"}
    <3>1. ClientV2(m) = ClientV1(m)
      BY <2>4 DEF ClientV2
    <3>2. OfV2(ClientV2(m)) = ClientV1(m)
      BY <1>0, <1>2, <2>4, <3>1, OtherTold
    <3> QED BY <1>2, <2>1, <2>4, <3>2, ListenerV2Tells
  <2> QED BY <2>2, <2>3, <2>4
<1>3. ListenersAgree
  BY <1>1, <1>2 DEF ListenersAgree
<1> QED BY <1>3, PTL

(* The guard of a notification recognises any message its callback is for, *)
(* but for those that no other callback is for.                            *)
THEOREM GuardsRecognise == NotificationSpec => []GuardsRecogniseEvents
<1> DEFINE Fine(told, m) ==
        \/ told.event = "throws"
        \/ Recognises(told.event, m.type)
            <=> ~(told.event = "Unknown" /\ m.type \in {"warning", "open", "close"} \union Inherited)
<1>1. ASSUME NEW m, IsMessage(m)
      PROVE  \E event, data : /\ ListenerV2(CallbacksV2, m) = Tell(event, data)
                              /\ Fine([event |-> event, data |-> data], m)
  <2> DEFINE type == AsMessageType(m.type)
  <2>1. \/ type \in MessageTypes \ {"unknown"} /\ m.type = type
        \/ m.type \in Inherited /\ type = "a function"
        \/ m.type \notin MessageTypes \ {"unknown"} /\ m.type \notin Inherited /\ type = "unknown"
    BY MessageTypeOf DEF MessageTypes, Inherited
  <2>2. \A event, data : [event |-> event, data |-> data].event = event
    OBVIOUS
  <2>3. \A event : event # "Unknown" /\ Recognises(event, m.type)
                      => \A data : Fine([event |-> event, data |-> data], m)
    BY <2>2
  <2>4. CASE type \in {"incrementalUpdate", "fullUpdate", "validationResult"}
    <3>1. \E data : \E event \in {"IncrementalUpdateV2", "FullUpdate", "Validation", "throws"} :
             /\ ListenerV2(CallbacksV2, m) = Tell(event, data)
             /\ event = "IncrementalUpdateV2" => type = "incrementalUpdate"
             /\ event = "FullUpdate" => type = "fullUpdate"
             /\ event = "Validation" => type = "validationResult"
      BY <1>1, <2>4, ListenerV2Tells, ClientV1Tells DEF TellIf, Throws
    <3>2. m.type = type
      BY <2>1, <2>4
    <3>3. \A event \in {"IncrementalUpdateV2", "FullUpdate", "Validation"} :
             /\ event = "IncrementalUpdateV2" => type = "incrementalUpdate"
             /\ event = "FullUpdate" => type = "fullUpdate"
             /\ event = "Validation" => type = "validationResult"
             => Recognises(event, m.type)
      BY <3>2 DEF Recognises
    <3> QED BY <3>1, <3>3, <2>2, <2>3
  <2>5. CASE type = "dirtyState"
    <3>1. ListenerV2(CallbacksV2, m) = Tell("DirtyStateChanged", AsBoolean(m.data))
      BY <1>1, <2>5, ListenerV2Tells, ClientV1Tells
    <3>2. Recognises("DirtyStateChanged", m.type)
      BY <2>1, <2>5 DEF Recognises
    <3> QED BY <3>1, <3>2, <2>3
  <2>6. CASE type = "error"
    <3>1. ListenerV2(CallbacksV2, m) = Tell("Error", AsString(m.data))
      BY <1>1, <2>6, ListenerV2Tells, ClientV1Tells
    <3>2. Recognises("Error", m.type)
      BY <2>1, <2>6 DEF Recognises
    <3> QED BY <3>1, <3>2, <2>3
  <2>7. CASE type \in {"keepAlive", "success"}
    <3>1. ListenerV2(CallbacksV2, m) = Tell("Success", NoData)
      BY <1>1, <2>7, ListenerV2Tells, ClientV1Tells
    <3>2. Recognises("Success", m.type)
      BY DEF Recognises
    <3> QED BY <3>1, <3>2, <2>3
  <2>8. CASE type \in {"warning", "open", "close", "unknown", "a function"}
    <3>1. ListenerV2(CallbacksV2, m) = Tell("Unknown", m.data)
      BY <1>1, <2>8, ListenerV2Tells, ClientV1Tells
    <3>2. Recognises("Unknown", m.type) <=> type = "unknown"
      BY DEF Recognises
    <3>3. type = "unknown" <=> ~(m.type \in {"warning", "open", "close"} \union Inherited)
      BY <2>1, <2>8 DEF MessageTypes, Inherited
    <3>4. Fine([event |-> "Unknown", data |-> m.data], m)
      BY <3>2, <3>3
    <3> QED BY <3>1, <3>4
  <2> QED BY <2>1, <2>4, <2>5, <2>6, <2>7, <2>8 DEF MessageTypes
<1>2. ASSUME NEW m, NEW i \in DOMAIN ListenerV2(CallbacksV2, m)
      PROVE  Fine(ListenerV2(CallbacksV2, m)[i], m)
  <2>1. CASE ~IsMessage(m)
    BY <1>2, <2>1, NothingTold
  <2>2. CASE IsMessage(m)
    <3>1. PICK event, data : /\ ListenerV2(CallbacksV2, m) = Tell(event, data)
                             /\ Fine([event |-> event, data |-> data], m)
      BY <1>1, <2>2
    <3>2. ListenerV2(CallbacksV2, m)[i] = [event |-> event, data |-> data]
      BY <1>2, <3>1 DEF Tell
    <3> QED BY <3>1, <3>2
  <2> QED BY <2>1, <2>2
<1>3. GuardsRecogniseEvents
  BY <1>2 DEF GuardsRecogniseEvents
<1> QED BY <1>3, PTL

(* The menu of the example prints whatever it is told of any message, but  *)
(* updates that are text or become one.                                    *)
THEOREM MenuPrints == NotificationSpec => []MenuPrintsAllButText
<1> DEFINE Plain(m) == m.data.kind \in {"text", "emptyText"}
           Text(m) == \/ m.type \in {"incrementalUpdate", "fullUpdate"} /\ Plain(m)
                      \/ m.type = "incrementalUpdate" /\ IsEmptyPatch(m.data)
           Fails(told) == \E i \in DOMAIN told : /\ told[i].event \in MenuEvents
                                                 /\ PrintNotification(told[i]) = "throws"
<1>1. ASSUME NEW event, NEW data
      PROVE  Fails(Tell(event, data)) <=> /\ event \in {"IncrementalUpdate", "FullUpdate"}
                                          /\ data.kind \in {"text", "emptyText"}
  <2>1. Fails(Tell(event, data)) <=> /\ event \in MenuEvents
                                     /\ PrintNotification([event |-> event, data |-> data]) = "throws"
    BY Told DEF Tell
  <2> QED BY <2>1 DEF MenuEvents, PrintNotification
<1>2. ASSUME NEW m, ~IsMessage(m)
      PROVE  Fails(ClientV1(m)) <=> Text(m)
  BY <1>2, NothingTold DEF IsMessage, IsEmptyPatch, IsPatch
<1>3. ASSUME NEW m, IsMessage(m)
      PROVE  Fails(ClientV1(m)) <=> Text(m)
  <2> DEFINE type == AsMessageType(m.type)
  <2>1. /\ (m.type = "fullUpdate") <=> (type = "fullUpdate")
        /\ (m.type = "incrementalUpdate") <=> (type = "incrementalUpdate")
    BY MessageTypeOf DEF MessageTypes, Inherited
  <2>2. AsString(m.data).kind \in {"text", "emptyText"} <=> Plain(m) \/ IsEmptyPatch(m.data)
    BY <1>3 DEF AsString, IsMessage, TextKinds, IsEmptyPatch, IsPatch, Data
  <2>3. CASE type = "incrementalUpdate"
    <3>1. ClientV1(m) = Tell("IncrementalUpdate",
                             IF IsCommandResult(m.data) THEN m.data ELSE AsString(m.data))
      BY <1>3, <2>3, ClientV1Tells
    <3>2. IsCommandResult(m.data) => ~Plain(m) /\ ~IsEmptyPatch(m.data)
      BY DEF IsCommandResult, IsEmptyPatch, IsPatch
    <3> QED BY <1>1, <2>1, <2>2, <2>3, <3>1, <3>2
  <2>4. CASE type = "fullUpdate"
    <3>1. ClientV1(m) = Tell("FullUpdate", IF IsObject(m.data) THEN m.data ELSE AsString(m.data))
      BY <1>3, <2>4, ClientV1Tells
    <3>2. /\ IsObject(m.data) => ~Plain(m)
          /\ ~IsObject(m.data) => ~IsEmptyPatch(m.data)
      BY DEF IsObject, ObjectKinds, IsEmptyPatch, IsPatch
    <3> QED BY <1>1, <2>1, <2>2, <2>4, <3>1, <3>2
  <2>5. CASE type \notin {"incrementalUpdate", "fullUpdate"}
    <3>1. PICK event, data : /\ event \notin {"IncrementalUpdate", "FullUpdate"}
                             /\ ClientV1(m) = Tell(event, data)
      BY <1>3, <2>5, OtherTold
    <3> QED BY <1>1, <2>1, <2>5, <3>1
  <2> QED BY <2>3, <2>4, <2>5
<1>4. MenuPrintsAllButText
  BY <1>2, <1>3 DEF MenuPrintsAllButText
<1> QED BY <1>4, PTL

----------------------------------------------------------------------------
(* The memory of the subscribers.  mem is what they keep in the middle of  *)
(* a step.                                                                 *)
Values == Contents \union {Torn}
Memories == [holds : [Subscribers -> Objects \union {NoObject}], content : [Objects -> Values]]
HasIn(mem, r) == IF mem.holds[r] = NoObject THEN Torn ELSE mem.content[mem.holds[r]]

(* A patch that leaves a content a content.                                *)
Leading(patch) == IsEmptyPatch(patch) \/ patch.to \in Contents

(* A content that is patched is a content, or torn.                        *)
LEMMA AppliedType ==
    ASSUME NEW patch, Leading(patch), NEW c \in Values
    PROVE  Applied(patch, c) \in Values
  BY DEF Applied, Leading, Values

(* There is always an object nobody holds: there is one object more than   *)
(* subscribers.                                                            *)
LEMMA FreeObjectExists ==
    ASSUME NEW mem \in Memories
    PROVE  FreeObject(mem) \in Objects /\ FreeObject(mem) \notin Held(mem)
<1>1. \E o \in Objects : o \notin Held(mem)
  <2> SUFFICES ASSUME \A o \in Objects : o \in Held(mem) PROVE FALSE
    OBVIOUS
  <2> DEFINE f == [o \in Objects |-> CHOOSE r \in Subscribers : mem.holds[r] = o]
  <2>1. \A o \in Objects : f[o] \in Subscribers /\ mem.holds[f[o]] = o
    BY DEF Held
  <2>2. f \in [Objects -> Subscribers]
    BY <2>1
  <2>3. /\ IsFiniteSet(Subscribers) /\ Cardinality(Subscribers) = NumSubscribers
        /\ IsFiniteSet(Objects) /\ Cardinality(Objects) = NumSubscribers + 1
    BY NumSubscribersAssumption, FS_Interval DEF Subscribers, Objects
  <2>4. Cardinality(Subscribers) < Cardinality(Objects)
    BY <2>3, NumSubscribersAssumption
  <2> HIDE DEF f
  <2>5. PICK x, y \in Objects : x # y /\ f[x] = f[y]
    BY <2>2, <2>3, <2>4, FS_PigeonHole
  <2> QED BY <2>1, <2>5
<1> QED BY <1>1 DEF FreeObject

(* A new object is of no consequence to the other subscribers.             *)
LEMMA NewObject ==
    ASSUME NEW mem \in Memories, NEW r \in Subscribers, NEW c \in Values
    PROVE  /\ WithNew(mem, r, c) \in Memories
           /\ HasIn(WithNew(mem, r, c), r) = c
           /\ WithNew(mem, r, c).holds[r] \in Objects \ Held(mem)
           /\ \A t \in Subscribers \ {r} :
                /\ WithNew(mem, r, c).holds[t] = mem.holds[t]
                /\ HasIn(WithNew(mem, r, c), t) = HasIn(mem, t)
<1> DEFINE o == FreeObject(mem)
           new == WithNew(mem, r, c)
<1>1. o \in Objects /\ o \notin Held(mem)
  BY FreeObjectExists
<1>2. /\ new.holds = [mem.holds EXCEPT ![r] = o]
      /\ new.content = [mem.content EXCEPT ![o] = c]
      /\ new = [holds |-> new.holds, content |-> new.content]
  BY DEF WithNew
<1>3. new.holds \in [Subscribers -> Objects \union {NoObject}] /\ new.content \in [Objects -> Values]
  BY <1>1, <1>2 DEF Memories
<1>4. new \in Memories
  BY <1>2, <1>3 DEF Memories
<1>5. o # NoObject
  BY <1>1, NumSubscribersAssumption DEF Objects, NoObject
<1>6. HasIn(new, r) = c /\ new.holds[r] = o
  BY <1>1, <1>2, <1>5 DEF HasIn, Memories
<1>7. ASSUME NEW t \in Subscribers \ {r}
      PROVE  new.holds[t] = mem.holds[t] /\ HasIn(new, t) = HasIn(mem, t)
  <2>1. new.holds[t] = mem.holds[t] /\ mem.holds[t] # o
    BY <1>1, <1>2, <1>7 DEF Memories, Held
  <2> QED BY <1>1, <1>2, <2>1 DEF Memories, HasIn
<1> QED BY <1>1, <1>4, <1>6, <1>7

----------------------------------------------------------------------------
(* patchModel: those who do not hold the object keep what they have, and   *)
(* everybody does if a copy is patched.                                    *)
LEMMA PatchesModel ==
    ASSUME NEW mem \in Memories, NEW r \in Subscribers, NEW patch, Leading(patch), NEW copy \in BOOLEAN,
           NEW new, new = PatchModel(mem, r, patch, copy)
    PROVE  /\ new \in Memories
           /\ mem.holds[r] = NoObject => new = mem
           /\ mem.holds[r] # NoObject =>
                /\ HasIn(new, r) = Applied(patch, HasIn(mem, r))
                /\ copy => new.holds[r] \in Objects \ Held(mem)
                /\ ~copy => new.holds = mem.holds
           /\ \A t \in Subscribers \ {r} :
                /\ new.holds[t] = mem.holds[t]
                /\ copy \/ mem.holds[t] # mem.holds[r] => HasIn(new, t) = HasIn(mem, t)
<1> DEFINE old == mem.holds[r]
<1>1. CASE old = NoObject
  <2>1. new = mem
    BY <1>1 DEF PatchModel
  <2> QED BY <1>1, <2>1
<1>2. CASE old # NoObject /\ copy
  <2>1. new = WithNew(mem, r, Applied(patch, mem.content[old]))
    BY <1>2 DEF PatchModel
  <2>2. old \in Objects /\ HasIn(mem, r) = mem.content[old]
    BY <1>2 DEF Memories, HasIn
  <2>3. Applied(patch, mem.content[old]) \in Values
    BY <2>2, AppliedType DEF Memories
  <2> DEFINE c == Applied(patch, mem.content[old])
  <2>4. c \in Values /\ new = WithNew(mem, r, c) /\ c = Applied(patch, HasIn(mem, r))
    BY <2>1, <2>2, <2>3
  <2> HIDE DEF c
  <2>5. /\ new \in Memories /\ HasIn(new, r) = c /\ new.holds[r] \in Objects \ Held(mem)
        /\ \A t \in Subscribers \ {r} :
            new.holds[t] = mem.holds[t] /\ HasIn(new, t) = HasIn(mem, t)
    BY <2>4, NewObject
  <2> QED BY <1>2, <2>4, <2>5
<1>3. CASE old # NoObject /\ ~copy
  <2>1. new = [mem EXCEPT !.content[old] = Applied(patch, @)]
    BY <1>3 DEF PatchModel
  <2>2. old \in Objects /\ HasIn(mem, r) = mem.content[old]
    BY <1>3 DEF Memories, HasIn
  <2>3. Applied(patch, mem.content[old]) \in Values
    BY <2>2, AppliedType DEF Memories
  <2>4. /\ new.holds = mem.holds
        /\ new.content = [mem.content EXCEPT ![old] = Applied(patch, mem.content[old])]
        /\ new \in Memories
    BY <2>1, <2>2, <2>3 DEF Memories
  <2>5. HasIn(new, r) = Applied(patch, HasIn(mem, r))
    BY <1>3, <2>2, <2>4 DEF HasIn, Memories
  <2>6. ASSUME NEW t \in Subscribers \ {r}, mem.holds[t] # old
        PROVE  HasIn(new, t) = HasIn(mem, t)
    BY <2>2, <2>4, <2>6 DEF HasIn, Memories
  <2> QED BY <1>3, <2>4, <2>5, <2>6
<1> QED BY <1>1, <1>2, <1>3

----------------------------------------------------------------------------
(* A set of natural numbers has a least element.                           *)
LEMMA Least ==
    ASSUME NEW S, S \subseteq Nat, S # {}
    PROVE  \E x \in S : \A y \in S : x <= y
<1>1. PICK x \in S : \A y \in S : ~(<<y, x>> \in OpToRel(<, Nat))
  BY NatLessThanWellFounded, WFMin, Zenon
<1>2. \A y \in S : ~(y < x)
  BY <1>1 DEF OpToRel
<1> QED BY <1>2

----------------------------------------------------------------------------
(* What is kept of the memory.                                             *)
MemoryTypeOK ==
    /\ holds \in [Subscribers -> Objects \union {NoObject}]
    /\ content \in [Objects -> Values]
    /\ following \in [Subscribers -> BOOLEAN]

(* Who is following has what mem gives it.                                 *)
LEMMA Keeps ==
    ASSUME NEW mem \in Memories, NEW track \in [Subscribers -> BOOLEAN], Keep(mem, track)
    PROVE  /\ MemoryTypeOK' /\ following' = track
           /\ \A r \in Subscribers : track[r] => Has(r)' = HasIn(mem, r)
<1> DEFINE Having(r) == { t \in Subscribers : mem.holds[t] = mem.holds[r] /\ mem.holds[r] # NoObject }
           First(r) == CHOOSE t \in Having(r) : \A u \in Having(r) : t <= u
           Recorded(r) == \E t \in Having(r) : track[t] \/ ~Current
<1>1. /\ holds' = [r \in Subscribers |-> IF Recorded(r) THEN First(r) ELSE NoObject]
      /\ content' = [o \in Objects |->
              IF o \in Subscribers /\ holds'[o] = o THEN mem.content[mem.holds[o]] ELSE Torn]
      /\ following' = track
  BY DEF Keep
<1>2. ASSUME NEW r \in Subscribers, Recorded(r)
      PROVE  /\ First(r) \in Subscribers /\ mem.holds[First(r)] = mem.holds[r]
             /\ mem.holds[r] # NoObject
             /\ First(First(r)) = First(r) /\ Recorded(First(r))
  <2>1. Having(r) # {} /\ Having(r) \subseteq Nat
    BY <1>2 DEF Subscribers
  <2>2. \E t \in Having(r) : \A u \in Having(r) : t <= u
    BY <2>1, Least
  <2>3. First(r) \in Having(r)
    BY <2>2
  <2>4. Having(First(r)) = Having(r)
    BY <2>3
  <2> QED BY <1>2, <2>3, <2>4
<1> HIDE DEF Having, First, Recorded
<1>3. Subscribers \subseteq Objects /\ NoObject \notin Objects /\ NoObject \notin Subscribers
  BY NumSubscribersAssumption DEF Subscribers, Objects, NoObject
<1>4. ASSUME NEW r \in Subscribers, Recorded(r)
      PROVE  Has(r)' = mem.content[mem.holds[r]]
  <2>1. holds'[r] = First(r) /\ holds'[First(r)] = First(r) /\ First(r) \in Subscribers
    BY <1>1, <1>2, <1>4
  <2>2. content'[First(r)] = mem.content[mem.holds[First(r)]]
    BY <1>1, <1>3, <2>1
  <2> QED BY <1>2, <1>3, <1>4, <2>1, <2>2 DEF Has
<1>5. ASSUME NEW r \in Subscribers, track[r]
      PROVE  Has(r)' = HasIn(mem, r)
  <2>1. CASE mem.holds[r] = NoObject
    <3>1. ~Recorded(r)
      BY <2>1 DEF Recorded, Having
    <3> QED BY <1>1, <2>1, <3>1 DEF Has, HasIn
  <2>2. CASE mem.holds[r] # NoObject
    <3>1. Recorded(r)
      BY <1>5, <2>2 DEF Recorded, Having
    <3> QED BY <1>4, <2>2, <3>1 DEF HasIn
  <2> QED BY <2>1, <2>2
<1>6. holds' \in [Subscribers -> Objects \union {NoObject}]
  BY <1>1, <1>2, <1>3
<1>7. content' \in [Objects -> Values]
  <2>1. ASSUME NEW o \in Subscribers, holds'[o] = o
        PROVE  mem.content[mem.holds[o]] \in Values
    <3>1. Recorded(o)
      BY <1>1, <1>3, <2>1
    <3>2. mem.holds[o] \in Objects
      BY <1>2, <3>1 DEF Memories
    <3> QED BY <3>2 DEF Memories
  <2>2. Torn \in Values
    BY DEF Values
  <2> QED BY <1>1, <2>1, <2>2
<1> QED BY <1>1, <1>5, <1>6, <1>7 DEF MemoryTypeOK

(* Each of the induction steps on natural numbers below is about a set.    *)
LEMMA SetInduction ==
    ASSUME NEW S, 0 \in S, \A n \in Nat : n \in S => n + 1 \in S
    PROVE  Nat \subseteq S
<1> SUFFICES ASSUME Nat \ S # {} PROVE FALSE
  OBVIOUS
<1>1. PICK n \in Nat \ S : \A k \in Nat \ S : n <= k
  BY Least
<1>2. n # 0 /\ n - 1 \in Nat
  BY <1>1
<1>3. n - 1 \in S
  BY <1>1, <1>2
<1> QED BY <1>1, <1>2, <1>3

(* The first n subscribers patch, one after the other.                     *)
Turn(mem, r, patch, copies) == PatchModel(mem, r, patch, r \in copies)
InTurn(f, n, patch, copies) ==
    f = [r \in 0..n |-> IF r = 0 THEN Memory ELSE Turn(f[r - 1], r, patch, copies)]

(* Such a function exists, so the recursion in AllPatch defines one.       *)
LEMMA TurnsExist ==
    ASSUME NEW patch, NEW copies
    PROVE  \A n \in Nat : \E f : InTurn(f, n, patch, copies)
<1> DEFINE S == { n \in Nat : \E f : InTurn(f, n, patch, copies) }
<1>1. 0 \in S
  <2> DEFINE f == [r \in 0..0 |-> Memory]
  <2>1. f = [r \in 0..0 |-> IF r = 0 THEN Memory ELSE Turn(f[r - 1], r, patch, copies)]
    OBVIOUS
  <2> QED BY <2>1, Zenon DEF InTurn
<1>2. ASSUME NEW n \in Nat, n \in S PROVE n + 1 \in S
  <2>1. PICK f : InTurn(f, n, patch, copies)
    BY <1>2
  <2> DEFINE g == [r \in 0..(n + 1) |-> IF r = n + 1 THEN Turn(f[n], n + 1, patch, copies) ELSE f[r]]
  <2>2. ASSUME NEW r \in 0..(n + 1)
        PROVE  g[r] = IF r = 0 THEN Memory ELSE Turn(g[r - 1], r, patch, copies)
    <3>1. CASE r = n + 1
      <4>1. r - 1 = n /\ n \in 0..(n + 1) /\ n # n + 1 /\ r # 0
        BY <3>1
      <4> QED BY <3>1, <4>1
    <3>2. CASE r # n + 1
      <4>1. r \in 0..n /\ g[r] = f[r]
        BY <3>2
      <4>2. f[r] = IF r = 0 THEN Memory ELSE Turn(f[r - 1], r, patch, copies)
        BY <2>1, <4>1 DEF InTurn
      <4>3. r # 0 => g[r - 1] = f[r - 1]
        BY <4>1
      <4> QED BY <4>1, <4>2, <4>3
    <3> QED BY <3>1, <3>2
  <2>3. g = [r \in 0..(n + 1) |-> g[r]]
    OBVIOUS
  <2> HIDE DEF g
  <2>4. g = [r \in 0..(n + 1) |-> IF r = 0 THEN Memory ELSE Turn(g[r - 1], r, patch, copies)]
    BY <2>2, <2>3
  <2>5. \E h : InTurn(h, n + 1, patch, copies)
    BY <2>4, Zenon DEF InTurn
  <2> QED BY <1>2, <2>5
<1> HIDE DEF S
<1>3. Nat \subseteq S
  BY <1>1, <1>2, SetInduction
<1> QED BY <1>3 DEF S

(* What AllPatch leaves is what the last of them leaves.                   *)
LEMMA AllPatchInTurn ==
    ASSUME NEW patch, NEW copies
    PROVE  \E f : InTurn(f, NumSubscribers, patch, copies)
                  /\ AllPatch(patch, copies) = f[NumSubscribers]
<1> DEFINE f == CHOOSE f : InTurn(f, NumSubscribers, patch, copies)
<1>1. InTurn(f, NumSubscribers, patch, copies)
  BY TurnsExist, NumSubscribersAssumption
<1>2. AllPatch(patch, copies) = f[NumSubscribers]
  BY Zenon DEF AllPatch, InTurn, Turn
<1> QED BY <1>1, <1>2

(* Each subscriber that shares its object with nobody who patches it too,  *)
(* or too early, has the patch applied once.                               *)
Spared(r, patch, copies) == ~PatchedTwice(r, copies) \/ IsEmptyPatch(patch)

(* When k subscribers have patched: those who make no copy still hold what *)
(* they held, the others' copies are their own, and who is spared has what *)
(* it had, patched if it has had its turn.                                 *)
Halfway(mem, k, patch, copies) ==
    /\ mem \in Memories
    /\ \A r \in Subscribers :
        /\ r > k \/ r \notin copies => mem.holds[r] = holds[r]
        /\ mem.holds[r] = NoObject <=> holds[r] = NoObject
        /\ r <= k /\ r \in copies /\ holds[r] # NoObject =>
                \A t \in Subscribers \ {r} : mem.holds[t] # mem.holds[r]
        /\ Spared(r, patch, copies) /\ holds[r] # NoObject =>
                HasIn(mem, r) = IF r <= k THEN Applied(patch, Has(r)) ELSE Has(r)

(* The next subscriber takes its turn.                                     *)
LEMMA OneMorePatches ==
    ASSUME MemoryTypeOK, NEW patch, Leading(patch), NEW copies, NEW k \in Nat, k < NumSubscribers,
           NEW mem, Halfway(mem, k, patch, copies)
    PROVE  Halfway(Turn(mem, k + 1, patch, copies), k + 1, patch, copies)
<1> DEFINE j == k + 1
           new == Turn(mem, j, patch, copies)
<1>1. j \in Subscribers /\ NumSubscribers \in Nat
  BY NumSubscribersAssumption DEF Subscribers
<1>2. mem \in Memories /\ (j \in copies) \in BOOLEAN
  BY DEF Halfway
<1>3. /\ new \in Memories
      /\ mem.holds[j] = NoObject => new = mem
      /\ mem.holds[j] # NoObject =>
           /\ HasIn(new, j) = Applied(patch, HasIn(mem, j))
           /\ j \in copies => new.holds[j] \in Objects \ Held(mem)
           /\ j \notin copies => new.holds = mem.holds
      /\ \A t \in Subscribers \ {j} :
           /\ new.holds[t] = mem.holds[t]
           /\ j \in copies \/ mem.holds[t] # mem.holds[j] => HasIn(new, t) = HasIn(mem, t)
  <2> DEFINE copy == j \in copies
  <2>1. new = PatchModel(mem, j, patch, copy) /\ copy \in BOOLEAN
    BY DEF Turn
  <2> HIDE DEF new, copy, j
  <2>2. /\ new \in Memories
        /\ mem.holds[j] = NoObject => new = mem
        /\ mem.holds[j] # NoObject =>
             /\ HasIn(new, j) = Applied(patch, HasIn(mem, j))
             /\ copy => new.holds[j] \in Objects \ Held(mem)
             /\ ~copy => new.holds = mem.holds
        /\ \A t \in Subscribers \ {j} :
             /\ new.holds[t] = mem.holds[t]
             /\ copy \/ mem.holds[t] # mem.holds[j] => HasIn(new, t) = HasIn(mem, t)
    BY <1>1, <1>2, <2>1, PatchesModel
  <2> QED BY <2>2 DEF copy
<1> HIDE DEF new
<1>4. mem.holds[j] = holds[j]
  BY <1>1 DEF Halfway
<1>5. \A r \in Subscribers : r \in Nat /\ (r # j => (r <= k <=> r <= j) /\ (r > j => r > k))
  BY <1>1 DEF Subscribers
<1>6. ASSUME NEW r \in Subscribers, r > j \/ r \notin copies
      PROVE  new.holds[r] = holds[r]
  <2>1. CASE r = j
    BY <1>1, <1>3, <1>4, <1>6, <2>1
  <2>2. CASE r # j
    BY <1>3, <1>5, <1>6, <2>2 DEF Halfway
  <2> QED BY <2>1, <2>2
<1>7. ASSUME NEW r \in Subscribers
      PROVE  new.holds[r] = NoObject <=> holds[r] = NoObject
  <2>1. NoObject \notin Objects
    BY <1>1 DEF NoObject, Objects
  <2>2. CASE r = j
    BY <1>1, <1>3, <1>4, <2>1, <2>2
  <2>3. CASE r # j
    BY <1>3, <2>3 DEF Halfway
  <2> QED BY <2>2, <2>3
<1>8. ASSUME NEW r \in Subscribers, r <= j, r \in copies, holds[r] # NoObject,
             NEW t \in Subscribers \ {r}
      PROVE  new.holds[t] # new.holds[r]
  <2>1. \A u \in Subscribers : mem.holds[u] \in Held(mem)
    BY DEF Held
  <2>2. CASE r = j
    BY <1>3, <1>4, <1>8, <2>1, <2>2
  <2>3. CASE r # j
    <3>1. mem.holds[t] # mem.holds[r] /\ new.holds[r] = mem.holds[r]
      BY <1>3, <1>5, <1>8, <2>3 DEF Halfway
    <3>2. CASE t # j \/ new.holds = mem.holds \/ new = mem
      BY <1>3, <3>1, <3>2
    <3>3. CASE t = j /\ new.holds[j] \in Objects \ Held(mem)
      BY <2>1, <3>1, <3>3
    <3> QED BY <1>3, <3>2, <3>3
  <2> QED BY <2>2, <2>3
<1>9. ASSUME NEW r \in Subscribers, Spared(r, patch, copies), holds[r] # NoObject
      PROVE  HasIn(new, r) = IF r <= j THEN Applied(patch, Has(r)) ELSE Has(r)
  <2>1. HasIn(mem, r) = IF r <= k THEN Applied(patch, Has(r)) ELSE Has(r)
    BY <1>9 DEF Halfway
  <2>2. CASE r = j
    BY <1>1, <1>3, <1>4, <1>9, <2>1, <2>2
  <2>3. CASE r # j /\ (j \in copies \/ mem.holds[r] # mem.holds[j])
    BY <1>3, <1>5, <2>1, <2>3
  <2>4. CASE r # j /\ j \notin copies /\ mem.holds[r] = mem.holds[j] /\ ~IsEmptyPatch(patch)
    <3>1. r > k \/ r \notin copies
      BY <1>1, <1>5, <1>9, <2>4 DEF Halfway
    <3>2. holds[r] = holds[j]
      BY <1>4, <2>4, <3>1 DEF Halfway
    <3>3. PatchedTwice(r, copies)
      BY <1>1, <1>5, <1>9, <2>4, <3>1, <3>2 DEF PatchedTwice, SharedWith
    <3> QED BY <1>9, <2>4, <3>3 DEF Spared
  <2>5. CASE r # j /\ j \notin copies /\ mem.holds[r] = mem.holds[j] /\ IsEmptyPatch(patch)
    <3>1. HasIn(new, j) = HasIn(mem, j)
      BY <1>3, <2>5 DEF Applied
    <3>2. HasIn(new, r) = HasIn(mem, r)
      BY <1>3, <2>5, <3>1 DEF HasIn
    <3> QED BY <1>5, <2>1, <2>5, <3>2
  <2> QED BY <2>2, <2>3, <2>4, <2>5
<1> QED BY <1>3, <1>6, <1>7, <1>8, <1>9 DEF Halfway, new

(* Who is spared has the patch applied to what it had.                     *)
LEMMA AllPatches ==
    ASSUME MemoryTypeOK, NEW patch, Leading(patch), NEW copies
    PROVE  /\ AllPatch(patch, copies) \in Memories
           /\ \A r \in Subscribers : Spared(r, patch, copies) /\ holds[r] # NoObject =>
                HasIn(AllPatch(patch, copies), r) = Applied(patch, Has(r))
<1>1. PICK f : /\ InTurn(f, NumSubscribers, patch, copies)
               /\ AllPatch(patch, copies) = f[NumSubscribers]
  BY AllPatchInTurn
<1> DEFINE S == { k \in Nat : k <= NumSubscribers => Halfway(f[k], k, patch, copies) }
<1>2. 0 \in S
  <2>1. f[0] = Memory
    BY <1>1, NumSubscribersAssumption DEF InTurn
  <2>2. Halfway(Memory, 0, patch, copies)
    BY DEF Halfway, Memory, Memories, HasIn, Has, MemoryTypeOK, Subscribers
  <2> QED BY <2>1, <2>2
<1>3. ASSUME NEW k \in Nat, k \in S PROVE k + 1 \in S
  <2> SUFFICES ASSUME k + 1 <= NumSubscribers PROVE Halfway(f[k + 1], k + 1, patch, copies)
    OBVIOUS
  <2>1. k < NumSubscribers /\ k + 1 \in 0..NumSubscribers /\ (k + 1) - 1 = k /\ k + 1 # 0
    BY NumSubscribersAssumption
  <2>2. f[k + 1] = Turn(f[k], k + 1, patch, copies)
    BY <1>1, <2>1 DEF InTurn
  <2>3. Halfway(f[k], k, patch, copies)
    BY <1>3, <2>1, NumSubscribersAssumption
  <2> QED BY <2>1, <2>2, <2>3, OneMorePatches
<1> HIDE DEF S
<1>4. NumSubscribers \in S
  BY <1>2, <1>3, SetInduction, NumSubscribersAssumption
<1>5. Halfway(f[NumSubscribers], NumSubscribers, patch, copies)
  BY <1>4, NumSubscribersAssumption DEF S
<1>6. \A r \in Subscribers : r <= NumSubscribers
  BY NumSubscribersAssumption DEF Subscribers
<1> QED BY <1>1, <1>5, <1>6 DEF Halfway

----------------------------------------------------------------------------
(* What a message is to the subscribers.                                   *)
Full(c) == Message("fullUpdate", Changed("object", 0, c))
Sent == { UpdateMessage(a, b) : a, b \in Contents } \union { Full(c) : c \in Contents }

(* A patch is told to the subscribers as a patch, ...                      *)
LEMMA PatchTold ==
    ASSUME NEW m, m.type = "incrementalUpdate", IsPatch(m.data)
    PROVE  ToldUpdate(Dispatch(m)) = {[event |-> "IncrementalUpdateV2", data |-> m.data]}
<1>1. IsMessage(m) /\ AsMessageType(m.type) = "incrementalUpdate"
  BY MessageTypeOf DEF IsMessage, IsPatch, MessageTypes
<1>2. PICK data : ClientV1(m) = Tell("IncrementalUpdate", data)
  BY <1>1, ClientV1Tells
<1>3. ClientV2(m) = Tell("IncrementalUpdateV2", m.data) \o Tell("IncrementalUpdate", data)
  BY <1>1, <1>2 DEF ClientV2
<1> DEFINE a == [event |-> "IncrementalUpdateV2", data |-> m.data]
           b == [event |-> "IncrementalUpdate", data |-> data]
<1>4. Dispatch(m) = <<a, b>>
  BY <1>3, OneThenOther DEF Dispatch, Tell
<1>5. DOMAIN Dispatch(m) = 1..2 /\ Dispatch(m)[1] = a /\ Dispatch(m)[2] = b
  BY <1>4
<1>6. a.event = "IncrementalUpdateV2" /\ b.event = "IncrementalUpdate"
  OBVIOUS
<1> HIDE DEF a, b
<1>7. { j \in DOMAIN Dispatch(m) :
            \/ Dispatch(m)[j].event = "IncrementalUpdateV2"
            \/ Dispatch(m)[j].event = "FullUpdate" /\ IsObject(Dispatch(m)[j].data) } = {1}
  BY <1>5, <1>6
<1>8. ToldUpdate(Dispatch(m)) = {a}
  BY <1>5, <1>7 DEF ToldUpdate
<1> QED BY <1>8 DEF a

(* A single event is of consequence only if it is an update.               *)
LEMMA OneEventTold ==
    ASSUME NEW m, NEW event, NEW data, Dispatch(m) = Tell(event, data)
    PROVE  ToldUpdate(Dispatch(m)) =
                IF event = "IncrementalUpdateV2" \/ (event = "FullUpdate" /\ IsObject(data))
                THEN {[event |-> event, data |-> data]} ELSE {}
<1> DEFINE a == [event |-> event, data |-> data]
<1>1. DOMAIN Dispatch(m) = {1} /\ Dispatch(m)[1] = a
  <2>1. 1..1 = {1}
    OBVIOUS
  <2> QED BY <2>1, Told
<1>2. a.event = event /\ a.data = data
  OBVIOUS
<1> HIDE DEF a
<1>3. ToldUpdate(Dispatch(m)) = IF event = "IncrementalUpdateV2" \/ (event = "FullUpdate" /\ IsObject(data))
                                THEN {a} ELSE {}
  BY <1>1, <1>2 DEF ToldUpdate
<1> QED BY <1>3 DEF a

(* ... and a whole model as a full update.                                 *)
LEMMA FullTold ==
    ASSUME NEW c
    PROVE  ToldUpdate(Dispatch(Full(c))) = {[event |-> "FullUpdate", data |-> Full(c).data]}
<1>1. /\ IsMessage(Full(c)) /\ AsMessageType(Full(c).type) = "fullUpdate"
      /\ IsObject(Full(c).data)
  BY MessageTypeOf DEF Full, Message, Changed, IsMessage, IsObject, ObjectKinds, MessageTypes
<1>2. ClientV1(Full(c)) = Tell("FullUpdate", Full(c).data)
  BY <1>1, ClientV1Tells
<1>3. Dispatch(Full(c)) = Tell("FullUpdate", Full(c).data)
  BY <1>1, <1>2 DEF Dispatch, ClientV2
<1> QED BY <1>1, <1>3, OneEventTold

(* Of the other messages subscribers are told only that nothing changed.   *)
LEMMA OthersTold ==
    ASSUME NEW m \in OtherMessages
    PROVE  \/ ToldUpdate(Dispatch(m)) = {}
           \/ /\ m.type = "incrementalUpdate" /\ IsEmptyPatch(m.data)
              /\ ToldUpdate(Dispatch(m)) = {[event |-> "IncrementalUpdateV2", data |-> m.data]}
<1>1. CASE ~IsMessage(m)
  <2>1. Dispatch(m) = <<>>
    BY <1>1, NothingTold DEF Dispatch
  <2> QED BY <2>1 DEF ToldUpdate
<1>2. CASE IsMessage(m) /\ AsMessageType(m.type) = "incrementalUpdate"
  <2>1. m.type = "incrementalUpdate"
    BY <1>2 DEF AsMessageType
  <2>2. CASE IsPatch(m.data)
    BY <2>1, <2>2, PatchTold, OtherMessagesAssumption DEF IsEmptyPatch
  <2>3. CASE ~IsPatch(m.data)
    <3>1. Dispatch(m) = Tell("throws", NoData)
      BY <1>2, <2>3 DEF Dispatch, ClientV2, Throws
    <3> QED BY <3>1, OneEventTold
  <2> QED BY <2>2, <2>3
<1>3. CASE IsMessage(m) /\ AsMessageType(m.type) = "fullUpdate"
  <2>1. m.type = "fullUpdate"
    BY <1>3 DEF AsMessageType
  <2>2. ~IsObject(m.data) /\ m.data.kind \in DataKinds
    BY <2>1, OtherMessagesAssumption
  <2>3. Dispatch(m) = Tell("FullUpdate", AsString(m.data))
    BY <1>3, <2>2, ClientV1Tells DEF Dispatch, ClientV2
  <2>4. ~IsObject(AsString(m.data))
    <3>1. m.data.kind \in TextKinds \union {"undefined", "boolean"}
      BY <2>2 DEF IsObject, DataKinds
    <3>2. CASE m.data.kind = "boolean"
      <4>1. AsString(m.data) = [m.data EXCEPT !.kind = "jsonText"]
        BY <3>2 DEF AsString, TextKinds, IsEmptyPatch, IsPatch
      <4> QED BY <4>1 DEF IsObject, ObjectKinds
    <3>3. CASE m.data.kind # "boolean"
      <4>1. AsString(m.data) = m.data
        BY <3>1, <3>3 DEF AsString, TextKinds, IsEmptyPatch, IsPatch
      <4> QED BY <2>2, <4>1
    <3> QED BY <3>2, <3>3
  <2> QED BY <2>3, <2>4, OneEventTold
<1>4. CASE IsMessage(m) /\ AsMessageType(m.type) \notin {"incrementalUpdate", "fullUpdate"}
  <2>1. PICK event, data : /\ event \notin {"IncrementalUpdate", "IncrementalUpdateV2", "FullUpdate"}
                           /\ ClientV1(m) = Tell(event, data)
    BY <1>4, OtherTold
  <2>2. Dispatch(m) = Tell(event, data)
    BY <1>4, <2>1 DEF Dispatch, ClientV2
  <2> QED BY <2>1, <2>2, OneEventTold
<1> QED BY <1>1, <1>2, <1>3, <1>4

----------------------------------------------------------------------------
(* What a message does to who is following after it.                       *)
LEMMA MemoryNow ==
    ASSUME MemoryTypeOK
    PROVE  Memory \in Memories /\ \A r : Has(r) = HasIn(Memory, r)
  BY DEF MemoryTypeOK, Memory, Memories, Has, HasIn

(* A patch: who follows after it has followed before, and has it applied.  *)
LEMMA DeliversPatch ==
    ASSUME MemoryTypeOK, NEW s, NEW m, m.type = "incrementalUpdate", IsPatch(m.data),
           Leading(m.data), Delivered(s, m)
    PROVE  /\ MemoryTypeOK'
           /\ \A r \in Subscribers : following'[r] =>
                /\ following[r]
                /\ IsEmptyPatch(m.data) \/ (Current /\ s = Entry)
                /\ Has(r) # Torn => Has(r)' = Applied(m.data, Has(r))
<1> DEFINE data == m.data
           inTurn == Current /\ s = Entry
           Tracks(copies) ==
                [r \in Subscribers |->
                    following[r] /\ (IsEmptyPatch(data) \/ (inTurn /\ ~PatchedTwice(r, copies)))]
<1>1. ToldUpdate(Dispatch(m)) = {[event |-> "IncrementalUpdateV2", data |-> m.data]}
  BY PatchTold
<1>2. /\ ToldUpdate(Dispatch(m)) # {}
      /\ ~\E t \in ToldUpdate(Dispatch(m)) : t.event = "FullUpdate"
  BY <1>1
<1>3. PICK copies \in SUBSET Subscribers : Keep(AllPatch(data, copies), Tracks(copies))
  BY <1>2 DEF Delivered
<1>4. Tracks(copies) \in [Subscribers -> BOOLEAN]
  OBVIOUS
<1>5. /\ AllPatch(data, copies) \in Memories
      /\ \A r \in Subscribers : Spared(r, data, copies) /\ holds[r] # NoObject =>
            HasIn(AllPatch(data, copies), r) = Applied(data, Has(r))
  BY AllPatches
<1>6. /\ MemoryTypeOK' /\ following' = Tracks(copies)
      /\ \A r \in Subscribers : Tracks(copies)[r] => Has(r)' = HasIn(AllPatch(data, copies), r)
  <2> HIDE DEF Tracks
  <2> QED BY <1>3, <1>4, <1>5, Keeps
<1>7. ASSUME NEW r \in Subscribers, following'[r]
      PROVE  /\ following[r] /\ (IsEmptyPatch(data) \/ inTurn)
             /\ Has(r) # Torn => Has(r)' = Applied(data, Has(r))
  <2>1. Tracks(copies)[r]
    BY <1>6, <1>7
  <2>2. following[r] /\ (IsEmptyPatch(data) \/ inTurn) /\ Spared(r, data, copies)
    BY <2>1 DEF Spared
  <2>3. Has(r) # Torn => holds[r] # NoObject
    BY DEF Has
  <2> QED BY <1>5, <1>6, <2>1, <2>2, <2>3
<1> QED BY <1>6, <1>7

(* A full update: on the current socket everybody follows.                 *)
LEMMA DeliversFull ==
    ASSUME MemoryTypeOK, NEW s, NEW c \in Contents, Delivered(s, Full(c))
    PROVE  /\ MemoryTypeOK'
           /\ \A r \in Subscribers : following'[r] => Current /\ s = Entry /\ Has(r)' = c
<1> DEFINE o == FreeObject(Memory)
           track == [r \in Subscribers |-> Current /\ s = Entry]
<1>1. ToldUpdate(Dispatch(Full(c))) = {[event |-> "FullUpdate", data |-> Full(c).data]}
  BY FullTold
<1>2. /\ ToldUpdate(Dispatch(Full(c))) # {}
      /\ ~\E t \in ToldUpdate(Dispatch(Full(c))) : t.event = "IncrementalUpdateV2"
  BY <1>1
<1>3. Full(c).data.to = c
  BY DEF Full, Message, Changed
<1>4. Keep(AllTake(c), track)
  BY <1>2, <1>3 DEF Delivered
<1>5. o \in Objects
  BY MemoryNow, FreeObjectExists
<1>6. /\ AllTake(c) \in Memories
      /\ \A r \in Subscribers : HasIn(AllTake(c), r) = c
  <2>1. /\ AllTake(c).holds = [r \in Subscribers |-> o]
        /\ AllTake(c).content = [content EXCEPT ![o] = c]
        /\ AllTake(c) = [holds |-> AllTake(c).holds, content |-> AllTake(c).content]
    BY DEF AllTake
  <2>2. c \in Values /\ o # NoObject
    BY <1>5, NumSubscribersAssumption DEF Values, Objects, NoObject
  <2> HIDE DEF o
  <2> QED BY <1>5, <2>1, <2>2 DEF Memories, HasIn, MemoryTypeOK
<1>7. track \in [Subscribers -> BOOLEAN]
  OBVIOUS
<1>8. /\ MemoryTypeOK' /\ following' = track
      /\ \A r \in Subscribers : track[r] => Has(r)' = HasIn(AllTake(c), r)
  <2> HIDE DEF track
  <2> QED BY <1>4, <1>6, <1>7, Keeps
<1> QED BY <1>6, <1>8

(* Any other message: nobody that follows has anything else.               *)
LEMMA DeliversOther ==
    ASSUME MemoryTypeOK, NEW s, NEW m \in OtherMessages, Delivered(s, m)
    PROVE  /\ MemoryTypeOK'
           /\ \A r \in Subscribers : following'[r] =>
                following[r] /\ (Has(r) # Torn => Has(r)' = Has(r))
<1>1. CASE ToldUpdate(Dispatch(m)) = {}
  <2>1. m.data.from = m.data.to
    BY OtherMessagesAssumption
  <2>2. Keep(Memory, following)
    BY <1>1, <2>1 DEF Delivered
  <2>3. /\ MemoryTypeOK' /\ following' = following
        /\ \A r \in Subscribers : following[r] => Has(r)' = HasIn(Memory, r)
    BY <2>2, MemoryNow, Keeps DEF MemoryTypeOK
  <2> QED BY <2>3, MemoryNow
<1>2. CASE IsEmptyPatch(m.data) /\ ToldUpdate(Dispatch(m)) # {}
  <2>1. IsPatch(m.data) /\ Leading(m.data)
    BY <1>2 DEF IsEmptyPatch, Leading
  <2>2. m.type = "incrementalUpdate"
    BY <1>2, OthersTold
  <2>3. \A c : Applied(m.data, c) = c
    BY <1>2 DEF Applied
  <2> QED BY <2>1, <2>2, <2>3, DeliversPatch
<1> QED BY <1>1, <1>2, OthersTold

----------------------------------------------------------------------------
(* The server.  It never comes to the content it has: what is to be undone *)
(* or redone occurs once in the timeline.                                  *)
ServerInv ==
    /\ history \in Seq(Contents) /\ Len(history) \in 1..(MaxChanges + 1)
    /\ timeline \in Seq(Contents) /\ now \in DOMAIN timeline
    /\ timeline[now] = Model
    /\ \A i \in DOMAIN timeline : timeline[i] < New
    /\ \A i, j \in DOMAIN timeline : timeline[i] = timeline[j] => i = j

(* m leads from the content a to another one, b.                           *)
Leads(m, a, b) == a # b /\ m \in {UpdateMessage(a, b), Full(b)}

(* An edit or a replacement comes to a content the model never had, ...    *)
LEMMA BecomesNew ==
    ASSUME ServerInv, Len(history) <= MaxChanges, history' = Append(history, New),
           timeline' = Append(SubSeq(timeline, 1, now), New), now' = now + 1
    PROVE  ServerInv' /\ New \in Contents /\ New # Model
<1> USE MaxChangesAssumption DEF ServerInv
<1>1. /\ now \in 1..Len(timeline) /\ Len(timeline) \in Nat /\ Len(history) \in Nat
      /\ New \in Contents /\ New # Model
  <2>1. Len(history) \in Nat /\ New \in Contents
    BY DEF New, Contents
  <2>2. Len(timeline) \in Nat /\ now \in 1..Len(timeline)
    OBVIOUS
  <2>3. timeline[now] \in Nat /\ timeline[now] < New
    BY DEF Contents
  <2> QED BY <2>1, <2>2, <2>3
<1>2. /\ history' \in Seq(Contents) /\ Len(history') = Len(history) + 1 /\ Model' = New
      /\ New' = New + 1
  BY <1>1 DEF Model, New
<1> DEFINE before == SubSeq(timeline, 1, now)
<1>3. /\ before \in Seq(Contents) /\ Len(before) = now
      /\ \A i \in 1..now : before[i] = timeline[i]
  <2>1. \A i \in 1..now : timeline[i] \in Contents
    BY <1>1
  <2> QED BY <1>1, <2>1, SubSeqProperties
<1> HIDE DEF before
<1>4. /\ timeline' \in Seq(Contents) /\ Len(timeline') = now + 1
      /\ \A i \in 1..now : timeline'[i] = timeline[i]
      /\ timeline'[now + 1] = New
  BY <1>1, <1>3 DEF before
<1>5. DOMAIN timeline' = 1..(now + 1) /\ DOMAIN timeline = 1..Len(timeline)
  BY <1>4
<1>6. \A i \in DOMAIN timeline' : i # now + 1 => i \in 1..now /\ i \in DOMAIN timeline
  BY <1>1, <1>5
<1>7. now' \in DOMAIN timeline' /\ timeline'[now'] = Model'
  BY <1>1, <1>2, <1>4, <1>5
<1>8. /\ \A i \in DOMAIN timeline : timeline[i] \in Nat /\ timeline[i] < New
      /\ New \in Nat
  <2>1. Contents \subseteq Nat
    BY DEF Contents
  <2>2. \A i \in DOMAIN timeline : timeline[i] \in Contents /\ timeline[i] < New
    OBVIOUS
  <2> QED BY <1>1, <2>1, <2>2
<1>9. \A i \in DOMAIN timeline' : i # now + 1 =>
        i \in DOMAIN timeline /\ timeline'[i] = timeline[i] /\ timeline'[i] # New
  BY <1>4, <1>6, <1>8
<1>10. \A i \in DOMAIN timeline' : timeline'[i] < New'
  <2> HIDE DEF ServerInv
  <2> QED BY <1>2, <1>4, <1>8, <1>9
<1>11. \A i, j \in DOMAIN timeline' : timeline'[i] = timeline'[j] => i = j
  BY <1>4, <1>9
<1> QED BY <1>1, <1>2, <1>4, <1>7, <1>10, <1>11

(* ... undo and redo to another one of the timeline.                       *)
LEMMA BecomesAgain ==
    ASSUME ServerInv, Len(history) <= MaxChanges, UNCHANGED timeline,
           now' \in DOMAIN timeline, now' # now, history' = Append(history, timeline[now'])
    PROVE  ServerInv' /\ timeline[now'] \in Contents /\ timeline[now'] # Model
<1> USE MaxChangesAssumption DEF ServerInv
<1>1. timeline[now'] \in Contents /\ timeline[now'] # Model
  OBVIOUS
<1>2. /\ history' \in Seq(Contents) /\ Len(history') = Len(history) + 1
      /\ Model' = timeline[now'] /\ New' = New + 1
  BY <1>1 DEF Model, New
<1>3. \A i \in DOMAIN timeline : timeline[i] < New'
  BY <1>2 DEF New, Contents
<1> QED BY <1>1, <1>2, <1>3

(* So each change is sent as a message that leads from the content to      *)
(* another.                                                                *)
LEMMA ServerStep ==
    ASSUME ServerInv, Edited \/ Undone \/ Redone \/ Replaced
    PROVE  /\ ServerInv'
           /\ \E c \in Contents, m \in Sent : Becomes(c, m) /\ Leads(m, Model, c)
<1>1. Model \in Contents
  BY DEF ServerInv, Model
<1>2. ASSUME Edited \/ Undone \/ Redone, NEW c \in Contents, Change(c), c # Model
      PROVE  \E d \in Contents, m \in Sent : Becomes(d, m) /\ Leads(m, Model, d)
  BY <1>1, <1>2 DEF Change, Leads, Sent
<1>3. CASE Edited
  BY <1>2, <1>3, BecomesNew DEF Edited, Change, Becomes
<1>4. CASE Replaced
  <2>1. ServerInv' /\ New \in Contents /\ New # Model
    BY <1>4, BecomesNew DEF Replaced, Becomes
  <2>2. Becomes(New, Full(New)) /\ Full(New) \in Sent /\ Leads(Full(New), Model, New)
    BY <1>4, <2>1 DEF Replaced, Full, Sent, Leads
  <2> QED BY <2>1, <2>2
<1>5. CASE Undone
  <2>1. now \in 1..Len(timeline) /\ Len(timeline) \in Nat /\ DOMAIN timeline = 1..Len(timeline)
    BY DEF ServerInv
  <2>2. now' \in DOMAIN timeline /\ now' # now /\ Change(timeline[now']) /\ UNCHANGED timeline
    BY <1>5, <2>1 DEF Undone
  <2>3. ServerInv' /\ timeline[now'] \in Contents /\ timeline[now'] # Model
    BY <2>2, BecomesAgain DEF Change, Becomes
  <2> QED BY <1>1, <2>2, <2>3 DEF Change, Leads, Sent
<1>6. CASE Redone
  <2>1. now \in 1..Len(timeline) /\ Len(timeline) \in Nat /\ DOMAIN timeline = 1..Len(timeline)
    BY DEF ServerInv
  <2>2. now' \in DOMAIN timeline /\ now' # now /\ Change(timeline[now']) /\ UNCHANGED timeline
    BY <1>6, <2>1 DEF Redone
  <2>3. ServerInv' /\ timeline[now'] \in Contents /\ timeline[now'] # Model
    BY <2>2, BecomesAgain DEF Change, Becomes
  <2> QED BY <1>1, <2>2, <2>3 DEF Change, Leads, Sent
<1> QED BY <1>3, <1>4, <1>5, <1>6

----------------------------------------------------------------------------
(* The messages under way.  Those to an open socket are a chain: each      *)
(* leads from where the one before leads to, and the last to the model.    *)
Chained(h, q) ==
    /\ Len(q) < Len(h)
    /\ \A i \in 1..Len(q) : Leads(q[i], h[Len(h) - Len(q) + i - 1], h[Len(h) - Len(q) + i])

FeedInv ==
    /\ feed \in [Sockets -> Seq(Sent)]
    /\ \A s \in Sockets :
        /\ readyState[s] \in {"NEW", "CONNECTING"} => feed[s] = <<>>
        /\ readyState[s] = "OPEN" => Chained(history, feed[s])

(* A change lengthens the history and the chain alike.                     *)
LEMMA ChainGrows ==
    ASSUME NEW h \in Seq(Contents), h # <<>>, NEW q \in Seq(Sent), Chained(h, q),
           NEW c \in Contents, NEW m \in Sent, Leads(m, h[Len(h)], c)
    PROVE  Chained(Append(h, c), Append(q, m))
<1> DEFINE g == Append(h, c)
           p == Append(q, m)
<1>1. /\ Len(h) \in Nat \ {0} /\ Len(q) \in Nat
      /\ Len(g) = Len(h) + 1 /\ Len(p) = Len(q) + 1
      /\ \A i \in 1..Len(h) : g[i] = h[i]
      /\ \A i \in 1..Len(q) : p[i] = q[i]
      /\ g[Len(h) + 1] = c /\ p[Len(q) + 1] = m
  OBVIOUS
<1> HIDE DEF g, p
<1>2. Len(q) < Len(h)
  BY DEF Chained
<1>3. ASSUME NEW i \in 1..Len(p)
      PROVE  Leads(p[i], g[Len(g) - Len(p) + i - 1], g[Len(g) - Len(p) + i])
  <2>1. Len(g) - Len(p) = Len(h) - Len(q)
    BY <1>1
  <2>2. CASE i = Len(q) + 1
    <3>1. Len(h) - Len(q) + i - 1 = Len(h) /\ Len(h) - Len(q) + i = Len(h) + 1
      BY <1>1, <2>2
    <3> QED BY <1>1, <2>1, <2>2, <3>1
  <2>3. CASE i # Len(q) + 1
    <3>1. i \in 1..Len(q)
      BY <1>1, <1>3, <2>3
    <3>2. Len(h) - Len(q) + i - 1 \in 1..Len(h) /\ Len(h) - Len(q) + i \in 1..Len(h)
      BY <1>1, <1>2, <3>1
    <3>3. Leads(q[i], h[Len(h) - Len(q) + i - 1], h[Len(h) - Len(q) + i])
      BY <3>1 DEF Chained
    <3> QED BY <1>1, <2>1, <3>1, <3>2, <3>3
  <2> QED BY <2>2, <2>3
<1>4. Len(p) < Len(g)
  BY <1>1, <1>2
<1>5. Chained(g, p)
  BY <1>3, <1>4 DEF Chained
<1> QED BY <1>5 DEF g, p

(* The first message leads from the place of the chain to the next one.    *)
LEMMA ChainShrinks ==
    ASSUME NEW h \in Seq(Contents), NEW q \in Seq(Sent), q # <<>>, Chained(h, q)
    PROVE  /\ Chained(h, Tail(q))
           /\ Leads(Head(q), h[Len(h) - Len(q)], h[Len(h) - Len(q) + 1])
<1>1. /\ Len(q) \in Nat \ {0} /\ Len(h) \in Nat /\ Len(Tail(q)) = Len(q) - 1
      /\ \A i \in 1..Len(Tail(q)) : Tail(q)[i] = q[i + 1]
      /\ Head(q) = q[1]
  BY HeadTailProperties, EmptySeq
<1>2. Leads(Head(q), h[Len(h) - Len(q)], h[Len(h) - Len(q) + 1])
  <2>1. Len(h) - Len(q) + 1 - 1 = Len(h) - Len(q)
    BY <1>1
  <2>2. Leads(q[1], h[Len(h) - Len(q) + 1 - 1], h[Len(h) - Len(q) + 1])
    BY <1>1 DEF Chained
  <2> QED BY <1>1, <2>1, <2>2
<1>3. ASSUME NEW i \in 1..Len(Tail(q))
      PROVE  Leads(Tail(q)[i], h[Len(h) - Len(Tail(q)) + i - 1], h[Len(h) - Len(Tail(q)) + i])
  <2>1. i + 1 \in 1..Len(q)
    BY <1>1
  <2>2. /\ Len(h) - Len(Tail(q)) + i - 1 = Len(h) - Len(q) + (i + 1) - 1
        /\ Len(h) - Len(Tail(q)) + i = Len(h) - Len(q) + (i + 1)
    BY <1>1
  <2>3. Leads(q[i + 1], h[Len(h) - Len(q) + (i + 1) - 1], h[Len(h) - Len(q) + (i + 1)])
    BY <2>1 DEF Chained
  <2> QED BY <1>1, <2>2, <2>3
<1>4. Len(Tail(q)) < Len(h)
  BY <1>1 DEF Chained
<1> QED BY <1>2, <1>3, <1>4 DEF Chained

(* So all of them count as changes.                                        *)
LEMMA ChainChanges ==
    ASSUME NEW h \in Seq(Contents), NEW q \in Seq(Sent), Chained(h, q)
    PROVE  ChangesIn(q) = Len(q)
<1>1. Len(q) \in Nat /\ DOMAIN q = 1..Len(q) /\ Len(h) \in Nat /\ Len(q) < Len(h)
  BY DEF Chained
<1>2. ASSUME NEW i \in 1..Len(q) PROVE q[i].data.from # q[i].data.to
  <2> DEFINE a == h[Len(h) - Len(q) + i - 1]
             b == h[Len(h) - Len(q) + i]
  <2>1. b \in Contents
    <3>1. Len(h) - Len(q) + i \in 1..Len(h)
      BY <1>1
    <3> QED BY <3>1
  <2>2. b # 0
    BY <2>1, MaxChangesAssumption DEF Contents
  <2>3. a # b /\ q[i] \in {UpdateMessage(a, b), Full(b)}
    BY DEF Chained, Leads
  <2> HIDE DEF a, b
  <2> QED BY <2>2, <2>3 DEF UpdateMessage, Full, Message, Changed
<1>3. { i \in DOMAIN q : q[i].data.from # q[i].data.to } = 1..Len(q)
  BY <1>1, <1>2
<1>4. Cardinality(1..Len(q)) = Len(q)
  <2>1. 1 \in Int /\ Len(q) \in Int /\ (IF 1 > Len(q) THEN 0 ELSE Len(q) - 1 + 1) = Len(q)
    BY <1>1
  <2>2. Cardinality(1..Len(q)) = IF 1 > Len(q) THEN 0 ELSE Len(q) - 1 + 1
    BY <2>1, FS_Interval
  <2> QED BY <2>1, <2>2
<1> QED BY <1>3, <1>4 DEF ChangesIn

----------------------------------------------------------------------------
(* The inductive invariant: what the open sockets still have to deliver    *)
(* leads from the content a follower has to the model.                     *)
AnswersTyped == answer \in [Subscribers -> Contents \union {NoAnswer}]

NotificationInv ==
    RegistryInv /\ ServerInv /\ FeedInv /\ MemoryTypeOK /\ AnswersTyped /\ FollowsServer

(* What each step is shown to do: besides, nobody goes back.               *)
Lengthens == history' = history \/ \E c \in Contents : history' = Append(history, c)
NoWayBack == Current /\ Current' => Entry' = Entry /\ Place(Entry)' >= Place(Entry)
StepOK == ServerInv' /\ FeedInv' /\ MemoryTypeOK' /\ AnswersTyped' /\ FollowsServer'
          /\ Lengthens /\ NoWayBack

(* The place of a chain is a place in the history, with a content.         *)
LEMMA ChainPlace ==
    ASSUME NEW h \in Seq(Contents), NEW q \in Seq(Sent), Chained(h, q)
    PROVE  /\ Len(h) - ChangesIn(q) = Len(h) - Len(q) /\ Len(h) - Len(q) \in 1..Len(h)
           /\ h[Len(h) - Len(q)] \in Contents /\ h[Len(h) - Len(q)] # Torn
<1>1. ChangesIn(q) = Len(q)
  BY ChainChanges
<1>2. Len(q) \in Nat /\ Len(h) \in Nat /\ Len(q) < Len(h)
  BY DEF Chained
<1>3. Len(h) - Len(q) \in 1..Len(h)
  BY <1>2
<1>4. h[Len(h) - Len(q)] \in Contents
  BY <1>3
<1>5. Torn \notin Contents
  BY DEF Torn, Contents
<1> QED BY <1>1, <1>3, <1>4, <1>5

(* The current socket.                                                     *)
LEMMA CurrentPlace ==
    ASSUME NotificationInv, Current
    PROVE  /\ Entry \in Sockets /\ readyState[Entry] = "OPEN" /\ Chained(history, feed[Entry])
           /\ feed[Entry] \in Seq(Sent)
           /\ Place(Entry) = Len(history) - Len(feed[Entry]) /\ Place(Entry) \in 1..Len(history)
           /\ Expected(Entry) = history[Place(Entry)] /\ Expected(Entry) # Torn
           /\ \A r \in Subscribers : following[r] => Has(r) = Expected(Entry)
<1>1. Entry \in Sockets /\ readyState[Entry] = "OPEN"
  BY SharedUriAssumption DEF NotificationInv, RegistryInv, EntryInv, TypeOK, Current, Entry
<1>2. Chained(history, feed[Entry]) /\ feed[Entry] \in Seq(Sent) /\ history \in Seq(Contents)
  BY <1>1 DEF NotificationInv, FeedInv, ServerInv
<1> QED BY <1>1, <1>2, ChainPlace DEF Place, Expected, NotificationInv, FollowsServer

----------------------------------------------------------------------------
(* Steps of the sockets that deliver nothing and open none.                *)
LEMMA SocketsFade ==
    ASSUME NotificationInv, UNCHANGED <<serverVars, replicaVars>>, feed' \in [Sockets -> Seq(Sent)],
           \A s \in Sockets :
                /\ readyState'[s] \in {"NEW", "CONNECTING"} =>
                        readyState[s] \in {"NEW", "CONNECTING"} /\ feed'[s] = feed[s]
                /\ readyState'[s] = "OPEN" => readyState[s] = "OPEN" /\ feed'[s] = feed[s],
           Current' => Current /\ Entry' = Entry
    PROVE  StepOK
<1>1. UNCHANGED <<history, timeline, now, holds, content, answer, following>>
  BY DEF serverVars, replicaVars
<1>2. ServerInv' /\ MemoryTypeOK' /\ AnswersTyped' /\ Lengthens
  BY <1>1 DEF NotificationInv, ServerInv, Model, New, MemoryTypeOK, AnswersTyped, Lengthens
<1>3. FeedInv'
  BY <1>1 DEF NotificationInv, FeedInv
<1>4. ASSUME Current'
      PROVE  Current /\ Entry' = Entry /\ feed'[Entry] = feed[Entry]
  <2>1. Current /\ Entry' = Entry /\ readyState'[Entry'] = "OPEN"
    BY <1>4 DEF Current
  <2> QED BY <2>1, CurrentPlace
<1>5. FollowsServer' /\ NoWayBack
  <2>1. ASSUME Current'
        PROVE  Entry' = Entry /\ Place(Entry)' = Place(Entry) /\ Expected(Entry)' = Expected(Entry)
               /\ Place(Entry) \in Nat
    BY <1>1, <1>4, <2>1, CurrentPlace DEF Place, Expected
  <2>2. FollowsServer'
    <3> SUFFICES ASSUME NEW r \in Subscribers, following'[r], Current'
                 PROVE  Has(r)' = Expected(Entry)'
      BY DEF FollowsServer
    <3>1. Has(r)' = Has(r)
      BY <1>1 DEF Has
    <3> QED BY <1>1, <1>4, <2>1, <3>1, CurrentPlace
  <2> QED BY <2>1, <2>2 DEF NoWayBack
<1> QED BY <1>2, <1>3, <1>5 DEF StepOK

(* subscribe: the entry is kept or is a socket that is not open.           *)
LEMMA SubscribeKeeps ==
    ASSUME NotificationInv, NEW l \in Listeners, NEW strict \in Strictness, SubscribeTo(l, strict)
    PROVE  StepOK
<1> USE DEF NotificationInv, RegistryInv, EntryInv, TypeOK, SocketTypeOK
<1>1. UNCHANGED <<serverVars, replicaVars, feed>> /\ feed' \in [Sockets -> Seq(Sent)]
  BY DEF SubscribeTo, Quiet, FeedInv
<1>2. CASE UNCHANGED <<readyState, openSockets>>
  <2>1. Current' = Current /\ Entry' = Entry
    BY <1>2 DEF Current, Entry
  <2> HIDE DEF NotificationInv
  <2> QED BY <1>1, <1>2, <2>1, SocketsFade
<1>3. CASE DoSubscribe(SharedUri, l)
  <2>1. NextSocket \in Sockets /\ readyState[NextSocket] = "NEW"
    BY <1>3, MaxSocketsAssumption DEF DoSubscribe, Construct, NextSocket, Sockets, Numbered
  <2>2. \A s \in Sockets : readyState'[s] = IF s = NextSocket THEN "CONNECTING" ELSE readyState[s]
    BY <1>3, <2>1 DEF DoSubscribe, Construct
  <2>3. ~Current'
    BY <1>3, <2>1, <2>2, SharedUriAssumption DEF DoSubscribe, Current, Entry
  <2> HIDE DEF NotificationInv
  <2> QED BY <1>1, <2>1, <2>2, <2>3, SocketsFade
<1> QED BY <1>2, <1>3 DEF SubscribeTo, Subscribe, OpenOrRefuse

(* unsubscribe: no open socket is current.                                 *)
LEMMA UnsubscribeKeeps ==
    ASSUME NotificationInv, Unsubscribe(SharedUri), Quiet
    PROVE  StepOK
<1>1. UNCHANGED <<serverVars, replicaVars, feed>> /\ feed' \in [Sockets -> Seq(Sent)]
  BY DEF Quiet, NotificationInv, FeedInv
<1>2. \A s \in Sockets : readyState'[s] \in {readyState[s], "CLOSING", "ABORTING"}
  BY DEF Unsubscribe, CloseEntry, CloseAll, AfterClose
<1>3. Entry' = NoSocket
  BY SharedUriAssumption
     DEF Unsubscribe, CloseEntry, Entry, NotificationInv, RegistryInv, EntryInv, TypeOK
<1>4. ~Current'
  BY <1>3 DEF Current
<1>5. \A s \in Sockets : readyState'[s] \in {"NEW", "CONNECTING", "OPEN"} => readyState'[s] = readyState[s]
  BY <1>2
<1> QED BY <1>1, <1>4, <1>5, SocketsFade

(* A socket that ends loses what was under way on it.                      *)
LEMMA EndsKeeps ==
    ASSUME NotificationInv, NEW s \in Sockets, Ends(s)
    PROVE  StepOK
<1> USE DEF NotificationInv, RegistryInv, EntryInv, TypeOK, SocketTypeOK
<1>1. /\ UNCHANGED <<serverVars, replicaVars>> /\ openSockets' = openSockets
      /\ \E from, to \in ReadyStates : to \in {"CLOSING", "CLOSED"} /\ Moves(s, from, to)
  <2>1. openSockets' = openSockets
    BY DEF Ends, OnError, OnConnectError, PeerLeaves, OnClose
  <2>2. \/ Moves(s, "OPEN", "CLOSING") \/ Moves(s, "CONNECTING", "CLOSED")
        \/ Moves(s, "CLOSING", "CLOSED") \/ Moves(s, "ABORTING", "CLOSED")
    BY DEF Ends, OnError, OnConnectError, PeerLeaves, OnClose, Broken, Refused, PeerCloses,
           Closed, Aborted
  <2>3. \E from, to \in ReadyStates : to \in {"CLOSING", "CLOSED"} /\ Moves(s, from, to)
    BY <2>2, Zenon DEF ReadyStates
  <2> QED BY <2>1, <2>3 DEF Ends
<1>2. /\ readyState'[s] \in {"CLOSING", "CLOSED"}
      /\ \A t \in Sockets \ {s} : readyState'[t] = readyState[t]
  BY <1>1 DEF Moves
<1>3. feed' \in [Sockets -> Seq(Sent)] /\ \A t \in Sockets \ {s} : feed'[t] = feed[t]
  <2>1. <<>> \in Seq(Sent)
    OBVIOUS
  <2> QED BY <2>1 DEF Ends, FeedInv
<1>4. Current' => Current /\ Entry' = Entry
  <2>1. Entry' = Entry /\ (Entry # NoSocket => Entry \in Sockets)
    BY <1>1, SharedUriAssumption DEF Entry
  <2> QED BY <1>2, <2>1 DEF Current
<1> HIDE DEF NotificationInv
<1> QED BY <1>1, <1>2, <1>3, <1>4, SocketsFade

(* Who has the model when its socket opens has what the empty chain leads  *)
(* on from.                                                                *)
LEMMA OpensKeeps ==
    ASSUME NotificationInv, NEW s \in Sockets, Opens(s)
    PROVE  StepOK
<1> USE DEF NotificationInv, RegistryInv, EntryInv, TypeOK, SocketTypeOK
<1>1. /\ UNCHANGED <<history, timeline, now, feed, holds, content, answer, openSockets>>
      /\ readyState[s] = "CONNECTING" /\ readyState' = [readyState EXCEPT ![s] = "OPEN"]
      /\ Entry' = Entry
  BY DEF Opens, OnOpen, Opened, Moves, serverVars, Entry
<1>2. ServerInv' /\ AnswersTyped' /\ Lengthens
  BY <1>1 DEF ServerInv, Model, New, AnswersTyped, Lengthens
<1>3. following' \in [Subscribers -> BOOLEAN]
  <2>1. CASE s = Entry
    BY <2>1 DEF Opens
  <2>2. CASE s # Entry
    BY <2>2 DEF Opens, MemoryTypeOK
  <2> QED BY <2>1, <2>2
<1>4. MemoryTypeOK'
  BY <1>1, <1>3 DEF MemoryTypeOK
<1>5. feed[s] = <<>> /\ Chained(history, <<>>)
  BY <1>1 DEF FeedInv, Chained, ServerInv
<1>6. FeedInv'
  BY <1>1, <1>5 DEF FeedInv
<1>7. CASE s = Entry
  <2>1. ~Current
    BY <1>1, <1>7 DEF Current
  <2>2. Place(Entry)' = Len(history) /\ Expected(Entry)' = Model
    <3>1. <<>> \in Seq(Sent) /\ Len(<<>>) = 0
      OBVIOUS
    <3>2. Len(history) - ChangesIn(<<>>) = Len(history) - 0
      BY <1>5, <3>1, ChainPlace DEF ServerInv
    <3>3. Len(history) \in Nat
      BY DEF ServerInv
    <3> QED BY <1>1, <1>5, <1>7, <3>2, <3>3 DEF Place, Expected, Model
  <2>3. following' = [r \in Subscribers |-> Has(r) = Model]
    BY <1>7 DEF Opens
  <2>4. \A r \in Subscribers : following'[r] => Has(r)' = Expected(Entry)'
    BY <1>1, <2>2, <2>3 DEF Has
  <2> QED BY <1>2, <1>4, <1>6, <2>1, <2>4 DEF StepOK, FollowsServer, NoWayBack
<1>8. CASE s # Entry
  <2>1. Current' = Current /\ following' = following /\ Place(Entry)' = Place(Entry)
    BY <1>1, <1>8 DEF Current, Opens, Place
  <2>2. FollowsServer'
    BY <1>1, <2>1 DEF FollowsServer, Has, Expected
  <2>3. NoWayBack
    <3>1. Current => Place(Entry) \in Nat
      <4> HIDE DEF NotificationInv
      <4> QED BY CurrentPlace
    <3> QED BY <1>1, <2>1, <3>1 DEF NoWayBack
  <2> QED BY <1>2, <1>4, <1>6, <2>2, <2>3 DEF StepOK
<1> QED BY <1>7, <1>8

(* A message delivered: nothing happens to the sockets or to the server.   *)
LEMMA DeliveryFrame ==
    ASSUME NotificationInv, NEW s \in Sockets, NEW m, Delivered(s, m)
    PROVE  /\ UNCHANGED <<readyState, openSockets, history, timeline, now, answer>>
           /\ readyState[s] \in {"OPEN", "CLOSING"}
           /\ Current' = Current /\ Entry' = Entry
           /\ ServerInv' /\ AnswersTyped' /\ Lengthens
<1>1. /\ UNCHANGED <<readyState, openSockets, history, timeline, now, answer>>
      /\ readyState[s] \in {"OPEN", "CLOSING"}
  BY DEF Delivered, OnMessage, Received, serverVars
<1> QED BY <1>1 DEF Current, Entry, NotificationInv, ServerInv, Model, New, AnswersTyped, Lengthens

(* A message under way: the place moves with what the followers have.      *)
LEMMA DeliverKeeps ==
    ASSUME NotificationInv, NEW s \in Sockets, Deliver(s)
    PROVE  StepOK
<1> DEFINE m == Head(feed[s])
<1>1. feed[s] # <<>> /\ feed' = [feed EXCEPT ![s] = Tail(feed[s])] /\ Delivered(s, m)
  BY DEF Deliver, Takes
<1>2. m \in Sent /\ Tail(feed[s]) \in Seq(Sent) /\ feed[s] \in Seq(Sent)
  BY <1>1, HeadTailProperties DEF NotificationInv, FeedInv
<1>3. /\ UNCHANGED <<readyState, openSockets, history, timeline, now, answer>>
      /\ readyState[s] \in {"OPEN", "CLOSING"}
      /\ Current' = Current /\ Entry' = Entry
      /\ ServerInv' /\ AnswersTyped' /\ Lengthens
  BY <1>1, DeliveryFrame
<1>4. MemoryTypeOK /\ history \in Seq(Contents)
  BY DEF NotificationInv, ServerInv
<1> HIDE DEF m
<1>5. /\ readyState[s] = "OPEN" => Chained(history, feed[s])
      /\ Chained(history, feed[s]) => /\ Chained(history, Tail(feed[s]))
                                      /\ Leads(m, history[Len(history) - Len(feed[s])],
                                                  history[Len(history) - Len(feed[s]) + 1])
  BY <1>1, <1>2, <1>4, ChainShrinks DEF NotificationInv, FeedInv, m
<1>6. FeedInv'
  BY <1>1, <1>2, <1>3, <1>5 DEF NotificationInv, FeedInv
<1>7. ASSUME NEW a \in Contents, NEW b \in Contents, m = UpdateMessage(a, b)
      PROVE  /\ MemoryTypeOK'
             /\ \A r \in Subscribers : following'[r] =>
                  /\ following[r] /\ (a = b \/ (Current /\ s = Entry))
                  /\ Has(r) # Torn => Has(r)' = IF Has(r) = a THEN b ELSE IF a = b THEN Has(r) ELSE Torn
  <2>1. /\ m.type = "incrementalUpdate" /\ IsPatch(m.data) /\ Leading(m.data)
        /\ IsEmptyPatch(m.data) <=> a = b
        /\ m.data.from = a /\ m.data.to = b
    BY <1>7 DEF UpdateMessage, Message, Changed, IsPatch, IsEmptyPatch, Leading
  <2>2. \A c : Applied(m.data, c) = IF c = a THEN b ELSE IF a = b THEN c ELSE Torn
    BY <2>1 DEF Applied
  <2> QED BY <1>1, <1>4, <2>1, <2>2, DeliversPatch
<1>8. ASSUME NEW c \in Contents, m = Full(c)
      PROVE  /\ MemoryTypeOK'
             /\ \A r \in Subscribers : following'[r] => Current /\ s = Entry /\ Has(r)' = c
  BY <1>1, <1>4, <1>8, DeliversFull
<1>9. MemoryTypeOK'
  BY <1>2, <1>7, <1>8 DEF Sent
<1>10. CASE Current /\ s = Entry
  <2> DEFINE place == Len(history) - Len(feed[s])
  <2>1. /\ Chained(history, feed[s]) /\ Place(Entry) = place /\ Expected(Entry) = history[place]
        /\ Expected(Entry) # Torn /\ place \in 1..Len(history)
        /\ \A r \in Subscribers : following[r] => Has(r) = Expected(Entry)
    BY <1>10, CurrentPlace
  <2>2. /\ Place(Entry)' = place + 1 /\ Expected(Entry)' = history[place + 1]
        /\ history[place] \in Contents /\ history[place + 1] \in Contents
    <3>1. Len(Tail(feed[s])) = Len(feed[s]) - 1 /\ Len(feed[s]) \in Nat /\ Len(history) \in Nat
      BY <1>1, <1>2, <1>4, HeadTailProperties
    <3>2. feed'[Entry'] = Tail(feed[s])
      BY <1>1, <1>3, <1>10 DEF NotificationInv, FeedInv
    <3>3. /\ Len(history) - ChangesIn(Tail(feed[s])) = Len(history) - Len(Tail(feed[s]))
          /\ history[Len(history) - Len(Tail(feed[s]))] \in Contents
      BY <1>2, <1>4, <1>5, <2>1, ChainPlace
    <3>4. Len(history) - Len(Tail(feed[s])) = place + 1
      <4>1. \A a, b \in Nat : a - (b - 1) = (a - b) + 1
        OBVIOUS
      <4> QED BY <3>1, <4>1
    <3>5. history[place] \in Contents
      BY <1>4, <2>1
    <3> QED BY <1>3, <3>2, <3>3, <3>4, <3>5 DEF Place, Expected
  <2>3. Leads(m, history[place], history[place + 1])
    BY <1>5, <2>1
  <2>4. ASSUME NEW r \in Subscribers, following'[r]
        PROVE  Has(r)' = history[place + 1]
    <3>1. CASE m = UpdateMessage(history[place], history[place + 1])
      BY <1>7, <2>1, <2>2, <2>4, <3>1
    <3>2. CASE m = Full(history[place + 1])
      BY <1>8, <2>2, <2>4, <3>2
    <3> QED BY <2>3, <3>1, <3>2 DEF Leads
  <2>5. FollowsServer'
    BY <2>2, <2>4 DEF FollowsServer
  <2>6. NoWayBack
    BY <1>3, <2>1, <2>2 DEF NoWayBack
  <2> QED BY <1>3, <1>6, <1>9, <2>5, <2>6 DEF StepOK
<1>11. CASE Current /\ s # Entry
  <2>1. /\ Place(Entry)' = Place(Entry) /\ Expected(Entry)' = Expected(Entry)
        /\ Place(Entry) \in 1..Len(history) /\ Expected(Entry) # Torn
        /\ \A r \in Subscribers : following[r] => Has(r) = Expected(Entry)
    <3>1. /\ Entry \in Sockets /\ Place(Entry) \in 1..Len(history) /\ Expected(Entry) # Torn
          /\ \A r \in Subscribers : following[r] => Has(r) = Expected(Entry)
      BY <1>11, CurrentPlace
    <3>2. feed'[Entry] = feed[Entry]
      BY <1>1, <1>11, <3>1 DEF NotificationInv, FeedInv
    <3> QED BY <1>3, <3>1, <3>2 DEF Place, Expected
  <2>2. \A r \in Subscribers : following'[r] => Has(r)' = Expected(Entry)'
    BY <1>2, <1>7, <1>8, <1>11, <2>1 DEF Sent
  <2>3. FollowsServer' /\ NoWayBack
    BY <1>3, <2>1, <2>2 DEF FollowsServer, NoWayBack
  <2> QED BY <1>3, <1>6, <1>9, <2>3 DEF StepOK
<1>12. CASE ~Current
  <2>1. FollowsServer' /\ NoWayBack
    BY <1>3, <1>12 DEF FollowsServer, NoWayBack
  <2> QED BY <1>3, <1>6, <1>9, <2>1 DEF StepOK
<1> QED BY <1>10, <1>11, <1>12

(* A message that is no update leaves the place where it is.               *)
LEMMA DeliverOtherKeeps ==
    ASSUME NotificationInv, NEW s \in Sockets, DeliverOther(s)
    PROVE  StepOK
<1>1. PICK m \in OtherMessages : Delivered(s, m)
  BY DEF DeliverOther
<1>2. /\ UNCHANGED <<readyState, openSockets, history, timeline, now, answer, feed>>
      /\ Current' = Current /\ Entry' = Entry
      /\ ServerInv' /\ AnswersTyped' /\ Lengthens
  BY <1>1, DeliveryFrame DEF DeliverOther
<1>3. FeedInv'
  BY <1>2 DEF NotificationInv, FeedInv
<1>4. /\ MemoryTypeOK'
      /\ \A r \in Subscribers : following'[r] => following[r] /\ (Has(r) # Torn => Has(r)' = Has(r))
  BY <1>1, DeliversOther DEF NotificationInv
<1>5. Place(Entry)' = Place(Entry) /\ Expected(Entry)' = Expected(Entry)
  BY <1>2 DEF Place, Expected
<1>6. FollowsServer'
  BY <1>2, <1>4, <1>5, CurrentPlace DEF FollowsServer
<1>7. NoWayBack
  BY <1>2, <1>5, CurrentPlace DEF NoWayBack
<1> QED BY <1>2, <1>3, <1>4, <1>6, <1>7 DEF StepOK

----------------------------------------------------------------------------
(* A change of the model lengthens the chains of the open sockets.         *)
LEMMA ServerChangesFeed ==
    ASSUME NotificationInv, Silent, Edited \/ Undone \/ Redone \/ Replaced
    PROVE  /\ ServerInv' /\ FeedInv' /\ Lengthens
           /\ Current' = Current /\ Entry' = Entry
           /\ Current => Place(Entry)' = Place(Entry) /\ Expected(Entry)' = Expected(Entry)
<1>1. PICK c \in Contents, m \in Sent : Becomes(c, m) /\ Leads(m, Model, c)
  BY ServerStep DEF NotificationInv
<1>2. ServerInv'
  BY ServerStep DEF NotificationInv
<1>3. /\ readyState' = readyState /\ openSockets' = openSockets
      /\ Current' = Current /\ Entry' = Entry /\ history' = Append(history, c)
  BY <1>1 DEF Silent, Current, Entry, Becomes
<1>4. /\ \A s \in Sockets : feed[s] \in Seq(Sent) /\ Append(feed[s], m) \in Seq(Sent)
      /\ \A s \in Sockets : feed'[s] \in {feed[s], Append(feed[s], m)}
      /\ \A s \in Sockets : readyState[s] = "OPEN" => feed'[s] = Append(feed[s], m)
      /\ \A s \in Sockets : readyState[s] \in {"NEW", "CONNECTING"} => feed'[s] = feed[s]
      /\ feed' \in [Sockets -> Seq(Sent)]
  <2>1. \A s \in Sockets : feed[s] \in Seq(Sent) /\ Append(feed[s], m) \in Seq(Sent)
    BY DEF NotificationInv, FeedInv
  <2>2. PICK unaware \in SUBSET { s \in Sockets : readyState[s] = "CLOSING" } :
            feed' = [s \in Sockets |-> IF readyState[s] = "OPEN" \/ s \in unaware
                                       THEN Append(feed[s], m) ELSE feed[s]]
    BY <1>1 DEF Becomes
  <2> QED BY <2>1, <2>2
<1>5. history \in Seq(Contents) /\ history # <<>> /\ Model = history[Len(history)]
  BY DEF NotificationInv, ServerInv, Model
<1>6. \A s \in Sockets : readyState[s] = "OPEN" =>
          Chained(history, feed[s]) /\ Chained(history', feed'[s])
  BY <1>1, <1>3, <1>4, <1>5, ChainGrows DEF NotificationInv, FeedInv
<1>7. FeedInv'
  BY <1>3, <1>4, <1>6 DEF NotificationInv, FeedInv
<1>8. ASSUME Current
      PROVE  Place(Entry)' = Place(Entry) /\ Expected(Entry)' = Expected(Entry)
  <2>1. /\ Entry \in Sockets /\ readyState[Entry] = "OPEN" /\ feed[Entry] \in Seq(Sent)
        /\ Place(Entry) = Len(history) - Len(feed[Entry]) /\ Place(Entry) \in 1..Len(history)
        /\ Expected(Entry) = history[Place(Entry)]
    BY <1>8, CurrentPlace
  <2>2. /\ history' \in Seq(Contents) /\ Len(history') = Len(history) + 1
        /\ Len(feed'[Entry]) = Len(feed[Entry]) + 1
        /\ \A i \in 1..Len(history) : history'[i] = history[i]
    BY <1>3, <1>4, <1>5, <2>1
  <2>3. Len(history') - ChangesIn(feed'[Entry]) = Len(history') - Len(feed'[Entry])
    BY <1>4, <1>6, <2>1, <2>2, ChainPlace
  <2>4. Len(history') - Len(feed'[Entry]) = Len(history) - Len(feed[Entry])
    BY <1>5, <2>1, <2>2
  <2> QED BY <1>3, <2>1, <2>2, <2>3, <2>4 DEF Place, Expected
<1>9. Lengthens
  BY <1>3 DEF Lengthens
<1> QED BY <1>2, <1>3, <1>7, <1>8, <1>9

(* A change of somebody else: the followers stay where they are.           *)
LEMMA ServerChangesKeeps ==
    ASSUME NotificationInv, Silent, ServerChanges
    PROVE  StepOK
<1>1. UNCHANGED <<holds, content, answer, following>> /\ (Edited \/ Undone \/ Redone \/ Replaced)
  BY DEF ServerChanges, replicaVars
<1>2. /\ ServerInv' /\ FeedInv' /\ Lengthens /\ Current' = Current /\ Entry' = Entry
      /\ Current => Place(Entry)' = Place(Entry) /\ Expected(Entry)' = Expected(Entry)
  BY <1>1, ServerChangesFeed
<1>3. MemoryTypeOK' /\ AnswersTyped'
  BY <1>1 DEF NotificationInv, MemoryTypeOK, AnswersTyped
<1>4. FollowsServer'
  BY <1>1, <1>2 DEF NotificationInv, FollowsServer, Has
<1>5. NoWayBack
  BY <1>2, CurrentPlace DEF NoWayBack
<1> QED BY <1>2, <1>3, <1>4, <1>5 DEF StepOK

(* Requests that leave the server as it is.                                *)
LEMMA RequestFrame ==
    ASSUME NotificationInv, Silent, UNCHANGED <<serverVars, feed>>
    PROVE  /\ ServerInv' /\ FeedInv' /\ Lengthens /\ NoWayBack
           /\ Current' = Current /\ Expected(Entry)' = Expected(Entry)
<1>1. UNCHANGED <<history, timeline, now, feed, readyState, openSockets>>
  BY DEF Silent, serverVars
<1>2. /\ Current' = Current /\ Entry' = Entry /\ Expected(Entry)' = Expected(Entry)
      /\ Place(Entry)' = Place(Entry)
  BY <1>1 DEF Current, Entry, Place, Expected
<1>3. ServerInv' /\ FeedInv' /\ Lengthens
  BY <1>1 DEF NotificationInv, ServerInv, FeedInv, Model, New, Lengthens
<1> QED BY <1>2, <1>3, CurrentPlace DEF NoWayBack

(* An answer that is under way changes nothing yet.                        *)
LEMMA GetAnsweredKeeps ==
    ASSUME NotificationInv, Silent, NEW r \in Subscribers, GetAnswered(r)
    PROVE  StepOK
<1>1. /\ UNCHANGED <<holds, content, following>> /\ UNCHANGED <<serverVars, feed>>
      /\ answer' = [answer EXCEPT ![r] = Model]
  BY DEF GetAnswered
<1>2. /\ ServerInv' /\ FeedInv' /\ Lengthens /\ NoWayBack
      /\ Current' = Current /\ Expected(Entry)' = Expected(Entry)
  BY <1>1, RequestFrame
<1>3. Model \in Contents
  BY DEF NotificationInv, ServerInv, Model
<1>4. MemoryTypeOK' /\ AnswersTyped'
  BY <1>1, <1>3 DEF NotificationInv, MemoryTypeOK, AnswersTyped
<1>5. FollowsServer'
  BY <1>1, <1>2 DEF NotificationInv, FollowsServer, Has
<1> QED BY <1>2, <1>4, <1>5 DEF StepOK

(* Taking a model that was got disturbs nobody else, and who takes one     *)
(* that no change passed has the right one.                                *)
LEMMA TakeModelKeeps ==
    ASSUME NotificationInv, Silent, NEW r \in Subscribers, TakeModel(r)
    PROVE  StepOK
<1> DEFINE track == [following EXCEPT ![r] = Current /\ answer[r] = Expected(Entry)]
           mem == WithNew(Memory, r, answer[r])
<1>1. /\ UNCHANGED <<serverVars, feed>> /\ answer[r] # NoAnswer
      /\ answer' = [answer EXCEPT ![r] = NoAnswer] /\ Keep(mem, track)
  BY DEF TakeModel
<1>2. /\ ServerInv' /\ FeedInv' /\ Lengthens /\ NoWayBack
      /\ Current' = Current /\ Expected(Entry)' = Expected(Entry)
  BY <1>1, RequestFrame
<1>3. answer[r] \in Values /\ MemoryTypeOK
  BY <1>1 DEF NotificationInv, AnswersTyped, Values
<1>4. /\ mem \in Memories /\ HasIn(mem, r) = answer[r]
      /\ \A t \in Subscribers \ {r} : HasIn(mem, t) = Has(t)
  BY <1>3, MemoryNow, NewObject
<1>5. /\ track \in [Subscribers -> BOOLEAN]
      /\ track[r] => answer[r] = Expected(Entry)
      /\ \A t \in Subscribers \ {r} : track[t] = following[t]
  BY <1>3 DEF MemoryTypeOK
<1> HIDE DEF mem, track
<1>6. /\ MemoryTypeOK' /\ following' = track
      /\ \A t \in Subscribers : track[t] => Has(t)' = HasIn(mem, t)
  BY <1>1, <1>4, <1>5, Keeps
<1>7. AnswersTyped'
  BY <1>1 DEF NotificationInv, AnswersTyped
<1>8. FollowsServer'
  <2> SUFFICES ASSUME NEW t \in Subscribers, following'[t], Current
               PROVE  Has(t)' = Expected(Entry)
    BY <1>2 DEF FollowsServer
  <2>1. CASE t = r
    BY <1>4, <1>5, <1>6, <2>1
  <2>2. CASE t # r
    BY <1>4, <1>5, <1>6, <2>2, CurrentPlace
  <2> QED BY <2>1, <2>2
<1> QED BY <1>2, <1>6, <1>7, <1>8 DEF StepOK

(* Applying the result of an edit ends the following of who does it and,   *)
(* done in place, of all who share the object.                             *)
LEMMA EditAppliedKeeps ==
    ASSUME NotificationInv, Silent, NEW r \in Subscribers, EditApplied(r)
    PROVE  StepOK
<1> DEFINE patch == Changed("patch", Model, New)
           Track(copy) == [t \in Subscribers |->
                                following[t] /\ t # r /\ (copy \/ t \notin SharedWith(r))]
<1>1. PICK copy \in BOOLEAN : Keep(PatchModel(Memory, r, patch, copy), Track(copy))
  BY DEF EditApplied
<1>2. Edited /\ answer' = answer
  BY DEF EditApplied
<1>3. /\ ServerInv' /\ FeedInv' /\ Lengthens /\ Current' = Current /\ Entry' = Entry
      /\ Current => Place(Entry)' = Place(Entry) /\ Expected(Entry)' = Expected(Entry)
  BY <1>2, ServerChangesFeed
<1>4. Leading(patch) /\ MemoryTypeOK
  <2>1. New \in Contents
    BY <1>2, BecomesNew DEF NotificationInv, Edited, Change, Becomes
  <2> QED BY <2>1 DEF Leading, Changed, NotificationInv
<1> DEFINE mem == PatchModel(Memory, r, patch, copy)
           track == Track(copy)
<1>5. /\ track \in [Subscribers -> BOOLEAN]
      /\ \A t \in Subscribers : track[t] =>
            following[t] /\ t # r /\ (copy \/ t \notin SharedWith(r))
  OBVIOUS
<1> HIDE DEF patch, mem, track
<1>6. /\ mem \in Memories
      /\ Memory.holds[r] = NoObject => mem = Memory
      /\ \A t \in Subscribers \ {r} :
            copy \/ Memory.holds[t] # Memory.holds[r] => HasIn(mem, t) = HasIn(Memory, t)
  BY <1>4, MemoryNow, PatchesModel DEF mem
<1>7. /\ MemoryTypeOK' /\ following' = track
      /\ \A t \in Subscribers : track[t] => Has(t)' = HasIn(mem, t)
  BY <1>1, <1>5, <1>6, Keeps DEF mem, track
<1>8. \A t \in Subscribers : track[t] => following[t] /\ HasIn(mem, t) = Has(t)
  <2> SUFFICES ASSUME NEW t \in Subscribers, track[t]
               PROVE  following[t] /\ HasIn(mem, t) = Has(t)
    OBVIOUS
  <2>1. following[t] /\ t # r /\ (copy \/ t \notin SharedWith(r))
    BY <1>5
  <2>2. Memory.holds = holds
    BY DEF Memory
  <2>3. copy \/ holds[t] # holds[r] \/ holds[r] = NoObject
    BY <2>1 DEF SharedWith
  <2> QED BY <1>4, <1>6, <2>1, <2>2, <2>3, MemoryNow
<1>9. FollowsServer'
  BY <1>3, <1>7, <1>8, CurrentPlace DEF FollowsServer
<1>10. NoWayBack
  BY <1>3, CurrentPlace DEF NoWayBack
<1>11. AnswersTyped'
  BY <1>2 DEF NotificationInv, AnswersTyped
<1> QED BY <1>3, <1>7, <1>9, <1>10, <1>11 DEF StepOK

----------------------------------------------------------------------------
(* The client, seen from its sockets: every step is one of its own or      *)
(* leaves it alone.                                                        *)
LEMMA ClientStep ==
    ASSUME [NotificationNext]_notificationVars
    PROVE  [Next]_vars \/ Silent
<1>1. CASE UNCHANGED notificationVars
  BY <1>1 DEF notificationVars
<1>2. ASSUME NEW l \in Listeners, NEW strict \in Strictness, SubscribeTo(l, strict) PROVE Next
  BY <1>2, SharedUriAssumption DEF SubscribeTo, Next, Call
<1>3. CASE Unsubscribe(SharedUri)
  BY <1>3, SharedUriAssumption DEF Next, Call
<1>4. ASSUME NEW s \in Sockets, Opens(s) \/ Ends(s) \/ Deliver(s) \/ DeliverOther(s) PROVE Next
  BY <1>4 DEF Opens, Ends, Deliver, DeliverOther, Delivered, Next, Event
<1> QED BY <1>1, <1>2, <1>3, <1>4 DEF NotificationNext

(* Steps of the client keep the invariant of its registry.                 *)
LEMMA RegistryKept ==
    ASSUME RegistryInv, [Next]_vars \/ Silent
    PROVE  RegistryInv'
<1>1. CASE [Next]_vars
  BY <1>1, RegistryStep
<1>2. CASE Silent
  <2>1. Still /\ callbacks' = <<>> /\ reply' = NoReply
    BY <1>2 DEF Silent, Handles, Still
  <2>2. CallbacksTyped /\ ReplyTyped
    <3>1. <<>> \in Seq(Callbacks)
      OBVIOUS
    <3> QED BY <2>1, <3>1, ReplyType DEF CallbacksTyped, NoReply, Calls, Results
  <2>3. TypeOK'
    BY <2>1, <2>2, TypeStep DEF Still, EntriesTyped, RegistryInv, EntryInv, TypeOK
  <2>4. Fades /\ openSockets' = openSockets
    BY <2>1, StillFades DEF Still
  <2> QED BY <2>3, <2>4, EntryFades, StrandedFades DEF RegistryInv
<1> QED BY <1>1, <1>2

(* One lemma for each action.                                              *)
LEMMA NotificationStep ==
    ASSUME NotificationInv, [NotificationNext]_notificationVars
    PROVE  RegistryInv' /\ StepOK
<1>1. RegistryInv'
  BY ClientStep, RegistryKept DEF NotificationInv
<1>2. ASSUME UNCHANGED notificationVars PROVE StepOK
  <2>1. /\ UNCHANGED <<history, timeline, now, feed, holds, content, answer, following,
                       readyState, openSockets>>
    BY <1>2 DEF notificationVars, vars, socketVars, serverVars, replicaVars
  <2>2. Current' = Current /\ Entry' = Entry /\ feed' \in [Sockets -> Seq(Sent)]
    BY <2>1 DEF Current, Entry, NotificationInv, FeedInv
  <2> QED BY <2>1, <2>2, SocketsFade DEF serverVars, replicaVars
<1>3. ASSUME NEW l \in Listeners, NEW strict \in Strictness, SubscribeTo(l, strict) PROVE StepOK
  BY <1>3, SubscribeKeeps
<1>4. ASSUME Unsubscribe(SharedUri) /\ Quiet PROVE StepOK
  BY <1>4, UnsubscribeKeeps
<1>5. ASSUME NEW s \in Sockets, Opens(s) \/ Ends(s) \/ Deliver(s) \/ DeliverOther(s) PROVE StepOK
  BY <1>5, OpensKeeps, EndsKeeps, DeliverKeeps, DeliverOtherKeeps
<1>6. ASSUME Request /\ Silent PROVE StepOK
  <2>1. CASE ServerChanges
    BY <1>6, <2>1, ServerChangesKeeps
  <2>2. ASSUME NEW r \in Requesters, GetAnswered(r) \/ TakeModel(r) \/ EditApplied(r) PROVE StepOK
    <3>1. r \in Subscribers
      BY RequestersAssumption DEF Subscribers
    <3> QED BY <1>6, <2>2, <3>1, GetAnsweredKeeps, TakeModelKeeps, EditAppliedKeeps
  <2> QED BY <1>6, <2>1, <2>2 DEF Request
<1> QED BY <1>1, <1>2, <1>3, <1>4, <1>5, <1>6 DEF NotificationNext

(* No follower, no message, no entry.                                      *)
LEMMA NotificationInitInv == NotificationInit => NotificationInv
<1> SUFFICES ASSUME NotificationInit PROVE NotificationInv
  OBVIOUS
<1>1. RegistryInv
  BY EntryInit DEF NotificationInit
<1>2. ServerInv
  <2>1. history = <<2>> /\ timeline = <<1, 2>> /\ now = 2 /\ 1 \in Contents /\ 2 \in Contents
    BY MaxChangesAssumption DEF NotificationInit, Contents
  <2>2. /\ Len(history) = 1 /\ history[1] = 2 /\ DOMAIN timeline = 1..2
        /\ timeline[1] = 1 /\ timeline[2] = 2
    BY <2>1
  <2>3. history \in Seq(Contents) /\ timeline \in Seq(Contents)
    BY <2>1
  <2> QED BY <2>1, <2>2, <2>3, MaxChangesAssumption DEF ServerInv, Model, New
<1>3. FeedInv
  <2>1. <<>> \in Seq(Sent)
    OBVIOUS
  <2> QED BY <2>1 DEF NotificationInit, Init, SocketInit, FeedInv
<1>4. MemoryTypeOK /\ AnswersTyped /\ FollowsServer
  BY NumSubscribersAssumption
     DEF NotificationInit, MemoryTypeOK, Values, AnswersTyped, FollowsServer
<1> QED BY <1>1, <1>2, <1>3, <1>4 DEF NotificationInv

(* The invariant, for every behaviour.                                     *)
LEMMA NotificationInvariant == NotificationSpec => []NotificationInv
<1>1. NotificationInv /\ [NotificationNext]_notificationVars => NotificationInv'
  BY NotificationStep DEF NotificationInv, StepOK
<1> QED BY <1>1, NotificationInitInv, PTL DEF NotificationSpec

(* The composed state has its types.                                       *)
THEOREM NotificationTypeCorrect == NotificationSpec => []NotificationTypeOK
<1>1. NotificationInv => NotificationTypeOK
  <2> SUFFICES ASSUME NotificationInv PROVE NotificationTypeOK
    OBVIOUS
  <2>1. ASSUME NEW m \in Sent PROVE m.data.kind \in DataKinds
    BY DEF Sent, UpdateMessage, Full, Message, Changed, DataKinds, ObjectKinds
  <2>2. \A s \in Sockets : feed[s] \in Seq(Sent)
    BY DEF NotificationInv, FeedInv
  <2>3. \A s \in Sockets : \A i \in DOMAIN feed[s] : feed[s][i] \in Sent
    BY <2>2
  <2> QED BY <2>1, <2>3 DEF NotificationInv, RegistryInv, EntryInv, ServerInv, MemoryTypeOK,
                            AnswersTyped, Values, NotificationTypeOK
<1> QED BY <1>1, NotificationInvariant, PTL

(* Who follows has the content that the messages under way lead on from:   *)
(* for every number of subscribers, sockets and changes.                   *)
THEOREM FollowersFollow == NotificationSpec => []FollowsServer
<1>1. NotificationInv => FollowsServer
  BY DEF NotificationInv
<1> QED BY <1>1, NotificationInvariant, PTL

(* With its subscribers the client's registry is that of ClientSocketsV2.  *)
THEOREM NotificationRegistry == NotificationSpec => [](EntryIsNewest /\ StrandedOnlyBySuccessor)
<1>1. NotificationInv => EntryIsNewest /\ StrandedOnlyBySuccessor
  BY DEF NotificationInv, RegistryInv, EntryInv
<1> QED BY <1>1, NotificationInvariant, PTL

(* Each subscriber is a Follower: forward only, and at each place with the *)
(* content the model had there.  That it gets to the end is for TLC.       *)
THEOREM FollowersRefine ==
    NotificationSpec => AsFollower!Init /\ [][AsFollower!Next]_(AsFollower!followerVars)
<1>1. NotificationInit => AsFollower!Init
  <2> SUFFICES ASSUME NotificationInit PROVE AsFollower!Init
    OBVIOUS
  <2>1. 2 \in Contents /\ history = <<2>>
    BY MaxChangesAssumption DEF NotificationInit, Contents
  <2>2. ~Current /\ \A r \in Subscribers : Has(r) = Torn
    BY SharedUriAssumption DEF NotificationInit, Init, Current, Entry, Has
  <2> QED BY <2>1, <2>2 DEF AsFollower!Init, AsFollower!Lost, OnTrack
<1>2. ASSUME NotificationInv, NotificationInv', [NotificationNext]_notificationVars
      PROVE  AsFollower!Next
  <2>1. StepOK
    BY <1>2, NotificationStep
  <2>2. AsFollower!Extended(history, history')
    BY <2>1 DEF AsFollower!Extended, StepOK, Lengthens
  <2>3. ASSUME NEW r \in Subscribers, OnTrack(r)'
        PROVE  Place(Entry)' \in DOMAIN history' /\ Has(r)' = history'[Place(Entry)']
    <3>1. Current' /\ following'[r]
      BY <2>3 DEF OnTrack
    <3>2. Place(Entry)' \in 1..Len(history)' /\ history' \in Seq(Contents)
      <4>1. /\ Entry' \in Sockets /\ readyState'[Entry'] = "OPEN"
        BY <1>2, <3>1, SharedUriAssumption
           DEF NotificationInv, RegistryInv, EntryInv, TypeOK, Current, Entry
      <4>2. /\ Chained(history', feed'[Entry']) /\ feed'[Entry'] \in Seq(Sent)
            /\ history' \in Seq(Contents)
        BY <1>2, <4>1 DEF NotificationInv, FeedInv, ServerInv
      <4> QED BY <4>2, ChainPlace DEF Place
    <3>3. Has(r)' = Expected(Entry)'
      BY <2>1, <3>1 DEF StepOK, FollowsServer
    <3> QED BY <3>2, <3>3 DEF Expected
  <2>4. ASSUME NEW r \in Subscribers, OnTrack(r), OnTrack(r)'
        PROVE  Place(Entry)' >= Place(Entry)
    BY <2>1, <2>4 DEF StepOK, NoWayBack, OnTrack
  <2> QED BY <2>2, <2>3, <2>4 DEF AsFollower!Next, AsFollower!Lost
<1>3. NotificationInv /\ NotificationInv' /\ [NotificationNext]_notificationVars
        => [AsFollower!Next]_(AsFollower!followerVars)
  BY <1>2
<1> QED BY <1>1, <1>3, NotificationInvariant, PTL DEF NotificationSpec
=============================================================================
