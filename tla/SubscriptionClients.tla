------------------------- MODULE SubscriptionClients -------------------------
(***************************************************************************)
(* ModelServerSubscriptionClient and its V2 subclass, the listeners of a   *)
(* Theia frontend: which events a message of a socket, which the backend   *)
(* passed on by JSON-RPC, fires.  FrontendModuleV2 puts the V2 client in   *)
(* the place of the other, so that it serves subscribers of both APIs.     *)
(* And the printing subscriber of the example's test menu.                 *)
(***************************************************************************)
EXTENDS Messages

(* ModelServerSubscriptionClient.onMessage: updates that are not what the  *)
(* API of the first version knows are passed on as text.                   *)
ClientV1(m) ==
    LET type == AsMessageType(m.type)
        OrText(guarded) == IF guarded THEN m.data ELSE AsString(m.data)
    IN  CASE ~IsMessage(m) -> <<>>
          [] IsMessage(m) /\ type = "dirtyState" -> Tell("DirtyStateChanged", AsBoolean(m.data))
          [] IsMessage(m) /\ type \in {"keepAlive", "success"} -> Tell("Success", NoData)
          [] IsMessage(m) /\ type = "error" -> Tell("Error", AsString(m.data))
          [] IsMessage(m) /\ type = "incrementalUpdate" ->
                Tell("IncrementalUpdate", OrText(IsCommandResult(m.data)))
          [] IsMessage(m) /\ type = "fullUpdate" -> Tell("FullUpdate", OrText(IsObject(m.data)))
          [] IsMessage(m) /\ type = "validationResult" ->
                TellIf(IsDiagnostic(m.data), "Validation", m.data)
          [] OTHER -> Tell("Unknown", m.data)

(* Mutant: the subscribers of the first API are served before the guard.   *)
ClientV2SuperFirst(m) ==
    IF IsMessage(m) /\ AsMessageType(m.type) = "incrementalUpdate"
    THEN ClientV1(m) \o TellIf(IsPatch(m.data), "IncrementalUpdateV2", m.data)
    ELSE ClientV1(m)

(* ModelServerSubscriptionClientV2.onMessage: after its own event always   *)
(* that of the superclass; an update that is no patch throws before both.  *)
ClientV2(m) ==
    IF IsMessage(m) /\ AsMessageType(m.type) = "incrementalUpdate"
    THEN IF IsPatch(m.data) THEN Tell("IncrementalUpdateV2", m.data) \o ClientV1(m) ELSE Throws
    ELSE ClientV1(m)

----------------------------------------------------------------------------
(* The test menu listens to every event of the first API and prints it;    *)
(* the text of an update it parses.                                        *)
MenuEvents == {"DirtyStateChanged", "Success", "Error", "IncrementalUpdate", "FullUpdate",
               "Validation", "Unknown"}

PrintNotification(told) ==
    IF /\ told.event \in {"IncrementalUpdate", "FullUpdate"}
       /\ told.data.kind \in {"text", "emptyText"}
    THEN "throws"
    ELSE "printed"
==============================================================================
