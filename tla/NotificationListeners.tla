------------------------ MODULE NotificationListeners ------------------------
(***************************************************************************)
(* NotificationSubscriptionListener and its V2 subclass: which callback of *)
(* a ModelServerNotificationListener a message of a socket becomes.  The   *)
(* callbacks are optional; the data of one that is not implemented is not  *)
(* even mapped.                                                            *)
(***************************************************************************)
EXTENDS Messages

CallbacksV1 == {"DirtyStateChanged", "Success", "Error", "IncrementalUpdate", "FullUpdate",
                "Validation", "Unknown"}
CallbacksV2 == CallbacksV1 \union {"IncrementalUpdateV2"}

LOCAL Optional(implemented, event, told) == IF event \in implemented THEN told ELSE <<>>

(* NotificationSubscriptionListener.onMessage                              *)
ListenerV1(implemented, m) ==
    LET type == AsMessageType(m.type)
        Call(event, data) == Optional(implemented, event, Tell(event, data))
        CallIf(guarded, event, data) == Optional(implemented, event, TellIf(guarded, event, data))
    IN  CASE ~IsMessage(m) -> <<>>
          [] IsMessage(m) /\ type = "dirtyState" -> Call("DirtyStateChanged", AsBoolean(m.data))
          [] IsMessage(m) /\ type \in {"keepAlive", "success"} -> Call("Success", NoData)
          [] IsMessage(m) /\ type = "error" -> Call("Error", AsString(m.data))
          [] IsMessage(m) /\ type = "incrementalUpdate" ->
                CallIf(IsCommandResult(m.data), "IncrementalUpdate", m.data)
          [] IsMessage(m) /\ type = "fullUpdate" -> CallIf(IsObject(m.data), "FullUpdate", m.data)
          [] IsMessage(m) /\ type = "validationResult" ->
                CallIf(IsDiagnostic(m.data), "Validation", m.data)
          [] OTHER -> Call("Unknown", m.data)

(* Mutant: nothing else is left to the superclass.                         *)
ListenerV2OnlyUpdates(implemented, m) ==
    IF IsMessage(m) /\ AsMessageType(m.type) = "incrementalUpdate" /\ IsPatch(m.data)
    THEN Optional(implemented, "IncrementalUpdateV2", Tell("IncrementalUpdateV2", m.data))
    ELSE Throws

(* NotificationSubscriptionListenerV2.onMessage: the patch is mapped       *)
(* before the listener is asked for its callback.                          *)
ListenerV2(implemented, m) ==
    IF IsMessage(m) /\ AsMessageType(m.type) = "incrementalUpdate"
    THEN IF IsPatch(m.data)
         THEN Optional(implemented, "IncrementalUpdateV2", Tell("IncrementalUpdateV2", m.data))
         ELSE Throws
    ELSE ListenerV1(implemented, m)
----------------------------------------------------------------------------
(* Mutant: an unknown notification is one whose type says so.              *)
RecognisesLiterally(event, type) ==
    CASE event = "Unknown" -> type = "unknown"
      [] OTHER -> type \in MessageTypes

(* The guards of the notifications, CloseNotification.is and so on: by the *)
(* type alone, which is the type of the message.                           *)
Recognises(event, type) ==
    CASE event = "Unknown" -> AsMessageType(type) = "unknown"
      [] event = "Error" -> type = "error"
      [] event = "DirtyStateChanged" -> type = "dirtyState"
      [] event \in {"IncrementalUpdate", "IncrementalUpdateV2"} -> type = "incrementalUpdate"
      [] event = "FullUpdate" -> type = "fullUpdate"
      [] event = "Validation" -> type = "validationResult"
      [] OTHER -> TRUE
==============================================================================
