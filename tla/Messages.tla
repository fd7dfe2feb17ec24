------------------------------ MODULE Messages ------------------------------
(***************************************************************************)
(* The messages of the model server, as ModelServerMessage, MessageType    *)
(* and MessageDataMapper read them.  Data is abstracted to what the guards *)
(* and mappers tell apart, its kind, and to the versions of the model it   *)
(* is about: a patch or a command result leads from one to another, a      *)
(* model is one.                                                           *)
(***************************************************************************)
EXTENDS Naturals, Sequences

MessageTypes == {"success", "warning", "error", "open", "close", "fullUpdate",
                 "incrementalUpdate", "dirtyState", "validationResult", "keepAlive", "unknown"}

TextKinds == {"text", "jsonText", "emptyText"}
ObjectKinds == {"object", "patch", "commandResult", "diagnostic",
                "guarded", "array", "models", "updateResult"}
DataKinds == TextKinds \union ObjectKinds \union {"boolean", "undefined"}

Data(kind) == [kind |-> kind, from |-> 0, to |-> 0]
NoData == Data("undefined")
Changed(kind, from, to) == [kind |-> kind, from |-> from, to |-> to]
Message(type, data) == [type |-> type, data |-> data]

(* ModelServerMessage.is: a message without data is not one.               *)
IsMessage(m) == m.data.kind # "undefined"

(* "value in MessageType" also finds what every object inherits: such a    *)
(* name becomes a function, which is no type, "unknown" neither.           *)
Inherited == {"toString", "constructor"}
AsMessageType(type) ==
    CASE type \in MessageTypes -> type
      [] type \in Inherited -> "a function"
      [] OTHER -> "unknown"

(* The guards.  An array is an object for AnyObject.is; a patch is one by  *)
(* its first operation, or by having none.                                 *)
IsObject(data) == data.kind \in ObjectKinds
IsPatch(data) == data.kind = "patch"
IsCommandResult(data) == data.kind = "commandResult"
IsDiagnostic(data) == data.kind = "diagnostic"

(* A patch without operations.                                             *)
IsEmptyPatch(data) == IsPatch(data) /\ data.from = data.to

(* Mutant: what is no text is not encoded.                                 *)
AsStringNotJson(data) == IF data.kind \in TextKinds THEN data ELSE Data("text")

(* asString: text stays as it is and undefined has none, an empty array    *)
(* becomes the empty string (all of its no elements are models), and       *)
(* everything else becomes JSON.                                           *)
AsString(data) ==
    CASE data.kind \in TextKinds \union {"undefined"} -> data
      [] IsEmptyPatch(data) -> Data("emptyText")
      [] OTHER -> [data EXCEPT !.kind = "jsonText"]

(* asBoolean: whatever is no boolean is false.                             *)
AsBoolean(data) == IF data.kind = "boolean" THEN data ELSE Data("boolean")

(* What a subscriber is told: a callback or event with its data.           *)
Tell(event, data) == << [event |-> event, data |-> data] >>
Throws == Tell("throws", NoData)

(* A mapper that throws unless its guard holds: asObject, as.              *)
TellIf(guarded, event, data) == IF guarded THEN Tell(event, data) ELSE Throws
=============================================================================
