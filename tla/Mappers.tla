------------------------------- MODULE Mappers -------------------------------
(***************************************************************************)
(* From the answer of a request to what the caller of a client gets:       *)
(* process, the mappers of MessageDataMapper, and ModelServerError.        *)
(***************************************************************************)
EXTENDS Messages, SequencesExt

(* What a promise of the client ends with.                                 *)
Resolved(value) == [kind |-> "resolved", value |-> value]
Rejected(why) == [kind |-> "rejected", value |-> why]
Mapped(data) == Resolved([kind |-> "data", data |-> data])
Told(success) == Resolved([kind |-> "boolean", success |-> success])

(* ModelUpdateResult: patchable says that it has the function patchModel.  *)
UpdateResult(success, patchable, update) ==
    Resolved([kind |-> "update", success |-> success, patchable |-> patchable, update |-> update])

(* The data of an update: the patch of the main model, the patches of the  *)
(* models, each with its URI, or neither of them.                          *)
Update(patch, listed, allPatches) ==
    [patch |-> patch, listed |-> listed, allPatches |-> allPatches]
NoUpdate == Update("none", FALSE, <<>>)
UpdateData(update) == [kind |-> "updateResult", from |-> 0, to |-> 0, update |-> update]
ModelPatch(modelUri, patch) == [modelUri |-> modelUri, patch |-> patch]

CouldNotMap == "could not map"

(* The elements of an array are mapped one by one.                         *)
AllOf(data, kinds) == data.kind = "array" /\ \A e \in ToSet(data.elements) : e \in kinds
ArrayOf(elements) == [kind |-> "array", from |-> 0, to |-> 0, elements |-> elements]
ModelsOf(contents) == [kind |-> "models", from |-> 0, to |-> 0, elements |-> contents]

MapIf(guarded, data) == IF guarded THEN Mapped(data) ELSE Rejected(CouldNotMap)

AsObject(data) == MapIf(IsObject(data), data)
As(data) == MapIf(data.kind = "guarded", data)
AsDiagnostic(data) == MapIf(IsDiagnostic(data), data)
AsURIArray(data) == MapIf(AllOf(data, {"text", "uri"}), data)

(* asModelArray, mapModel: the entries of any object are taken for models; *)
(* their contents become text, objects of the guard's type, or objects.    *)
AsModelArray(data, content) ==
    LET Fits(c) == CASE content = "asString" -> TRUE
                     [] content = "as" -> c = "guarded"
                     [] OTHER -> c \in {"object", "guarded"}
        contents == IF data.kind = "models" THEN ToSet(data.elements) ELSE {}
    IN  IF IsObject(data) /\ \A c \in contents : Fits(c)
        THEN Mapped(data)
        ELSE Rejected(CouldNotMap)

IsSuccess(message) == message.type = "success"

(* patchModel: the result.                                                 *)
PatchModel(message) ==
    LET update == IF message.data.kind = "updateResult" THEN message.data.update ELSE NoUpdate
        patched == update.patch # "none" \/ update.listed
    IN  IF IsSuccess(message)
        THEN UpdateResult(TRUE, patched, IF patched THEN update ELSE NoUpdate)
        ELSE UpdateResult(FALSE, FALSE, NoUpdate)

(* Mutant: the first patch is taken for that of the model.                 *)
GetPatchFirst(patches, modeluri) == IF patches = <<>> THEN "none" ELSE patches[1].patch

(* getPatch                                                                *)
GetPatch(patches, modeluri) ==
    LET found == SelectInSeq(patches, LAMBDA p : p.modelUri = modeluri)
    IN  IF found = 0 THEN "none" ELSE patches[found].patch

(* The function patchModel of the result: whose patch is applied, if any;  *)
(* modeluri may be none.                                                   *)
PatchOf(update, modeluri) ==
    CASE modeluri = "none" -> update.patch
      [] modeluri # "none" /\ update.listed -> GetPatch(update.allPatches, modeluri)
      [] OTHER -> "throws"
----------------------------------------------------------------------------
(* An answer: status tells whether HTTP succeeded, body whether there was  *)
(* a message, a text or nothing at all.                                    *)
Answer(status, body, message) == [status |-> status, body |-> body, message |-> message]
NoMessage == Message("none", NoData)
Unanswered == Answer("failed", "nothing", NoMessage)

(* new ModelServerError(message): the text of its data.                    *)
ErrorText(message) == IF message.data = NoData THEN "" ELSE "the reason of the server"

(* Mutant: a response without data is preferred to the error.              *)
FailureTextOfResponse(answer) ==
    CASE answer.body = "message" -> ErrorText(answer.message)
      [] answer.body = "text" -> "the reason of the server"
      [] OTHER -> ""

(* A failed request: response.data is the message or its text, or empty,   *)
(* and then the error itself says why.                                     *)
FailureText(answer) ==
    CASE answer.body = "message" -> ErrorText(answer.message)
      [] answer.body = "text" -> "the reason of the server"
      [] OTHER -> "the reason of the failure"

(* The mapper a request was sent with; asModelArray has another inside.    *)
Map(mapper, message) ==
    LET data == message.data
    IN  CASE mapper.name = "isSuccess" -> Told(IsSuccess(message))
          [] mapper.name = "asString" -> Mapped(AsString(data))
          [] mapper.name = "asObject" -> AsObject(data)
          [] mapper.name = "as" -> As(data)
          [] mapper.name = "asDiagnostic" -> AsDiagnostic(data)
          [] mapper.name = "asURIArray" -> AsURIArray(data)
          [] mapper.name = "asModelArray" -> AsModelArray(data, mapper.content)
          [] mapper.name = "patchModel" -> PatchModel(message)

(* process.  An answer that is no message has neither type nor data.       *)
Process(answer, mapper) ==
    CASE answer.status = "failed" -> Rejected(FailureText(answer))
      [] answer.status = "ok" /\ answer.message.type = "error" -> Rejected(ErrorText(answer.message))
      [] OTHER -> Map(mapper, answer.message)
==============================================================================
