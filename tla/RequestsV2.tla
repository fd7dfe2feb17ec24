----------------------------- MODULE RequestsV2 -----------------------------
(***************************************************************************)
(* The requests of ModelServerClientV2, with the edit of its subclass      *)
(* TheiaBackendModelServerClientV2, which is the client in a backend.      *)
(***************************************************************************)
EXTENDS Requests

CONSTANT AsJson(_, _)   \* what type-util makes of a value in a JSON format

DefaultFormatV2 == FORMAT_JSON_V2
OrDefault(format) == IF IsFormat(format) THEN format ELSE DefaultFormatV2

(* What follows on a guard or format: the format the request is made with, *)
(* and what its answer is mapped with.                                     *)
GuardedMapper(second) == Mapper(IF second = "guard" THEN "as" ELSE "asObject")

(* get: with a guard no default format is set.                             *)
GetV2(call) ==
    Request("GET", ModelServerPaths.MODEL_CRUD,
            Params(call, IF call.second = "guard" THEN call.third ELSE OrDefault(call.second)),
            GuardedMapper(call.second))

(* getAll                                                                  *)
GetAllV2(call) ==
    LET content == CASE call.second = "none" -> "asObject"
                     [] call.second = "guard" -> "as"
                     [] OTHER -> "asString"
    IN  Request("GET", ModelServerPaths.MODEL_CRUD, [format |-> OrDefault(call.second)],
                ModelsMapper(content))

(* Mutant: a format in the place of the guard is not seen.                 *)
FormatOfThird(call) == OrDefault(call.third)

(* getElementById, getElementByName, create and update: a format in the    *)
(* place of the guard wins over the one behind it.                         *)
FormatOf(call) == IF IsFormat(call.second) THEN call.second ELSE OrDefault(call.third)

GetElementV2(call) ==
    Request("GET", ModelServerPaths.MODEL_ELEMENT, Params(call, FormatOf(call)), GuardedMapper(call.second))

(* encodeRequestBody                                                       *)
Encode(body, format) ==
    CASE format = FORMAT_XMI /\ body.form # "object" -> body
      [] format \in JsonFormats /\ body.form \in {"object", "text"} ->
            [body EXCEPT !.tree = AsJson(@, format)]
      [] OTHER -> Unencodable

SendBody(call, method) ==
    WithBody(Request(method, ModelServerPaths.MODEL_CRUD, Params(call, FormatOf(call)),
                     GuardedMapper(call.second)),
             Encode(call.body, FormatOf(call)), Carries("model", NoEdit))

CreateV2(call) == SendBody(call, "POST")
UpdateV2(call) == SendBody(call, "PUT")

(* edit: a command is recognised by its prototype, and what is none is a   *)
(* patch, an array of operations or made one.  The message has a type and  *)
(* the command or array.  An empty patch makes no request.                 *)
IsInstance(edit) == edit.form = "command" /\ edit.instance
PatchMessage(tree, command) == Object("none", <<Datum, IF command THEN tree ELSE Array(<<tree>>)>>)

EditV2(call, format) ==
    LET command == IsInstance(call.edit)
        request == Request("PATCH", ModelServerPaths.MODEL_CRUD, Params(call, format), Mapper("patchModel"))
    IN  IF ~command /\ call.edit.form = "patch" /\ call.edit.operations = <<>>
        THEN AtOnce(UpdateResult(TRUE, TRUE, NoUpdate))
        ELSE WithBody(request, Encode([call.body EXCEPT !.tree = PatchMessage(@, command)], format),
                      Carries(IF command THEN "modelserver.emfcommand" ELSE "modelserver.patch", call.edit))

(* The edit of the backend client: a command gets a prototype, and the     *)
(* default format.                                                         *)
BackendEditV2(call) ==
    IF call.edit.form = "command" /\ IsCommand(call.edit.command)
    THEN EditV2([call EXCEPT !.edit = EnsureCommandPrototype(@)], DefaultFormatV2)
    ELSE EditV2(call, OrDefault(call.second))

(* counter of the example's client.                                        *)
Counter == Request("GET", "counter", [operation |-> "none", delta |-> "none"], Mapper("asObject"))

SimpleRequestsV2 == ModelRequests("patchModel")

RequestV2(call) ==
    CASE call.op = "get" -> GetV2(call)
      [] call.op = "getAll" -> GetAllV2(call)
      [] call.op \in {"getElementById", "getElementByName"} -> GetElementV2(call)
      [] call.op = "create" -> CreateV2(call)
      [] call.op = "update" -> UpdateV2(call)
      [] call.op = "edit" -> BackendEditV2(call)
      [] call.op = "subscribe" -> SubscriptionV2(call)
      [] call.op = "configureServer" -> ConfigureServer(call)
      [] call.op = "getUiSchema" -> GetUiSchema
      [] call.op = "counter" -> Counter
      [] call.op \in DOMAIN ServerRequests -> SendServer(call)
      [] call.op \in DOMAIN SimpleRequestsV2 -> SendModel(call, SimpleRequestsV2)
=============================================================================
