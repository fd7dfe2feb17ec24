----------------------------- MODULE RequestsV1 -----------------------------
(***************************************************************************)
(* The requests of ModelServerClient, the client of the first API, which   *)
(* TheiaBackendModelServerClient inherits.  Bodies are sent as they are.   *)
(***************************************************************************)
EXTENDS Requests

DefaultFormatV1 == FORMAT_JSON_V1
FormatOfV1(call) == IF IsFormat(call.second) THEN call.second ELSE DefaultFormatV1

(* createMapper: what is asked for in a format is got as text.             *)
CreateMapper(second) ==
    Mapper(CASE second = "none" -> "asObject"
             [] second = "guard" -> "as"
             [] OTHER -> "asString")

SendFormatted(call, method, path) ==
    Request(method, path, Params(call, FormatOfV1(call)), CreateMapper(call.second))

GetV1(call) == SendFormatted(call, "GET", ModelServerPaths.MODEL_CRUD)

(* getAll, with mapModel.                                                  *)
GetAllV1(call) ==
    Request("GET", ModelServerPaths.MODEL_CRUD, [format |-> FormatOfV1(call)],
            ModelsMapper(CreateMapper(call.second).name))

GetElementV1(call) == SendFormatted(call, "GET", ModelServerPaths.MODEL_ELEMENT)

Unencoded(request, call, carries) == WithBody(request, call.body, carries)

CreateV1(call) ==
    Unencoded(SendFormatted(call, "POST", ModelServerPaths.MODEL_CRUD), call, Carries("model", NoEdit))

UpdateV1(call) ==
    Unencoded(SendFormatted(call, "PATCH", ModelServerPaths.MODEL_CRUD), call, Carries("model", NoEdit))

EditV1(call) ==
    Unencoded(Request("PATCH", ModelServerPaths.EDIT, Params(call, DefaultFormatV1), Mapper("isSuccess")),
              call, Carries("command", call.edit))

SimpleRequestsV1 == ModelRequests("asString")

RequestV1(call) ==
    CASE call.op = "get" -> GetV1(call)
      [] call.op = "getAll" -> GetAllV1(call)
      [] call.op \in {"getElementById", "getElementByName"} -> GetElementV1(call)
      [] call.op = "create" -> CreateV1(call)
      [] call.op = "update" -> UpdateV1(call)
      [] call.op = "edit" -> EditV1(call)
      [] call.op = "subscribe" -> SubscriptionV1(call)
      [] call.op = "configureServer" -> ConfigureServer(call)
      [] call.op = "getUiSchema" -> GetUiSchema
      [] call.op \in DOMAIN ServerRequests -> SendServer(call)
      [] call.op \in DOMAIN SimpleRequestsV1 -> SendModel(call, SimpleRequestsV1)
=============================================================================
