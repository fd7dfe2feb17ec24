------------------------------ MODULE Requests ------------------------------
(***************************************************************************)
(* What the clients of both API versions make a call into: an HTTP request *)
(* and the mapper its answer gets, an error, or at once a result.          *)
(*                                                                         *)
(* A call of a client has the arguments of all operations.  The optional   *)
(* ones are "none", "guard" for a type guard, or a format.  For the        *)
(* properties it knows what its edit means and which element it removes.   *)
(***************************************************************************)
EXTENDS RpcProxy, JsonValues, Mappers

ModelServerPaths ==
    [MODEL_URIS |-> "modeluris", MODEL_CRUD |-> "models", MODEL_ELEMENT |-> "modelelement",
     TYPE_SCHEMA |-> "typeschema", UI_SCHEMA |-> "uischema", SERVER_CONFIGURE |-> "server/configure",
     SERVER_PING |-> "server/ping", SUBSCRIPTION |-> "subscribe", EDIT |-> "edit", CLOSE |-> "close",
     SAVE |-> "save", SAVE_ALL |-> "saveall", UNDO |-> "undo", REDO |-> "redo",
     VALIDATION |-> "validation", VALIDATION_CONSTRAINTS |-> "validation/constraints"]

Call(op, uri) ==
    [op |-> op, uri |-> uri, second |-> "none", third |-> "none", body |-> NoBody, edit |-> NoEdit,
     options |-> {}, listener |-> FALSE, meaning |-> Nothing, element |-> 0]

IsFormat(argument) == argument \notin {"none", "guard"}

Mapper(name) == [name |-> name, content |-> "none"]
ModelsMapper(content) == [name |-> "asModelArray", content |-> content]

(* What the server can make of a body: a model, a command or a patch.      *)
Carries(kind, edit) == [kind |-> kind, edit |-> edit]

Request(method, path, params, mapper) ==
    [kind |-> "request", method |-> method, path |-> path, params |-> params,
     mapper |-> mapper, body |-> NoBody, carries |-> Carries("nothing", NoEdit)]

(* Mutant: sent all the same.                                              *)
WithBodyAnyway(request, body, carries) == [request EXCEPT !.body = body, !.carries = carries]

(* A body that cannot be encoded throws before anything is sent.           *)
WithBody(request, body, carries) ==
    IF body = Unencodable
    THEN [kind |-> "thrown"]
    ELSE [request EXCEPT !.body = body, !.carries = carries]

AtOnce(outcome) == [kind |-> "outcome", outcome |-> outcome]

(* toString of what is a URI, or has become a plain object.  The v1 client *)
(* gives URIs of models to the HTTP library, which is left to make texts.  *)
Text(uri) == IF uri.instance THEN uri.text ELSE "[object Object]"

(* getElementById and getElementByName differ in a parameter only.         *)
Params(call, format) ==
    LET model == Text(call.uri)
    IN  CASE call.op = "getElementById" ->
                [modeluri |-> model, elementid |-> "element", format |-> format]
          [] call.op = "getElementByName" ->
                [modeluri |-> model, elementname |-> "element", format |-> format]
          [] OTHER -> [modeluri |-> model, format |-> format]

ModelParam(call) == [modeluri |-> Text(call.uri)]
NoParams == <<>>

(* The calls that both clients make alike, save for undo and redo: their   *)
(* method, path and mapper.                                                *)
ModelRequests(of) ==
    [delete |-> <<"DELETE", ModelServerPaths.MODEL_CRUD, "isSuccess">>,
     close |-> <<"POST", ModelServerPaths.CLOSE, "isSuccess">>,
     save |-> <<"GET", ModelServerPaths.SAVE, "isSuccess">>,
     validate |-> <<"GET", ModelServerPaths.VALIDATION, "asDiagnostic">>,
     getValidationConstraints |-> <<"GET", ModelServerPaths.VALIDATION_CONSTRAINTS, "asString">>,
     getTypeSchema |-> <<"GET", ModelServerPaths.TYPE_SCHEMA, "asString">>,
     undo |-> <<"GET", ModelServerPaths.UNDO, of>>,
     redo |-> <<"GET", ModelServerPaths.REDO, of>>]

ServerRequests ==
    [getModelUris |-> <<"GET", ModelServerPaths.MODEL_URIS, "asURIArray">>,
     saveAll |-> <<"GET", ModelServerPaths.SAVE_ALL, "isSuccess">>,
     ping |-> <<"GET", ModelServerPaths.SERVER_PING, "isSuccess">>]

SendModel(call, requests) ==
    LET r == requests[call.op] IN Request(r[1], r[2], ModelParam(call), Mapper(r[3]))

SendServer(call) ==
    LET r == ServerRequests[call.op] IN Request(r[1], r[2], NoParams, Mapper(r[3]))

GetUiSchema == Request("GET", ModelServerPaths.UI_SCHEMA, [schemaname |-> "schema"], Mapper("asString"))

(* The workspace root travels in the body.                                 *)
ConfigureServer(call) ==
    Request("PUT", ModelServerPaths.SERVER_CONFIGURE, [workspaceRoot |-> Text(call.uri)], Mapper("isSuccess"))
----------------------------------------------------------------------------
(* createSubscriptionPath of both clients: the names in the query.  The    *)
(* options but one go there as they are; of the options that are no query  *)
(* parameters the v1 client takes out the listener.                        *)
QueryOf(options) == ({"modeluri", "format"} \union options) \ {"errorWhenUnsuccessful"}

SubscriptionQueryV1(options) == QueryOf(options \ {"listener"})
SubscriptionQueryV2(options) == QueryOf(options)

(* The backend client takes the listener from the options when it is given *)
(* none; otherwise it stays there.                                         *)
BackendOptions(call) ==
    IF call.listener THEN call.options ELSE call.options \ {"listener"}

SubscriptionV1(call) == [kind |-> "subscription", query |-> SubscriptionQueryV1(call.options)]
SubscriptionV2(call) == [kind |-> "subscription", query |-> SubscriptionQueryV2(BackendOptions(call))]
=============================================================================
