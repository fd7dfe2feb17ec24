----------------------------- MODULE ClientCalls -----------------------------
(***************************************************************************)
(* One call after the other of the clients of both API versions, by code   *)
(* in the backend (node) and by frontends over JSON-RPC, the test menu's   *)
(* among them: from its arguments to the request, what the server reads    *)
(* and does, its answer, and the result of the call.  Meanwhile others     *)
(* change the list of elements that calls remove from, of which the caller *)
(* has the copy it last got.                                               *)
(***************************************************************************)
EXTENDS RequestsV1, RequestsV2, TestMenu, PatchUtils

CONSTANTS
    Elements,        \* the elements the list may have
    Formats,         \* the formats that are asked for
    Models,          \* the models that are created and updated
    Bodies,          \* the bodies with which the encoding is tried
    AnswerData,      \* what the server may send as data
    Options          \* the options of subscriptions

(* No element is the root, or the 0 of a call that is about none; formats  *)
(* are told from guards; a patch goes by the name of the model it is for.  *)
ASSUME ElementsAssumption == Root \notin Elements
ASSUME FormatsAssumption == Formats \intersect {"none", "guard"} = {}
ASSUME BodiesAssumption ==
    \A b \in Models \union Bodies : b.form \in {"object", "text", "noJson"} /\ b = Body(b.form, b.tree)
ASSUME AnswerDataAssumption ==
    \A d \in AnswerData : d.kind = "updateResult" =>
        /\ d.update.listed \in BOOLEAN
        /\ d.update.patch \in {"main", "none"}
        /\ LET patches == d.update.allPatches
           IN  /\ patches \in Seq(Range(patches))
               /\ \A p \in Range(patches) : p.patch = p.modelUri

(* The query parameters of the server; the other options are the client's. *)
ServerParameters == {"modeluri", "format", "timeout", "livevalidation", "paths"}
ASSUME OptionsAssumption ==
    Options \subseteq ServerParameters \union {"listener", "errorWhenUnsuccessful"}

VARIABLES
    list,      \* the elements on the server, in order
    copy,      \* those of the model the caller got last
    call,      \* the call in progress: who makes it, with which API and arguments
    request,   \* what the client made of it
    effect,    \* what the server did
    answer,    \* what it answered
    outcome    \* what the caller got

listVars == <<list, copy>>
callVars == <<call, request, effect, answer, outcome>>
vars == <<listVars, callVars>>

NoCall == [caller |-> "nobody", api |-> "none", given |-> Call("none", NoUri)]
NoRequest == [kind |-> "none"]
NoEffect == [done |-> FALSE, meaning |-> Nothing, removed |-> {}, there |-> FALSE, stale |-> FALSE,
             seen |-> <<>>]
NotAnswered == Answer("pending", "nothing", NoMessage)
Pending == [kind |-> "pending"]

Idle == call = NoCall
given == call.given

CallsTypeOK ==
    /\ IsInjective(list) /\ Range(list) \subseteq Elements
    /\ IsInjective(copy) /\ Range(copy) \subseteq Elements
    /\ Idle \/ (call.caller \in {"node", "frontend"} /\ call.api \in {"v1", "v2"})
    /\ request.kind \in {"none", "request", "subscription", "thrown", "outcome"}
    /\ request.kind = "request" => request.body.form \in {"none", "object", "text", "noJson"}
    /\ effect.removed \subseteq Elements
    /\ outcome.kind \in {"pending", "resolved", "rejected", "thrown", "subscribed"}

Init ==
    /\ list = <<>> /\ copy = <<>>
    /\ call = NoCall /\ request = NoRequest /\ effect = NoEffect
    /\ answer = NotAnswered /\ outcome = Pending

----------------------------------------------------------------------------
(* The calls.                                                              *)

Uri1 == Uri("model", TRUE, "argument")
Plain(op) == Call(op, Uri1)

(* The overloads that take a format behind a guard; all take either.       *)
TakesBoth == [v1 |-> {"getElementByName"}, v2 |-> {"get", "getElementByName", "create", "update"}]
Optional(api, op) ==
    (({"none", "guard"} \union Formats) \X {"none"})
    \union (IF op \in TakesBoth[api] THEN {"guard"} \X Formats ELSE {})

With(c, optional) == [c EXCEPT !.second = optional[1], !.third = optional[2]]

Sending(op, b) == [Plain(op) EXCEPT !.body = b]

ReadCalls(api) ==
    UNION { { With(Plain(op), o) : o \in Optional(api, op) } :
            op \in {"get", "getAll", "getElementById", "getElementByName"} }
WriteCalls(api) ==
    UNION { { With(Sending(op, b), o) : o \in Optional(api, op) } : op \in {"create", "update"}, b \in Models }
ModelCalls(api) == ReadCalls(api) \union WriteCalls(api)

SimpleCalls ==
    { Plain(op) : op \in DOMAIN ServerRequests \union DOMAIN SimpleRequestsV2 }
    \union { Plain("getUiSchema"), Call("configureServer", Uri("workspace", TRUE, "object")) }

Edits ==
    LET values == { <<>> } \union { <<Value(k)>> : k \in {"data", "object", "reference"} }
        index == { <<>>, <<Index(0)>>, <<Index(1)>> }
    IN  { Setting(v) : v \in values } \union { Adding(v, i) : v \in values, i \in index }
        \union { Removing(<<Value("reference")>>), Both(SetName, AddObject), Custom("custom") }

(* How the server reads an operation (external): by the guards clients use.*)
ReadOperation(o) ==
    LET Kind(v) == Meaning(o.op, <<>>, <<Value(v)>>, <<>>)
        IsA(v) == IsAdd(o, {v}) \/ IsReplace(o, {v})
    IN  IF IsRemove(o)
        THEN Meaning("remove", <<>>, <<>>, <<>>)
        ELSE Kind(CHOOSE v \in {"data", "object", "reference"} : IsA(v))

PatchCall(operations, does, values) ==
    [Plain("edit") EXCEPT !.edit = PatchEdit(operations),
                          !.body = Body("object", Object("none", <<Datum, Datum, Object("$type", <<>>)>>)),
                          !.meaning = Meaning(does, <<>>, values, <<>>)]

Patches ==
    { PatchCall(<<Create>>, "add", <<Value("object")>>),
      PatchCall(<<Replace("data")>>, "replace", <<Value("data")>>),
      PatchCall(<<RemoveValueAt(0)>>, "remove", <<>>) }

CommandCalls == { EditCommand(Uri1, e) : e \in Edits }
FormattedCalls == { With(c, <<f, "none">>) : c \in Patches \union CommandCalls, f \in Formats }
PlainPatches ==
    { PatchCall(<<>>, "nothing", <<>>), PatchCall(<<Add>>, "add", <<Value("reference")>>) }
EditCalls(api) ==
    IF api = "v1" THEN CommandCalls ELSE CommandCalls \union FormattedCalls \union PlainPatches

Subscription(o, l) == [Plain("subscribe") EXCEPT !.options = o, !.listener = l]
SubscribeCalls == { Subscription(o, l) : o \in SUBSET Options, l \in BOOLEAN }

(* BOUND: the encoding is tried with create of the v2 client.              *)
EncodedCalls == { With(Sending("create", b), <<f, "none">>) : b \in Bodies, f \in Formats }

AllCalls ==
    [caller : {"node", "frontend"}, api : {"v1"},
     given : ModelCalls("v1") \union SimpleCalls \union EditCalls("v1") \union SubscribeCalls]
    \union [caller : {"node", "frontend"}, api : {"v2"},
            given : ModelCalls("v2") \union SimpleCalls \union EditCalls("v2") \union SubscribeCalls]
    \union [caller : {"node"}, api : {"v2"}, given : EncodedCalls]
    \union [caller : {"frontend"}, api : {"v2"}, given : MenuCommands(Patches)]

(* The ways to remove an element of the copy.                              *)
RemovalsOf(e) ==
    LET patches == { <<DeleteElement(e)>>, <<RemoveObject(e)>>, RemoveValue(copy, e),
                     <<RemoveValueAt(FindIndex(copy, e))>> }
    IN  { PatchCall(p, "remove", <<>>) : p \in patches \ {<<>>} }
        \union { EditCommand(Uri1, RemovingAt(<<Index(FindIndex(copy, e))>>)) }

RemovalCalls ==
    [caller : {"node", "frontend"}, api : {"v2"},
     given : UNION { { [c EXCEPT !.element = e] : c \in RemovalsOf(e) } : e \in Range(copy) }]

GetCall == [caller |-> "node", api |-> "v2", given |-> Plain("get")]
----------------------------------------------------------------------------
(* The client makes a request of a call, in the backend also of those that *)
(* come from a frontend; or the call ends at once.                         *)
ToClient(c) == IF c.caller = "frontend" THEN Received(c.given) ELSE c.given
ToCaller(c, result) == IF c.caller = "frontend" THEN Returned(result) ELSE result

RequestOf(c) == IF c.api = "v1" THEN RequestV1(ToClient(c)) ELSE RequestV2(ToClient(c))

EndsAtOnce(c, r) ==
    CASE r.kind = "request" -> Pending
      [] r.kind = "subscription" -> [kind |-> "subscribed"]
      [] r.kind = "outcome" -> ToCaller(c, r.outcome)
      [] r.kind = "thrown" -> IF c.caller = "frontend" THEN Rejected("thrown") ELSE [kind |-> "thrown"]

(* BOUND: one call at a time, and those that have to do with the list only *)
(* once there are elements.                                                *)
Make(c) ==
    /\ Idle
    /\ call' = c
    /\ request' = RequestOf(c)
    /\ outcome' = EndsAtOnce(c, request')
    /\ UNCHANGED <<listVars, effect, answer>>

AboutList == call = GetCall \/ given.element # 0

(* What the server makes of an edit (external).                            *)
ReadEdit(r) ==
    CASE r.carries.kind \in {"modelserver.emfcommand", "command"} -> Read(r.carries.edit.command)
      [] r.carries.kind = "modelserver.patch" /\ r.carries.edit.form = "patch" ->
            ReadOperation(r.carries.edit.operations[1])
      [] OTHER -> Nothing

IsEdit(r) == r.carries.kind \notin {"nothing", "model"}

RemovedBy(r) ==
    LET edit == r.carries.edit
    IN  IF edit.form = "command"
        THEN IF edit.command.type = "remove"
             THEN UNION { RemovedAt(list, i.index) : i \in Range(edit.command.indices) } ELSE {}
        ELSE UNION { Removes(list, o) : o \in Range(edit.operations) }

(* What the server may answer; BOUND: little to create and to calls about  *)
(* the list.                                                               *)
Little == AboutList \/ given.op = "create"
DataSent == IF Little THEN {Data("guarded")} ELSE AnswerData
MessagesOf(types) == { Message(t, d) : t \in types, d \in DataSent }
OkAnswers(types) == { Answer("ok", "message", m) : m \in MessagesOf(types) }
FailedAnswers == { Answer("failed", "message", m) : m \in MessagesOf({"error"}) }
TextAnswers == { Answer("ok", "text", NoMessage), Answer("failed", "text", NoMessage) }
Refusals ==
    FailedAnswers \union (IF Little THEN {} ELSE OkAnswers({"warning", "error"}) \union TextAnswers)

(* BOUND: an edit removes one element at most.                             *)
Without(l, removed) == RemoveFirstMatch(l, LAMBDA e : e \in removed)

Waiting == request.kind = "request" /\ answer = NotAnswered

(* The server does what it read, and its answer may be lost.               *)
ServerHandles ==
    /\ Waiting
    /\ IsEdit(request) => ReadEdit(request) # Nothing
    /\ LET removed == IF IsEdit(request) THEN RemovedBy(request) ELSE {}
       IN  /\ list' = Without(list, removed)
           /\ effect' = [done |-> TRUE, meaning |-> ReadEdit(request), removed |-> removed,
                         there |-> given.element \in Range(list), stale |-> copy # list,
                         seen |-> IF call = GetCall THEN list ELSE <<>>]
    /\ answer' \in OkAnswers({"success"}) \union {Unanswered}
    /\ UNCHANGED <<copy, call, request, outcome>>

ServerRefuses ==
    /\ Waiting
    /\ answer' \in Refusals \union {Unanswered}
    /\ UNCHANGED <<listVars, call, request, effect, outcome>>

(* process, and the way back.                                              *)
Ends ==
    /\ outcome = Pending /\ answer # NotAnswered
    /\ outcome' = ToCaller(call, Process(answer, request.mapper))
    /\ copy' = IF call = GetCall /\ effect.done /\ outcome'.kind = "resolved" THEN effect.seen ELSE copy
    /\ UNCHANGED <<list, call, request, effect, answer>>

Forget ==
    /\ outcome # Pending
    /\ call' = NoCall /\ request' = NoRequest /\ effect' = NoEffect
    /\ answer' = NotAnswered /\ outcome' = Pending
    /\ UNCHANGED listVars

(* Others add and remove elements.                                         *)
OthersChange ==
    /\ Idle \/ AboutList
    /\ \/ \E e \in Elements \ Range(list), i \in 1..(Len(list) + 1) : list' = InsertAt(list, i, e)
       \/ \E i \in DOMAIN list : list' = RemoveAt(list, i)
    /\ UNCHANGED <<copy, callVars>>

Next ==
    \/ \E c \in {GetCall} \union RemovalCalls : Make(c)
    \/ list = <<>> /\ copy = <<>> /\ \E c \in AllCalls : Make(c)
    \/ ServerHandles \/ ServerRefuses \/ Ends \/ Forget \/ OthersChange

Spec == Init /\ [][Next]_vars
----------------------------------------------------------------------------
FromFrontend == call.caller = "frontend"
Requested == request.kind = "request"
IsCommandEdit == given.edit.form = "command" /\ IsCommand(given.edit.command)

(* A request is made in the format the call asks for, the default one if   *)
(* it asks for none, and a guard checks its answer.  Except that: get with *)
(* a guard and no format asks for none; over RPC, where the guard is lost, *)
(* it forgets the format behind it; so does the v1 client behind any       *)
(* guard; the backend client drops the format of commands; and a guard     *)
(* from a frontend never checks anything.  The query of a subscription has *)
(* only parameters of the server, unless a listener is given to the v2     *)
(* client twice.                                                           *)
Default == IF call.api = "v1" THEN FORMAT_JSON_V1 ELSE FORMAT_JSON_V2
Wanted ==
    CASE IsFormat(given.second) -> given.second
      [] ~IsFormat(given.second) /\ IsFormat(given.third) -> given.third
      [] OTHER -> Default
FormatDropped ==
    \/ given.op = "get" /\ given.second = "guard" /\ call.api = "v2"
       /\ (IF FromFrontend THEN given.third \notin {"none", Default} ELSE given.third = "none")
    \/ call.api = "v1" /\ given.third \notin {"none", Default}
    \/ call.api = "v2" /\ IsCommandEdit /\ Wanted # Default

FormatAndGuardHonoured ==
    Requested =>
        /\ "format" \in DOMAIN request.params => (request.params.format # Wanted <=> FormatDropped)
        /\ "as" \in {request.mapper.name, request.mapper.content}
                <=> (given.second = "guard" /\ ~FromFrontend)

QueryIsServers ==
    request.kind = "subscription" =>
        (request.query \subseteq ServerParameters
            <=> ~(call.api = "v2" /\ given.listener /\ "listener" \in given.options))

OptionsHonoured == FormatAndGuardHonoured /\ QueryIsServers

(* What the body of a request of the v2 client is made of.                 *)
Original ==
    IF given.op = "edit"
    THEN PatchMessage(given.body.tree, request.carries.kind = "modelserver.emfcommand")
    ELSE given.body.tree

(* The server gets the model the call names, and reads an edit the way its *)
(* caller meant it.  Except for the index 0 of an add, objects added by a  *)
(* set, references added by an add, and compound commands of frontends.    *)
Misread ==
    LET command == given.edit.command
        Gives(kind) == \E v \in Range(given.meaning.values) : v.kind = kind
    IN  \/ command.type = "add" /\ (Index(0) \in Range(given.meaning.indices) \/ Gives("reference"))
        \/ command.type = "set" /\ Gives("object")
        \/ command.type = "compound" /\ call.api = "v2" /\ FromFrontend

CallArrives ==
    Requested =>
        /\ \A p \in DOMAIN request.params \intersect {"modeluri", "workspaceRoot"} :
                request.params[p] = given.uri.text
        /\ given.op = "edit" => (ReadEdit(request) # given.meaning <=> Misread)

(* The caller is told the truth.  Who is told of success has it: the       *)
(* server did what was asked, or nothing was asked of it; and who had it   *)
(* and got the answer is told.  A call the server failed says why, unless  *)
(* the message had no data; one it did not fail ends well or with what is  *)
(* wrong with the answer.  What was done may be told as a failure all the  *)
(* same, but only if the answer could not be mapped or got lost; then the  *)
(* caller hears of the failure of the transport, done or not.              *)
ToldSuccess ==
    /\ outcome.kind = "resolved"
    /\ outcome.value.kind \in {"boolean", "update"}
    /\ outcome.value.success
MakesNoDifference == given.op = "edit" /\ given.edit = PatchEdit(<<>>)

SuccessTold ==
    outcome.kind = "resolved" /\ outcome.value.kind \in {"boolean", "update"} =>
        (ToldSuccess <=> effect.done \/ MakesNoDifference)

Failed == answer.status = "failed" \/ answer.message.type = "error"
ErrorSaysWhy ==
    outcome.kind \in {"resolved", "rejected"} /\ Requested =>
        /\ Failed => outcome.kind = "rejected" /\ outcome.value # CouldNotMap
        /\ outcome = Rejected("") <=> (Failed /\ answer.body = "message" /\ answer.message.data = NoData)

LostAnswerTold ==
    outcome.kind \in {"resolved", "rejected"} /\ Requested =>
        /\ answer = Unanswered => outcome = Rejected("the reason of the failure")
        /\ effect.done /\ outcome.kind = "rejected" => answer = Unanswered \/ outcome = Rejected(CouldNotMap)

CallerToldTruth == SuccessTold /\ ErrorSaysWhy /\ LostAnswerTold

(* What a call removes is the element it was made for, or nothing, unless  *)
(* it was by an index in a copy that is not the list any more.             *)
ByIndex ==
    \/ given.edit.form = "command"
    \/ \E o \in Range(given.edit.operations) : o.path.feature
RemovesWhatWasMeant ==
    effect.done /\ given.element # 0 =>
        \/ effect.removed = {given.element}
        \/ effect.removed = {} /\ ~effect.there
        \/ ByIndex /\ effect.stale

(* The result of an edit patches a model with its own patch or leaves it   *)
(* alone, the latter only if it has no patch for it; without a model it    *)
(* knows the main model by its own patch only.  Asked for a model when the *)
(* answer lists none it throws; and in frontends it has no function.       *)
ModelsPatchedRight ==
    outcome.kind = "resolved" /\ outcome.value.kind = "update" /\ outcome.value.update # NoUpdate =>
        LET update == outcome.value.update
            Listed == { p.modelUri : p \in Range(update.allPatches) }
        IN  /\ outcome.value.patchable <=> ~FromFrontend
            /\ \A m \in {"main", "other", "unknown"} :
                    PatchOf(update, m) = CASE ~update.listed -> "throws"
                                           [] update.listed /\ m \in Listed -> m
                                           [] OTHER -> "none"
            /\ PatchOf(update, "none") \in {"main", "none"}
==============================================================================
