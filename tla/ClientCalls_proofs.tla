------------------------- MODULE ClientCalls_proofs -------------------------
(***************************************************************************)
(* Proofs about ClientCalls, in this order: every call that is made is     *)
(* well formed; what the request of a well-formed call says of it, for     *)
(* both clients; that a removal found in a copy removes what was meant or  *)
(* is told apart by that copy being old; the inductive invariant; what a   *)
(* call can end with; and the properties, of which those about edits,      *)
(* formats and bodies rest on what requests say, and those about results   *)
(* on what calls end with.  The conversion of bodies, AsJson, is any       *)
(* operator here.                                                          *)
(***************************************************************************)
EXTENDS ClientCalls, WellFoundedInduction, SequenceTheorems, TLAPS

----------------------------------------------------------------------------
(* The calls that are made.  What they have in common is their fields, ... *)

IsCall(g) ==
    /\ g = [op |-> g.op, uri |-> g.uri, second |-> g.second, third |-> g.third, body |-> g.body,
            edit |-> g.edit, options |-> g.options, listener |-> g.listener, meaning |-> g.meaning,
            element |-> g.element]
    /\ g.uri = Uri(g.uri.text, g.uri.instance, g.uri.at)
    /\ g.edit = [form |-> g.edit.form, instance |-> g.edit.instance, command |-> g.edit.command,
                 operations |-> g.edit.operations]
    /\ g.body = Body(g.body.form, g.body.tree)

ListOps == {"get", "getAll", "getElementById", "getElementByName"}
BodyOps == {"create", "update"}
ModelOps == {"delete", "close", "save", "validate", "getValidationConstraints", "getTypeSchema",
             "undo", "redo"}
ServerOps == {"getModelUris", "saveAll", "ping"}
OtherOps == {"edit", "subscribe", "configureServer", "getUiSchema"}
OpsV1 == ListOps \union BodyOps \union ModelOps \union ServerOps \union OtherOps

LEMMA Operations ==
    /\ DOMAIN SimpleRequestsV1 = ModelOps
    /\ DOMAIN SimpleRequestsV2 = ModelOps
    /\ DOMAIN ServerRequests = ServerOps
  BY DEF SimpleRequestsV1, SimpleRequestsV2, ModelRequests, ServerRequests, ModelOps, ServerOps

(* ... a URI where the operation takes one, ...                            *)
NamesModel(g) ==
    /\ g.uri.instance = TRUE
    /\ g.uri.at \in {"argument", "object"}
          \/ g.op \in ServerOps \union {"getAll", "getUiSchema", "counter"}

(* ... guards and formats where it takes those, ...                        *)
Asks(api, g) ==
    /\ g.second # "none" => g.op \in ListOps \union BodyOps \union {"edit"}
    /\ g.third # "none" => g.second = "guard" /\ g.third # "guard" /\ g.op \in TakesBoth[api]
    /\ g.op = "edit" => g.second # "guard" /\ (api = "v1" => g.second = "none")

(* ... and a body that the program can have.                               *)
HasBody(g) == g.body.form \in {"none", "object", "text", "noJson"}

(* The commands and patches of edits, with what is meant by them.          *)
Values == { <<>>, <<Value("data")>>, <<Value("object")>>, <<Value("reference")>> }
Places == { <<>> } \union { <<Index(i)>> : i \in Nat }
Sets == { Setting(v) : v \in Values }
Adds == { Adding(v, i) : v \in Values, i \in Places }
Compounds == { Both(SetName, SetName), Both(SetName, AddObject) }
Removals == { RemovingAt(<<Index(i)>>) : i \in Nat } \union { Removing(<<Value("reference")>>) }
Customs == { Custom("custom"), Custom("updateTaskName") }
MeantCommands == Sets \union Adds \union Compounds \union Removals \union Customs

PatchMeans(o, meaning) ==
    \/ o = Create /\ meaning = Meaning("add", <<>>, <<Value("object")>>, <<>>)
    \/ o = Add /\ meaning = Meaning("add", <<>>, <<Value("reference")>>, <<>>)
    \/ o = Replace("data") /\ meaning = Meaning("replace", <<>>, <<Value("data")>>, <<>>)
    \/ IsRemove(o) /\ meaning = Meaning("remove", <<>>, <<>>, <<>>)

EditsCommand(g) == \E m \in MeantCommands : g.edit = CommandEdit(m.command) /\ g.meaning = m.meaning
EditsPatch(g) == \E o : g.edit = PatchEdit(<<o>>) /\ PatchMeans(o, g.meaning)
EditsNothing(g) == g.edit = PatchEdit(<<>>) /\ g.meaning = Nothing

EditsWell(api, g) ==
    IF g.op = "edit"
    THEN EditsCommand(g) \/ (api = "v2" /\ (EditsPatch(g) \/ EditsNothing(g)))
    ELSE g.edit = NoEdit

(* Only options of subscriptions ...                                       *)
Subscribes(g) ==
    g.op = "subscribe" => g.options \subseteq ServerParameters \union {"listener", "errorWhenUnsuccessful"}

WellFormed(api, g) ==
    /\ IsCall(g)
    /\ g.op \in OpsV1 \/ (api = "v2" /\ g.op = "counter")
    /\ NamesModel(g) /\ Asks(api, g) /\ HasBody(g) /\ EditsWell(api, g) /\ Subscribes(g)

LEMMA CallRecord ==
    ASSUME NEW op, NEW uri, NEW second, NEW third, NEW body, NEW edit, NEW options, NEW listener,
           NEW meaning, NEW element, NEW g,
           g = [op |-> op, uri |-> uri, second |-> second, third |-> third, body |-> body,
                edit |-> edit, options |-> options, listener |-> listener, meaning |-> meaning,
                element |-> element],
           uri = Uri(uri.text, uri.instance, uri.at),
           edit = [form |-> edit.form, instance |-> edit.instance, command |-> edit.command,
                   operations |-> edit.operations],
           body = Body(body.form, body.tree)
    PROVE  /\ IsCall(g)
           /\ g.op = op /\ g.uri = uri /\ g.second = second /\ g.third = third /\ g.body = body
           /\ g.edit = edit /\ g.options = options /\ g.listener = listener
           /\ g.meaning = meaning /\ g.element = element
<1>1. /\ g.op = op /\ g.uri = uri /\ g.second = second /\ g.third = third /\ g.body = body
      /\ g.edit = edit /\ g.options = options /\ g.listener = listener
      /\ g.meaning = meaning /\ g.element = element
  OBVIOUS
<1> QED BY <1>1, Zenon DEF IsCall

LEMMA Parts ==
    /\ \A text, instance, at : LET uri == Uri(text, instance, at) IN
            uri = Uri(uri.text, uri.instance, uri.at)
    /\ \A form, tree : LET body == Body(form, tree) IN body = Body(body.form, body.tree)
    /\ \A form, command, operations : LET edit == EditOf(form, command, operations) IN
            edit = [form |-> edit.form, instance |-> edit.instance, command |-> edit.command,
                    operations |-> edit.operations]
  BY DEF Uri, Body, EditOf

OfModel(uri) == uri = Uri(uri.text, TRUE, "argument")

LEMMA ModelUri == ASSUME NEW uri, OfModel(uri)
                  PROVE  /\ uri = Uri(uri.text, uri.instance, uri.at)
                         /\ uri.instance = TRUE /\ uri.at = "argument"
<1>1. uri.instance = TRUE /\ uri.at = "argument"
  BY DEF OfModel, Uri
<1> QED BY <1>1, Zenon DEF OfModel

(* Calls with nothing but a URI.                                           *)
LEMMA UriCalls ==
    ASSUME NEW api \in {"v1", "v2"}, NEW op, NEW text, NEW at \in {"argument", "object", "nowhere"},
           op \in (OpsV1 \ {"edit"}) \/ (api = "v2" /\ op = "counter"),
           at = "nowhere" => op \in ServerOps \union {"getAll", "getUiSchema", "counter"},
           NEW g, g = Call(op, Uri(text, TRUE, at))
    PROVE  WellFormed(api, g) /\ g.element = 0
<1>1. /\ IsCall(g)
      /\ g.op = op /\ g.uri = Uri(text, TRUE, at) /\ g.second = "none" /\ g.third = "none"
      /\ g.body = NoBody /\ g.edit = NoEdit /\ g.options = {} /\ g.element = 0
  <2> DEFINE uri == Uri(text, TRUE, at)
  <2>1. uri = Uri(uri.text, uri.instance, uri.at)
    BY Parts
  <2>2. /\ NoBody = Body(NoBody.form, NoBody.tree)
        /\ NoEdit = [form |-> NoEdit.form, instance |-> NoEdit.instance, command |-> NoEdit.command,
                     operations |-> NoEdit.operations]
    BY Parts, Zenon DEF NoBody, NoEdit
  <2>3. g = [op |-> op, uri |-> uri, second |-> "none", third |-> "none", body |-> NoBody,
             edit |-> NoEdit, options |-> {}, listener |-> FALSE, meaning |-> Nothing, element |-> 0]
    BY DEF Call
  <2> HIDE DEF uri
  <2>4. /\ IsCall(g)
        /\ g.op = op /\ g.uri = uri /\ g.second = "none" /\ g.third = "none"
        /\ g.body = NoBody /\ g.edit = NoEdit /\ g.options = {} /\ g.element = 0
    BY ONLY <2>1, <2>2, <2>3, CallRecord
  <2> QED BY <2>4 DEF uri
<1>2. NamesModel(g)
  BY <1>1 DEF NamesModel, Uri
<1>3. op # "edit"
  OBVIOUS
<1>4. Asks(api, g) /\ EditsWell(api, g)
  BY <1>1, <1>3 DEF Asks, EditsWell
<1>5. HasBody(g)
  <2>1. NoBody.form = "none"
    BY DEF NoBody, Body
  <2> QED BY <1>1, <2>1 DEF HasBody
<1>6. Subscribes(g)
  BY <1>1 DEF Subscribes
<1> QED BY <1>1, <1>2, <1>4, <1>5, <1>6 DEF WellFormed

LEMMA OptionalCalls ==
    ASSUME NEW api \in {"v1", "v2"}, NEW op \in ListOps \union BodyOps, NEW o,
           /\ o[1] = "none" \/ o[1] = "guard" \/ IsFormat(o[1])
           /\ o[2] # "none" => o[1] = "guard" /\ o[2] # "guard" /\ op \in TakesBoth[api],
           NEW b, b = Body(b.form, b.tree), b.form \in {"none", "object", "text", "noJson"},
           NEW uri, OfModel(uri),
           NEW g, g = With([Call(op, uri) EXCEPT !.body = b], o)
    PROVE  WellFormed(api, g) /\ g.element = 0
<1>1. /\ IsCall(g)
      /\ g.op = op /\ g.uri = uri /\ g.second = o[1] /\ g.third = o[2]
      /\ g.body = b /\ g.edit = NoEdit /\ g.options = {} /\ g.element = 0
  <2>1. uri = Uri(uri.text, uri.instance, uri.at)
    BY ModelUri
  <2>2. NoEdit = [form |-> NoEdit.form, instance |-> NoEdit.instance, command |-> NoEdit.command,
                  operations |-> NoEdit.operations]
    BY Parts, Zenon DEF NoEdit
  <2>3. g = [op |-> op, uri |-> uri, second |-> o[1], third |-> o[2], body |-> b, edit |-> NoEdit,
             options |-> {}, listener |-> FALSE, meaning |-> Nothing, element |-> 0]
    BY DEF With, Call
  <2> QED BY ONLY <2>1, <2>2, <2>3, CallRecord, b = Body(b.form, b.tree)
<1>2. NamesModel(g)
  BY <1>1, ModelUri DEF NamesModel
<1>3. op # "edit" /\ op # "subscribe"
  BY DEF ListOps, BodyOps
<1>4. Asks(api, g) /\ HasBody(g) /\ EditsWell(api, g) /\ Subscribes(g)
  BY <1>1, <1>3 DEF Asks, HasBody, EditsWell, Subscribes
<1> QED BY <1>1, <1>2, <1>4 DEF WellFormed, OpsV1

(* Calls of edit.                                                          *)
Editing(uri, second, edit, meaning, tree, element) ==
    [op |-> "edit", uri |-> uri, second |-> second, third |-> "none", body |-> Body("object", tree),
     edit |-> edit, options |-> {}, listener |-> FALSE, meaning |-> meaning, element |-> element]

LEMMA EditingWell ==
    ASSUME NEW api \in {"v1", "v2"}, NEW second, second = "none" \/ (api = "v2" /\ IsFormat(second)),
           NEW uri, OfModel(uri), NEW edit, edit = EditOf(edit.form, edit.command, edit.operations),
           NEW meaning, NEW tree, NEW element,
           NEW g, g = Editing(uri, second, edit, meaning, tree, element),
           EditsWell(api, g)
    PROVE  WellFormed(api, g) /\ g.element = element
<1>1. /\ IsCall(g)
      /\ g.op = "edit" /\ g.uri = uri /\ g.second = second /\ g.third = "none"
      /\ g.body = Body("object", tree) /\ g.edit = edit /\ g.options = {} /\ g.meaning = meaning
      /\ g.element = element
  <2> DEFINE body == Body("object", tree)
  <2>1. uri = Uri(uri.text, uri.instance, uri.at)
    BY ModelUri
  <2>2. /\ edit = [form |-> edit.form, instance |-> edit.instance, command |-> edit.command,
                  operations |-> edit.operations]
        /\ body = Body(body.form, body.tree)
    BY Parts, Zenon
  <2>3. g = [op |-> "edit", uri |-> uri, second |-> second, third |-> "none", body |-> body, edit |-> edit,
             options |-> {}, listener |-> FALSE, meaning |-> meaning, element |-> element]
    BY DEF Editing
  <2> HIDE DEF body
  <2>4. /\ IsCall(g)
        /\ g.op = "edit" /\ g.uri = uri /\ g.second = second /\ g.third = "none"
        /\ g.body = body /\ g.edit = edit /\ g.options = {} /\ g.meaning = meaning /\ g.element = element
    BY ONLY <2>1, <2>2, <2>3, CallRecord
  <2> QED BY <2>4 DEF body
<1>2. NamesModel(g)
  BY <1>1, ModelUri DEF NamesModel
<1>3. Asks(api, g)
  BY <1>1 DEF Asks, IsFormat
<1>4. HasBody(g)
  <2>1. Body("object", tree).form = "object"
    BY DEF Body
  <2> QED BY <1>1, <2>1 DEF HasBody
<1>5. Subscribes(g)
  BY <1>1 DEF Subscribes
<1> QED BY <1>1, <1>2, <1>3, <1>4, <1>5 DEF WellFormed, OpsV1, OtherOps

LEMMA EditingCommand ==
    ASSUME NEW api \in {"v1", "v2"}, NEW second, second = "none" \/ (api = "v2" /\ IsFormat(second)),
           NEW uri, OfModel(uri), NEW meant \in MeantCommands, NEW element,
           NEW g, g = Editing(uri, second, CommandEdit(meant.command), meant.meaning, CommandTree, element)
    PROVE  WellFormed(api, g) /\ g.element = element
<1>1. EditsWell(api, g)
  <2>1. g.op = "edit" /\ g.edit = CommandEdit(meant.command) /\ g.meaning = meant.meaning
    BY DEF Editing
  <2> QED BY <2>1, Zenon DEF EditsWell, EditsCommand
<1> DEFINE edit == CommandEdit(meant.command)
<1>2. edit = EditOf(edit.form, edit.command, edit.operations)
  BY DEF CommandEdit, EditOf
<1> HIDE DEF edit
<1>3. g = Editing(uri, second, edit, meant.meaning, CommandTree, element)
  BY DEF edit
<1> QED BY <1>1, <1>2, <1>3, EditingWell

PatchTree == Object("none", <<Datum, Datum, Object("$type", <<>>)>>)

LEMMA EditingPatch ==
    ASSUME NEW second, second = "none" \/ IsFormat(second),
           NEW uri, OfModel(uri), NEW operations, NEW meaning, NEW element,
           \/ \E o : operations = <<o>> /\ PatchMeans(o, meaning)
           \/ operations = <<>> /\ meaning = Nothing,
           NEW g, g = Editing(uri, second, PatchEdit(operations), meaning, PatchTree, element)
    PROVE  WellFormed("v2", g) /\ g.element = element
<1>1. EditsWell("v2", g)
  <2>1. g.op = "edit" /\ g.edit = PatchEdit(operations) /\ g.meaning = meaning
    BY DEF Editing
  <2> QED BY <2>1, Zenon DEF EditsWell, EditsPatch, EditsNothing
<1> DEFINE edit == PatchEdit(operations)
<1>2. edit = EditOf(edit.form, edit.command, edit.operations)
  BY DEF PatchEdit, EditOf
<1> HIDE DEF edit
<1>3. g = Editing(uri, second, edit, meaning, PatchTree, element)
  BY DEF edit
<1> QED BY <1>1, <1>2, <1>3, EditingWell

(* The expressions that make them.                                         *)
LEMMA Expressions ==
    /\ \A uri, meant :
            EditCommand(uri, meant)
                = Editing(uri, "none", CommandEdit(meant.command), meant.meaning, CommandTree, 0)
    /\ \A operations, does, values :
            PatchCall(operations, does, values)
                = Editing(Uri1, "none", PatchEdit(operations), Meaning(does, <<>>, values, <<>>), PatchTree, 0)
<1>2. ASSUME NEW v, NEW edit, NEW meaning, NEW tree, NEW g,
             g = [Call("edit", v) EXCEPT !.edit = edit, !.meaning = meaning, !.body = Body("object", tree)]
      PROVE  g = Editing(v, "none", edit, meaning, tree, 0)
  BY <1>2 DEF Call, Editing
<1>3. ASSUME NEW v, NEW edit, NEW meaning, NEW tree, NEW g,
             g = [Call("edit", v) EXCEPT !.edit = edit, !.body = Body("object", tree), !.meaning = meaning]
      PROVE  g = Editing(v, "none", edit, meaning, tree, 0)
  BY <1>3 DEF Call, Editing
<1> QED BY <1>2, <1>3, Zenon DEF EditCommand, PatchCall, Plain, PatchTree

LEMMA Variants ==
    ASSUME NEW v, NEW edit, NEW meaning, NEW tree, NEW c,
           c = Editing(v, "none", edit, meaning, tree, 0), NEW g
    PROVE  /\ \A f : g = With(c, <<f, "none">>) => g = Editing(v, f, edit, meaning, tree, 0)
           /\ \A e : g = [c EXCEPT !.element = e] => g = Editing(v, "none", edit, meaning, tree, e)
           /\ \A uri : g = [c EXCEPT !.uri = uri] => g = Editing(uri, "none", edit, meaning, tree, 0)
<1> DEFINE made == [op |-> "edit", uri |-> v, second |-> "none", third |-> "none",
                    body |-> Body("object", tree), edit |-> edit, options |-> {}, listener |-> FALSE,
                    meaning |-> meaning, element |-> 0]
<1>1. c = made
  BY Zenon DEF Editing
<1>2. ASSUME NEW f, g = With(c, <<f, "none">>) PROVE g = Editing(v, f, edit, meaning, tree, 0)
  <2>1. <<f, "none">>[1] = f /\ <<f, "none">>[2] = "none"
    OBVIOUS
  <2>2. g = [made EXCEPT !.second = f, !.third = "none"]
    BY <1>1, <1>2, <2>1, Zenon DEF With
  <2> QED BY ONLY <2>2 DEF Editing
<1>3. ASSUME NEW e, g = [c EXCEPT !.element = e] PROVE g = Editing(v, "none", edit, meaning, tree, e)
  <2>1. g = [made EXCEPT !.element = e]
    BY <1>1, <1>3, Zenon
  <2> QED BY ONLY <2>1 DEF Editing
<1>4. ASSUME NEW uri, g = [c EXCEPT !.uri = uri] PROVE g = Editing(uri, "none", edit, meaning, tree, 0)
  <2>1. g = [made EXCEPT !.uri = uri]
    BY <1>1, <1>4, Zenon
  <2> QED BY ONLY <2>1 DEF Editing
<1> QED BY <1>2, <1>3, <1>4

----------------------------------------------------------------------------
(* All calls are well formed.                                              *)

Made(c) ==
    /\ c.caller \in {"node", "frontend"} /\ c.api \in {"v1", "v2"}
    /\ WellFormed(c.api, c.given)

LEMMA UriOfModel == OfModel(Uri1) /\ \A text : OfModel(Model(text))
  BY DEF OfModel, Uri1, Model, Uri

LEMMA ModelCallsWell ==
    ASSUME NEW api \in {"v1", "v2"}, NEW g \in ModelCalls(api)
    PROVE  WellFormed(api, g) /\ g.element = 0
<1>1. ASSUME NEW op, NEW o \in Optional(api, op)
      PROVE  /\ o[1] = "none" \/ o[1] = "guard" \/ IsFormat(o[1])
             /\ o[2] # "none" => o[1] = "guard" /\ o[2] # "guard" /\ op \in TakesBoth[api]
  BY FormatsAssumption DEF Optional, IsFormat
<1>2. CASE \E op \in ListOps : \E o \in Optional(api, op) : g = With(Plain(op), o)
  <2>0. PICK op \in ListOps : \E o \in Optional(api, op) : g = With(Plain(op), o)
    BY <1>2
  <2>1. PICK o \in Optional(api, op) : g = With(Plain(op), o)
    BY <2>0
  <2>2. ASSUME NEW p, p = [Call(op, Uri1) EXCEPT !.body = NoBody]
        PROVE  p = Plain(op)
    BY <2>2 DEF Plain, Call
  <2>3. g = With([Call(op, Uri1) EXCEPT !.body = NoBody], o)
    BY <2>1, <2>2, Zenon
  <2>4. NoBody = Body(NoBody.form, NoBody.tree) /\ NoBody.form = "none"
    BY DEF NoBody, Body
  <2> QED BY <1>1, <2>3, <2>4, UriOfModel, OptionalCalls
<1>3. CASE \E op \in BodyOps, b \in Models : \E o \in Optional(api, op) : g = With(Sending(op, b), o)
  <2>0. PICK op \in BodyOps, b \in Models : \E o \in Optional(api, op) : g = With(Sending(op, b), o)
    BY <1>3
  <2>1. PICK o \in Optional(api, op) : g = With(Sending(op, b), o)
    BY <2>0
  <2>2. b = Body(b.form, b.tree) /\ b.form \in {"none", "object", "text", "noJson"}
    BY BodiesAssumption, Zenon
  <2>3. g = With([Call(op, Uri1) EXCEPT !.body = b], o)
    BY <2>1, Zenon DEF Sending, Plain
  <2> QED BY <1>1, <2>3, <2>2, UriOfModel, OptionalCalls
<1>5. CASE g \in ReadCalls(api)
  BY <1>2, <1>5 DEF ReadCalls, ListOps
<1>6. CASE g \in WriteCalls(api)
  BY <1>3, <1>6 DEF WriteCalls, BodyOps
<1> QED BY <1>5, <1>6 DEF ModelCalls

LEMMA SimpleCallsWell ==
    ASSUME NEW api \in {"v1", "v2"}, NEW g \in SimpleCalls
    PROVE  WellFormed(api, g) /\ g.element = 0
<1>1. CASE \E op \in ServerOps \union ModelOps : g = Plain(op)
  <2>1. PICK op \in ServerOps \union ModelOps : g = Call(op, Uri("model", TRUE, "argument"))
    BY <1>1 DEF Plain, Uri1
  <2>2. op \in OpsV1 \ {"edit"}
    BY DEF OpsV1, ServerOps, ModelOps
  <2> QED BY <2>1, <2>2, UriCalls
<1>2. CASE g = Plain("getUiSchema")
  <2>1. g = Call("getUiSchema", Uri("model", TRUE, "argument"))
    BY <1>2 DEF Plain, Uri1
  <2>2. "getUiSchema" \in OpsV1 \ {"edit"}
    BY DEF OpsV1, OtherOps
  <2> QED BY <2>1, <2>2, UriCalls
<1>3. CASE g = Call("configureServer", Uri("workspace", TRUE, "object"))
  <2>1. "configureServer" \in OpsV1 \ {"edit"}
    BY DEF OpsV1, OtherOps
  <2> QED BY <1>3, <2>1, UriCalls
<1> QED BY <1>1, <1>2, <1>3, Operations, Zenon DEF SimpleCalls

LEMMA SubscriptionCalls ==
    ASSUME NEW api \in {"v1", "v2"}, NEW uri, OfModel(uri), NEW listener,
           NEW options, options \subseteq ServerParameters \union {"listener", "errorWhenUnsuccessful"},
           NEW g, g = [Call("subscribe", uri) EXCEPT !.options = options, !.listener = listener]
    PROVE  WellFormed(api, g) /\ g.element = 0
<1>1. g = [op |-> "subscribe", uri |-> uri, second |-> "none", third |-> "none", body |-> NoBody,
           edit |-> NoEdit, options |-> options, listener |-> listener, meaning |-> Nothing, element |-> 0]
  BY DEF Call
<1>2. /\ NoBody = Body(NoBody.form, NoBody.tree)
      /\ NoEdit = [form |-> NoEdit.form, instance |-> NoEdit.instance, command |-> NoEdit.command,
                   operations |-> NoEdit.operations]
  BY Parts, Zenon DEF NoBody, NoEdit
<1>3. /\ IsCall(g)
      /\ g.op = "subscribe" /\ g.uri = uri /\ g.second = "none" /\ g.third = "none"
      /\ g.body = NoBody /\ g.edit = NoEdit /\ g.options = options /\ g.element = 0
  <2>1. uri = Uri(uri.text, uri.instance, uri.at)
    BY ModelUri
  <2> QED BY ONLY <1>1, <1>2, <2>1, CallRecord
<1>4. NamesModel(g) /\ Asks(api, g) /\ EditsWell(api, g) /\ Subscribes(g)
  BY <1>3, ModelUri DEF NamesModel, Asks, EditsWell, Subscribes
<1>5. HasBody(g)
  <2>1. NoBody.form = "none"
    BY DEF NoBody, Body
  <2> QED BY <1>3, <2>1 DEF HasBody
<1> QED BY <1>3, <1>4, <1>5 DEF WellFormed, OpsV1, OtherOps

LEMMA SubscribeCallsWell ==
    ASSUME NEW api \in {"v1", "v2"}, NEW g \in SubscribeCalls
    PROVE  WellFormed(api, g) /\ g.element = 0
<1>1. PICK o \in SUBSET Options, l \in BOOLEAN : g = Subscription(o, l)
  BY DEF SubscribeCalls
<1>2. o \subseteq ServerParameters \union {"listener", "errorWhenUnsuccessful"}
  BY OptionsAssumption
<1>3. g = [Call("subscribe", Uri1) EXCEPT !.options = o, !.listener = l]
  BY <1>1, Zenon DEF Subscription, Plain
<1> QED BY <1>2, <1>3, UriOfModel, SubscriptionCalls

LEMMA EncodedCallsWell ==
    ASSUME NEW g \in EncodedCalls
    PROVE  WellFormed("v2", g) /\ g.element = 0
<1>1. PICK b \in Bodies, f \in Formats : g = With(Sending("create", b), <<f, "none">>)
  BY DEF EncodedCalls
<1> DEFINE o == <<f, "none">>
<1>2. o[1] = f /\ o[2] = "none" /\ IsFormat(f)
  BY FormatsAssumption DEF IsFormat
<1>3. b = Body(b.form, b.tree) /\ b.form \in {"none", "object", "text", "noJson"}
  BY BodiesAssumption, Zenon
<1>4. g = With([Call("create", Uri1) EXCEPT !.body = b], o)
  BY <1>1, Zenon DEF Sending, Plain
<1> HIDE DEF o
<1> QED BY <1>2, <1>3, <1>4, UriOfModel, OptionalCalls DEF BodyOps

LEMMA KnownEdits ==
    /\ Edits \subseteq MeantCommands
    /\ {SetName, AddObject, RemoveIndex(0), RemoveIndex(5), Both(SetName, SetName)} \subseteq MeantCommands
<1>1. /\ \A v \in Values : Setting(v) \in MeantCommands
      /\ \A v \in Values, i \in Places : Adding(v, i) \in MeantCommands
  BY DEF MeantCommands, Sets, Adds
<1>2. /\ <<>> \in Values /\ \A k \in {"data", "object", "reference"} : <<Value(k)>> \in Values
      /\ {<<>>, <<Index(0)>>, <<Index(1)>>} \subseteq Places
  BY DEF Values, Places
<1>3. SetName \in Sets /\ AddObject \in Adds
  BY <1>2 DEF SetName, AddObject, Sets, Adds
<1>5. \A i \in Nat : RemoveIndex(i) \in MeantCommands
  BY Zenon DEF MeantCommands, Removals, RemoveIndex
<1>6. Removing(<<Value("reference")>>) \in MeantCommands /\ Custom("custom") \in MeantCommands
  BY Zenon DEF MeantCommands, Removals, Customs
<1>7. Both(SetName, SetName) \in MeantCommands /\ Both(SetName, AddObject) \in MeantCommands
  BY Zenon DEF MeantCommands, Compounds
<1>8. SetName \in MeantCommands /\ AddObject \in MeantCommands
  BY <1>3, Zenon DEF MeantCommands
<1>9. ASSUME NEW e \in Edits PROVE e \in MeantCommands
  <2>1. \/ \E v \in Values : e = Setting(v)
        \/ \E v \in Values, i \in Places : e = Adding(v, i)
        \/ e \in {Removing(<<Value("reference")>>), Both(SetName, AddObject), Custom("custom")}
    BY <1>2 DEF Edits
  <2> QED BY <1>1, <1>6, <1>7, <2>1
<1> QED BY <1>5, <1>7, <1>8, <1>9

LEMMA PatchesMean ==
    ASSUME NEW p \in Patches
    PROVE  \E operations, does, values :
              /\ p = PatchCall(operations, does, values)
              /\ \E o : operations = <<o>> /\ PatchMeans(o, Meaning(does, <<>>, values, <<>>))
<1>1. IsRemove(RemoveValueAt(0))
  BY DEF IsRemove, RemoveValueAt, Operation
<1>2. CASE p = PatchCall(<<Create>>, "add", <<Value("object")>>)
  BY <1>2, Zenon DEF PatchMeans
<1>3. CASE p = PatchCall(<<Replace("data")>>, "replace", <<Value("data")>>)
  BY <1>3, Zenon DEF PatchMeans
<1>4. CASE p = PatchCall(<<RemoveValueAt(0)>>, "remove", <<>>)
  BY <1>1, <1>4, Zenon DEF PatchMeans
<1> QED BY <1>2, <1>3, <1>4, Zenon DEF Patches

LEMMA EditCallsWell ==
    ASSUME NEW api \in {"v1", "v2"}, NEW g \in EditCalls(api)
    PROVE  WellFormed(api, g) /\ g.element = 0
<1>1. CASE \E e \in Edits : g = EditCommand(Uri1, e)
  <2>1. PICK e \in MeantCommands : g = EditCommand(Uri1, e)
    BY <1>1, KnownEdits
  <2>2. g = Editing(Uri1, "none", CommandEdit(e.command), e.meaning, CommandTree, 0)
    BY <2>1, Expressions, Zenon
  <2> QED BY <2>2, UriOfModel, EditingCommand
<1>2. CASE api = "v2" /\ \E e \in Edits, f \in Formats : g = With(EditCommand(Uri1, e), <<f, "none">>)
  <2>1. PICK e \in MeantCommands, f \in Formats : g = With(EditCommand(Uri1, e), <<f, "none">>)
    BY <1>2, KnownEdits
  <2> DEFINE c == EditCommand(Uri1, e)
  <2>2. c = Editing(Uri1, "none", CommandEdit(e.command), e.meaning, CommandTree, 0)
    BY Expressions, Zenon
  <2>3. g = Editing(Uri1, f, CommandEdit(e.command), e.meaning, CommandTree, 0)
    <3> HIDE DEF c
    <3> QED BY <2>1, <2>2, Variants DEF c
  <2>4. IsFormat(f)
    BY FormatsAssumption DEF IsFormat
  <2> QED BY <1>2, <2>3, <2>4, UriOfModel, EditingCommand
<1>3. CASE api = "v2" /\ \E p \in Patches, f \in Formats : g = With(p, <<f, "none">>)
  <2>1. PICK p \in Patches, f \in Formats : g = With(p, <<f, "none">>)
    BY <1>3
  <2>2. IsFormat(f)
    BY FormatsAssumption DEF IsFormat
  <2>3. PICK operations, does, values :
            /\ p = PatchCall(operations, does, values)
            /\ \E o : operations = <<o>> /\ PatchMeans(o, Meaning(does, <<>>, values, <<>>))
    BY Zenon, PatchesMean
  <2>4. p = Editing(Uri1, "none", PatchEdit(operations), Meaning(does, <<>>, values, <<>>), PatchTree, 0)
    BY <2>3, Expressions, Zenon
  <2>5. g = Editing(Uri1, f, PatchEdit(operations), Meaning(does, <<>>, values, <<>>), PatchTree, 0)
    BY <2>1, <2>4, Variants
  <2> QED BY <1>3, <2>2, <2>3, <2>5, UriOfModel, EditingPatch
<1>4. CASE api = "v2" /\ g = PatchCall(<<>>, "nothing", <<>>)
  <2>1. g = Editing(Uri1, "none", PatchEdit(<<>>), Meaning("nothing", <<>>, <<>>, <<>>), PatchTree, 0)
    BY <1>4, Expressions, Zenon
  <2> QED BY <1>4, <2>1, UriOfModel, EditingPatch DEF Nothing
<1>5. CASE api = "v2" /\ g = PatchCall(<<Add>>, "add", <<Value("reference")>>)
  <2>1. g = Editing(Uri1, "none", PatchEdit(<<Add>>), Meaning("add", <<>>, <<Value("reference")>>, <<>>),
                    PatchTree, 0)
    BY <1>5, Expressions, Zenon
  <2>2. PatchMeans(Add, Meaning("add", <<>>, <<Value("reference")>>, <<>>))
    BY Zenon DEF PatchMeans
  <2> QED BY <1>5, <2>1, <2>2, UriOfModel, EditingPatch
<1>6. g \in CommandCalls \/ (api = "v2" /\ (g \in FormattedCalls \/ g \in PlainPatches))
  BY DEF EditCalls
<1>7. \/ \E e \in Edits : g = EditCommand(Uri1, e)
      \/ api = "v2" /\ \E e \in Edits, f \in Formats : g = With(EditCommand(Uri1, e), <<f, "none">>)
      \/ api = "v2" /\ \E p \in Patches, f \in Formats : g = With(p, <<f, "none">>)
      \/ api = "v2" /\ g = PatchCall(<<>>, "nothing", <<>>)
      \/ api = "v2" /\ g = PatchCall(<<Add>>, "add", <<Value("reference")>>)
  BY <1>6 DEF CommandCalls, FormattedCalls, PlainPatches
<1> QED BY <1>1, <1>2, <1>3, <1>4, <1>5, <1>7

LEMMA GuardedCall ==
    ASSUME NEW api \in {"v1", "v2"}, NEW op \in ListOps, NEW uri, OfModel(uri),
           NEW a, a = "guard" \/ IsFormat(a),
           NEW g, g = [Call(op, uri) EXCEPT !.second = a]
    PROVE  WellFormed(api, g) /\ g.element = 0
<1> DEFINE o == <<a, "none">>
           asked == [op |-> op, uri |-> uri, second |-> o[1], third |-> o[2], body |-> NoBody,
                     edit |-> NoEdit, options |-> {}, listener |-> FALSE, meaning |-> Nothing, element |-> 0]
<1>1. o[1] = a /\ o[2] = "none"
  OBVIOUS
<1> HIDE DEF o
<1>2. ASSUME NEW h, h = With([Call(op, uri) EXCEPT !.body = NoBody], o) PROVE h = asked
  BY <1>2 DEF With, Call
<1>3. g = asked
  BY <1>1 DEF Call
<1>4. g = With([Call(op, uri) EXCEPT !.body = NoBody], o)
  BY ONLY <1>2, <1>3, Zenon
<1>5. NoBody = Body(NoBody.form, NoBody.tree) /\ NoBody.form = "none"
  BY DEF NoBody, Body
<1>6. OfModel(uri) /\ op \in ListOps \union BodyOps /\ api \in {"v1", "v2"} /\ (a = "guard" \/ IsFormat(a))
  OBVIOUS
<1> HIDE DEF asked
<1> QED BY ONLY <1>1, <1>4, <1>5, <1>6, OptionalCalls

LEMMA OneUpdate ==
    ASSUME NEW api \in {"v1", "v2"}, NEW uri, OfModel(uri), NEW tree,
           NEW g, g = [Call("update", uri) EXCEPT !.body = Body("object", tree)]
    PROVE  WellFormed(api, g) /\ g.element = 0
<1> DEFINE o == <<"none", "none">>
           b == Body("object", tree)
<1>1. o[1] = "none" /\ o[2] = "none"
  OBVIOUS
<1>2. b = Body(b.form, b.tree) /\ b.form = "object"
  BY DEF Body
<1> HIDE DEF o, b
<1> DEFINE asked == [op |-> "update", uri |-> uri, second |-> o[1], third |-> o[2], body |-> b,
                     edit |-> NoEdit, options |-> {}, listener |-> FALSE, meaning |-> Nothing, element |-> 0]
<1>3. ASSUME NEW h, h = With([Call("update", uri) EXCEPT !.body = b], o) PROVE h = asked
  BY <1>3 DEF With, Call
<1>4. g = [Call("update", uri) EXCEPT !.body = b]
  BY Zenon DEF b
<1>5. g = asked
  BY <1>1, <1>4 DEF Call
<1>6. g = With([Call("update", uri) EXCEPT !.body = b], o)
  BY ONLY <1>3, <1>5, Zenon
<1>7. OfModel(uri) /\ "update" \in ListOps \union BodyOps /\ api \in {"v1", "v2"}
  BY DEF BodyOps
<1> HIDE DEF asked
<1> QED BY ONLY <1>1, <1>2, <1>6, <1>7, OptionalCalls

LEMMA SubscribingCall ==
    ASSUME NEW api \in {"v1", "v2"}, NEW uri, OfModel(uri),
           NEW options, options \subseteq ServerParameters \union {"listener", "errorWhenUnsuccessful"},
           NEW g, g = Subscribing(uri, options)
    PROVE  WellFormed(api, g) /\ g.element = 0
<1> DEFINE asked == [op |-> "subscribe", uri |-> uri, second |-> "none", third |-> "none", body |-> NoBody,
                     edit |-> NoEdit, options |-> options, listener |-> FALSE, meaning |-> Nothing,
                     element |-> 0]
<1>1. ASSUME NEW h, h = [Call("subscribe", uri) EXCEPT !.options = options, !.listener = FALSE] PROVE h = asked
  BY <1>1 DEF Call
<1>2. g = asked
  BY DEF Subscribing, Call
<1>3. g = [Call("subscribe", uri) EXCEPT !.options = options, !.listener = FALSE]
  BY ONLY <1>1, <1>2, Zenon
<1>4. /\ OfModel(uri) /\ api \in {"v1", "v2"}
      /\ options \subseteq ServerParameters \union {"listener", "errorWhenUnsuccessful"}
  OBVIOUS
<1> HIDE DEF asked
<1> QED BY ONLY <1>3, <1>4, SubscriptionCalls

LEMMA OneCommand ==
    ASSUME NEW api \in {"v1", "v2"}, NEW uri, OfModel(uri), NEW meant \in MeantCommands,
           NEW g, g = EditCommand(uri, meant)
    PROVE  WellFormed(api, g) /\ g.element = 0
<1>1. g = Editing(uri, "none", CommandEdit(meant.command), meant.meaning, CommandTree, 0)
  BY Expressions, Zenon
<1> QED BY <1>1, EditingCommand

LEMMA ModelOpCall ==
    ASSUME NEW api \in {"v1", "v2"}, NEW uri, OfModel(uri), NEW op \in ListOps \union ModelOps,
           NEW g, g = Call(op, uri)
    PROVE  WellFormed(api, g) /\ g.element = 0
<1>1. g = Call(op, Uri(uri.text, TRUE, "argument"))
  BY Zenon DEF OfModel
<1>2. op \in OpsV1 \ {"edit"}
  BY DEF ListOps, ModelOps, OpsV1
<1> DEFINE text == uri.text
<1> HIDE DEF text
<1>3. g = Call(op, Uri(text, TRUE, "argument"))
  BY <1>1 DEF text
<1> QED BY <1>2, <1>3, UriCalls

LEMMA ServerOpCall ==
    ASSUME NEW g, NEW op \in ServerOps \union {"getAll", "getUiSchema", "counter"}, g = Call(op, NoUri)
    PROVE  WellFormed("v2", g) /\ g.element = 0
<1>1. g = Call(op, Uri("none", TRUE, "nowhere"))
  BY DEF NoUri
<1>2. op \in OpsV1 \ {"edit"} \/ op = "counter"
  BY DEF ServerOps, ListOps, OtherOps, OpsV1
<1> QED BY <1>1, <1>2, UriCalls

LEMMA OnModelWell ==
    ASSUME NEW uri, OfModel(uri), NEW g \in OnModel(uri)
    PROVE  WellFormed("v2", g) /\ g.element = 0
<1>1. CASE \E op \in ListOps \union ModelOps : g = Call(op, uri)
  BY <1>1, ModelOpCall
<1>2. CASE g = EditCommand(uri, SetName) \/ g = EditCommand(uri, AddObject)
  BY <1>2, KnownEdits, OneCommand
<1>3. CASE g = Subscribing(uri, {"livevalidation"})
  <2>1. {"livevalidation"} \subseteq ServerParameters \union {"listener", "errorWhenUnsuccessful"}
    BY DEF ServerParameters
  <2> QED BY <1>3, <2>1, SubscribingCall
<1>4. \/ g \in Each2(uri, {"getElementById", "getElementByName", "undo", "redo", "save", "close", "validate",
                           "getValidationConstraints"})
      \/ g = EditCommand(uri, SetName) \/ g = EditCommand(uri, AddObject)
      \/ g = Subscribing(uri, {"livevalidation"})
  BY Zenon DEF OnModel
<1>5. ASSUME g \in Each2(uri, {"getElementById", "getElementByName", "undo", "redo", "save", "close", "validate",
                              "getValidationConstraints"})
      PROVE  \E op \in ListOps \union ModelOps : g = Call(op, uri)
  BY <1>5 DEF Each2, ListOps, ModelOps
<1> QED BY <1>1, <1>2, <1>3, <1>4, <1>5

LEMMA MenuWell ==
    ASSUME NEW g \in MenuCommands(Patches)
    PROVE  WellFormed("v2", g) /\ g.element = 0
<1> DEFINE Well(h) == WellFormed("v2", h) /\ h.element = 0
           allowed == ServerParameters \union {"listener", "errorWhenUnsuccessful"}
<1>1. /\ {"errorWhenUnsuccessful"} \subseteq allowed
      /\ {"timeout"} \subseteq allowed
  BY DEF ServerParameters
<1>2. ASSUME NEW uri, OfModel(uri), NEW h
      PROVE  /\ h \in OnModel(uri) => Well(h)
             /\ h = Call("get", uri) => Well(h)
             /\ \A meant \in MeantCommands : h = EditCommand(uri, meant) => Well(h)
             /\ \A options \in SUBSET allowed : h = Subscribing(uri, options) => Well(h)
             /\ \A a : (a = "guard" \/ IsFormat(a)) /\ h = [Call("get", uri) EXCEPT !.second = a] => Well(h)
  <2>1. h \in OnModel(uri) => Well(h)
    BY <1>2, OnModelWell
  <2>2. h = Call("get", uri) => Well(h)
    BY <1>2, ModelOpCall DEF ListOps
  <2>3. \A meant \in MeantCommands : h = EditCommand(uri, meant) => Well(h)
    BY <1>2, OneCommand
  <2>4. \A options \in SUBSET allowed : h = Subscribing(uri, options) => Well(h)
    BY <1>2, SubscribingCall
  <2>5. ASSUME NEW a, a = "guard" \/ IsFormat(a), h = [Call("get", uri) EXCEPT !.second = a]
        PROVE  Well(h)
    BY <1>2, <2>5, GuardedCall DEF ListOps
  <2> QED BY <2>1, <2>2, <2>3, <2>4, <2>5
<1>3. CASE g \in ModelServerCommands
  <2>1. CASE g \in Each2(NoUri, {"ping", "getAll", "getModelUris", "saveAll", "getUiSchema"})
    <3>1. \E op \in ServerOps \union {"getAll", "getUiSchema", "counter"} : g = Call(op, NoUri)
      BY <2>1 DEF Each2, ServerOps
    <3> QED BY <3>1, ServerOpCall
  <2>2. CASE g = Call("getTypeSchema", CoffeeEcore)
    BY <2>2, UriOfModel, ModelOpCall DEF CoffeeEcore, ModelOps
  <2> QED BY <1>3, <2>1, <2>2, Zenon DEF ModelServerCommands
<1>4. CASE g \in SuperBrewerCoffeeCommands
  <2> DEFINE uri == SuperBrewerCoffee
  <2>1. OfModel(uri)
    BY UriOfModel DEF SuperBrewerCoffee
  <2>2. IsFormat("coffee")
    BY DEF IsFormat
  <2>3. \/ g \in OnModel(uri)
        \/ g = Call("get", uri)
        \/ g = [Call("get", uri) EXCEPT !.second = "coffee"]
        \/ g = EditCommand(uri, RemoveIndex(0))
        \/ g = [Call("update", uri) EXCEPT !.body = Body("object", SuperBrewer)]
        \/ g = Subscribing(uri, {"errorWhenUnsuccessful"})
    BY <1>4, Zenon DEF SuperBrewerCoffeeCommands
  <2>4. CASE g = [Call("update", uri) EXCEPT !.body = Body("object", SuperBrewer)]
    BY <2>1, <2>4, OneUpdate
  <2>5. CASE g = [Call("get", uri) EXCEPT !.second = "coffee"]
    BY <1>2, <2>1, <2>2, <2>5, Zenon
  <2>6. CASE \/ g \in OnModel(uri) \/ g = Call("get", uri) \/ g = EditCommand(uri, RemoveIndex(0))
             \/ g = Subscribing(uri, {"errorWhenUnsuccessful"})
    <3> HIDE DEF uri
    <3> QED BY <1>1, <1>2, <2>1, <2>6, KnownEdits
  <2> QED BY <2>3, <2>4, <2>5, <2>6, Zenon
<1>5. CASE g \in CoffeeEcoreCommands
  <2> DEFINE uri == CoffeeEcore
  <2>1. OfModel(uri)
    BY UriOfModel DEF CoffeeEcore
  <2>2. \/ g \in OnModel(uri)
        \/ g = [Call("get", uri) EXCEPT !.second = "guard"]
        \/ g = EditCommand(uri, Both(SetName, SetName))
        \/ g = EditCommand(uri, RemoveIndex(5))
        \/ g = Subscribing(uri, {"timeout"})
    BY <1>5, Zenon DEF CoffeeEcoreCommands
  <2>3. CASE g = [Call("get", uri) EXCEPT !.second = "guard"]
    BY <1>2, <2>1, <2>3, Zenon
  <2>4. CASE \/ g \in OnModel(uri) \/ g = EditCommand(uri, Both(SetName, SetName))
             \/ g = EditCommand(uri, RemoveIndex(5)) \/ g = Subscribing(uri, {"timeout"})
    <3> HIDE DEF uri
    <3> QED BY <1>1, <1>2, <2>1, <2>4, KnownEdits
  <2> QED BY <2>2, <2>3, <2>4, Zenon
<1>6. CASE g \in SuperBrewerJsonCommands(Patches)
  <2> DEFINE uri == SuperBrewerJson
  <2>1. OfModel(uri)
    BY UriOfModel DEF SuperBrewerJson
  <2>2. CASE \E p \in Patches : g = [p EXCEPT !.uri = uri]
    <3>1. PICK p \in Patches : g = [p EXCEPT !.uri = uri]
      BY <2>2
    <3>2. PICK operations, does, values :
              /\ p = PatchCall(operations, does, values)
              /\ \E o : operations = <<o>> /\ PatchMeans(o, Meaning(does, <<>>, values, <<>>))
      BY Zenon, PatchesMean
    <3>3. p = Editing(Uri1, "none", PatchEdit(operations), Meaning(does, <<>>, values, <<>>), PatchTree, 0)
      BY <3>2, Expressions, Zenon
    <3> HIDE DEF uri
    <3>4. g = Editing(uri, "none", PatchEdit(operations), Meaning(does, <<>>, values, <<>>), PatchTree, 0)
      BY <3>1, <3>3, Variants
    <3> QED BY <2>1, <3>2, <3>4, EditingPatch
  <2>3. \/ g \in OnModel(uri)
        \/ g = Call("get", uri)
        \/ g = EditCommand(uri, RemoveIndex(0))
        \/ g = EditCommand(uri, Custom("updateTaskName"))
        \/ g = Subscribing(uri, {"timeout"})
        \/ \E p \in Patches : g = [p EXCEPT !.uri = uri]
    BY <1>6, Zenon DEF SuperBrewerJsonCommands
  <2>4. Custom("updateTaskName") \in MeantCommands
    BY Zenon DEF MeantCommands, Customs
  <2>5. CASE \/ g \in OnModel(uri) \/ g = Call("get", uri) \/ g = EditCommand(uri, RemoveIndex(0))
             \/ g = EditCommand(uri, Custom("updateTaskName")) \/ g = Subscribing(uri, {"timeout"})
    <3> HIDE DEF uri
    <3> QED BY <1>1, <1>2, <2>1, <2>4, <2>5, KnownEdits
  <2> QED BY <2>2, <2>3, <2>5, Zenon
<1>7. CASE g \in CounterCommands
  <2>1. g = Call("counter", NoUri)
    BY <1>7 DEF CounterCommands, Each2
  <2> QED BY <2>1, ServerOpCall
<1> QED BY <1>3, <1>4, <1>5, <1>6, <1>7, Zenon DEF MenuCommands

----------------------------------------------------------------------------
(* Lists of elements.                                                      *)

LEMMA LeastOf ==
    ASSUME NEW S, S \subseteq Nat, S # {}, NEW m, m = Min(S)
    PROVE  m \in S /\ \A y \in S : m <= y
<1>1. PICK x \in S : \A y \in S : ~(<<y, x>> \in OpToRel(<, Nat))
  BY NatLessThanWellFounded, WFMin, Zenon
<1>2. \A y \in S : ~(y < x)
  BY <1>1 DEF OpToRel
<1>3. \E n \in S : \A y \in S : n <= y
  BY <1>2
<1> QED BY <1>3 DEF Min

IsList(l) == l \in Seq(Elements) /\ IsInjective(l)

LEMMA EmptyList == IsList(<<>>)
<1>1. <<>> \in Seq(Elements)
  OBVIOUS
<1>2. IsInjective(<<>>)
  BY DEF IsInjective
<1> QED BY <1>1, <1>2, Zenon DEF IsList

LEMMA FindIndexFinds ==
    ASSUME NEW l \in Seq(Elements), NEW e \in Range(l), NEW n, n = FindIndex(l, e)
    PROVE  n \in Nat /\ n + 1 \in DOMAIN l /\ l[n + 1] = e
<1> DEFINE I == { i \in 1..Len(l) : l[i] = e }
           m == SelectInSeq(l, LAMBDA x : x = e)
<1>1. n = m - 1
  BY DEF FindIndex
<1>2. m = IF I # {} THEN Min(I) ELSE 0
  BY DEF SelectInSeq
<1>3. I # {} /\ I \subseteq Nat
  BY DEF Range
<1> HIDE DEF m
<1>4. m \in I
  <2> HIDE DEF I
  <2> QED BY <1>2, <1>3, LeastOf
<1> QED BY <1>1, <1>4

LEMMA RemoveKeepsList ==
    ASSUME NEW l, IsList(l), NEW i \in 1..Len(l), NEW new, new = RemoveAt(l, i)
    PROVE  IsList(new)
<1> DEFINE a == SubSeq(l, 1, i - 1)
           b == SubSeq(l, i + 1, Len(l))
<1>0. l \in Seq(Elements) /\ Len(l) \in Nat /\ i \in Int /\ DOMAIN l = 1..Len(l)
  BY DEF IsList
<1>1. /\ a \in Seq(Elements) /\ Len(a) = i - 1 /\ \A j \in 1..(i - 1) : a[j] = l[j]
  BY <1>0, SubSeqProperties
<1>2. /\ b \in Seq(Elements) /\ Len(b) = Len(l) - i /\ \A j \in 1..(Len(l) - i) : b[j] = l[j + i]
  <2>1. i + 1 \in Int /\ Len(l) \in Int /\ \A j \in (i + 1)..Len(l) : l[j] \in Elements
    BY <1>0
  <2>2. /\ b \in Seq(Elements) /\ Len(b) = IF i + 1 <= Len(l) THEN Len(l) - (i + 1) + 1 ELSE 0
        /\ \A j \in 1..(Len(l) - (i + 1) + 1) : b[j] = l[(i + 1) + j - 1]
    <3> HIDE DEF b
    <3> QED BY <2>1, SubSeqProperties DEF b
  <2>3. Len(b) = Len(l) - i
    <3> HIDE DEF a, b
    <3>1. \A n \in Nat : i \in 1..n => (IF i + 1 <= n THEN n - (i + 1) + 1 ELSE 0) = n - i
      BY <1>0
    <3> QED BY <1>0, <2>2, <3>1
  <2>4. \A j \in 1..(Len(l) - i) : j \in 1..(Len(l) - (i + 1) + 1) /\ (i + 1) + j - 1 = j + i
    BY <1>0
  <2> QED BY <2>2, <2>3, <2>4
<1>3. new = a \o b
  BY DEF RemoveAt
<1> HIDE DEF a, b
<1>4. /\ new \in Seq(Elements) /\ Len(new) = Len(l) - 1
      /\ \A j \in 1..(Len(l) - 1) : new[j] = l[IF j < i THEN j ELSE j + 1]
  <2>1. /\ new \in Seq(Elements) /\ Len(new) = Len(l) - 1
        /\ \A j \in 1..(Len(l) - 1) : new[j] = IF j <= i - 1 THEN a[j] ELSE b[j - (i - 1)]
    <3>1. /\ new \in Seq(Elements) /\ Len(new) = Len(a) + Len(b)
          /\ \A j \in 1..(Len(a) + Len(b)) : new[j] = IF j <= Len(a) THEN a[j] ELSE b[j - Len(a)]
      BY ONLY <1>1, <1>2, <1>3, ConcatProperties
    <3>2. Len(a) + Len(b) = Len(l) - 1 /\ Len(a) = i - 1
      BY <1>0, <1>1, <1>2
    <3> QED BY <3>1, <3>2
  <2>2. ASSUME NEW j \in 1..(Len(l) - 1) PROVE new[j] = l[IF j < i THEN j ELSE j + 1]
    <3>1. CASE j < i
      BY <1>0, <1>1, <2>1, <3>1
    <3>2. CASE ~(j < i)
      <4>1. j - (i - 1) \in 1..(Len(l) - i) /\ (j - (i - 1)) + i = j + 1
        BY <1>0, <3>2
      <4> QED BY <1>0, <1>2, <2>1, <3>2, <4>1
    <3> QED BY <3>1, <3>2
  <2> QED BY <2>1, <2>2
<1>5. IsInjective(new)
  <2>1. DOMAIN new = 1..(Len(l) - 1)
    BY <1>4
  <2>2. ASSUME NEW j \in 1..(Len(l) - 1), NEW k \in 1..(Len(l) - 1), new[j] = new[k] PROVE j = k
    <3> DEFINE x == IF j < i THEN j ELSE j + 1
               y == IF k < i THEN k ELSE k + 1
    <3>1. x \in DOMAIN l /\ y \in DOMAIN l
      BY <1>0
    <3>2. l[x] = l[y]
      BY <1>4, <2>2
    <3>3. x = y
      <4> HIDE DEF x, y
      <4> QED BY <3>1, <3>2 DEF IsList, IsInjective
    <3> QED BY <1>0, <3>3
  <2> QED BY <2>1, <2>2 DEF IsInjective
<1> QED BY <1>4, <1>5 DEF IsList

LEMMA InsertKeepsList ==
    ASSUME NEW l, IsList(l), NEW i \in 1..(Len(l) + 1), NEW e \in Elements, e \notin Range(l),
           NEW new, new = InsertAt(l, i, e)
    PROVE  IsList(new)
<1> DEFINE a == SubSeq(l, 1, i - 1)
           b == SubSeq(l, i, Len(l))
           c == a \o <<e>>
<1>0. l \in Seq(Elements) /\ Len(l) \in Nat /\ i \in Int /\ DOMAIN l = 1..Len(l)
  BY DEF IsList
<1>1. /\ a \in Seq(Elements) /\ Len(a) = i - 1 /\ \A j \in 1..(i - 1) : a[j] = l[j]
  BY <1>0, SubSeqProperties
<1>2. /\ b \in Seq(Elements) /\ Len(b) = Len(l) + 1 - i /\ \A j \in 1..(Len(l) + 1 - i) : b[j] = l[j + i - 1]
  BY <1>0, SubSeqProperties
<1>3. new = (a \o <<e>>) \o b
  BY DEF InsertAt
<1>4. <<e>> \in Seq(Elements) /\ Len(<<e>>) = 1 /\ <<e>>[1] = e
  OBVIOUS
<1> HIDE DEF a, b
<1>5. /\ c \in Seq(Elements) /\ Len(c) = i
      /\ \A j \in 1..i : c[j] = IF j <= i - 1 THEN a[j] ELSE <<e>>[j - (i - 1)]
  BY <1>0, <1>1, <1>4, ConcatProperties
<1>6. \A j \in 1..i : c[j] = IF j < i THEN l[j] ELSE e
  <2>1. ASSUME NEW j \in 1..i PROVE c[j] = IF j < i THEN l[j] ELSE e
    <3>1. CASE j < i
      BY <1>0, <1>1, <1>5, <3>1
    <3>2. CASE j = i
      <4>1. j - (i - 1) = 1 /\ ~(j <= i - 1)
        BY <1>0, <3>2
      <4> QED BY <1>4, <1>5, <3>2, <4>1
    <3>3. j < i \/ j = i
      BY <1>0
    <3> QED BY <3>1, <3>2, <3>3
  <2> QED BY <2>1
<1>7. new = c \o b
  BY <1>3
<1> HIDE DEF c
<1>8. /\ new \in Seq(Elements) /\ Len(new) = Len(l) + 1
      /\ \A j \in 1..(Len(l) + 1) : new[j] = IF j = i THEN e ELSE l[IF j < i THEN j ELSE j - 1]
  <2>1. /\ new \in Seq(Elements) /\ Len(new) = Len(l) + 1
        /\ \A j \in 1..(Len(l) + 1) : new[j] = IF j <= i THEN c[j] ELSE b[j - i]
    <3>1. /\ new \in Seq(Elements) /\ Len(new) = Len(c) + Len(b)
          /\ \A j \in 1..(Len(c) + Len(b)) : new[j] = IF j <= Len(c) THEN c[j] ELSE b[j - Len(c)]
      BY ONLY <1>2, <1>5, <1>7, ConcatProperties
    <3>2. Len(c) + Len(b) = Len(l) + 1 /\ Len(c) = i
      BY <1>0, <1>2, <1>5
    <3> QED BY <3>1, <3>2
  <2>2. ASSUME NEW j \in 1..(Len(l) + 1)
        PROVE  new[j] = IF j = i THEN e ELSE l[IF j < i THEN j ELSE j - 1]
    <3>1. CASE j <= i
      BY <1>0, <1>6, <2>1, <3>1
    <3>2. CASE ~(j <= i)
      <4>1. j - i \in 1..(Len(l) + 1 - i) /\ (j - i) + i - 1 = j - 1
        BY <1>0, <3>2
      <4> QED BY <1>0, <1>2, <2>1, <3>2, <4>1
    <3> QED BY <3>1, <3>2
  <2> QED BY <2>1, <2>2
<1>9. IsInjective(new)
  <2>1. DOMAIN new = 1..(Len(l) + 1)
    BY <1>8
  <2>2. ASSUME NEW j \in 1..(Len(l) + 1), NEW k \in 1..(Len(l) + 1), new[j] = new[k] PROVE j = k
    <3> DEFINE x == IF j < i THEN j ELSE j - 1
               y == IF k < i THEN k ELSE k - 1
    <3>1. /\ j # i => x \in DOMAIN l /\ l[x] \in Range(l) /\ new[j] = l[x]
          /\ k # i => y \in DOMAIN l /\ l[y] \in Range(l) /\ new[k] = l[y]
      <4>1. (j # i => x \in DOMAIN l) /\ (k # i => y \in DOMAIN l)
        BY <1>0
      <4>2. (j # i => new[j] = l[x]) /\ (k # i => new[k] = l[y])
        BY <1>8
      <4> HIDE DEF x, y
      <4> QED BY <4>1, <4>2 DEF Range
    <3>2. (j = i => new[j] = e) /\ (k = i => new[k] = e)
      BY <1>8
    <3>3. CASE j = i \/ k = i
      <4> HIDE DEF x, y
      <4> QED BY <2>2, <3>1, <3>2, <3>3
    <3>4. CASE j # i /\ k # i
      <4>1. x = y
        <5> HIDE DEF x, y
        <5> QED BY <2>2, <3>1, <3>4 DEF IsList, IsInjective
      <4> QED BY <1>0, <3>4, <4>1
    <3> QED BY <3>3, <3>4
  <2> QED BY <2>1, <2>2 DEF IsInjective
<1> QED BY <1>8, <1>9 DEF IsList

(* What an edit removes is one element, if any.                            *)
LEMMA WithoutKeepsList ==
    ASSUME NEW l, IsList(l), NEW removed, NEW new, new = Without(l, removed)
    PROVE  IsList(new)
<1> DEFINE I == { i \in 1..Len(l) : l[i] \in removed }
           m == SelectInSeq(l, LAMBDA e : e \in removed)
<1>1. m = IF I # {} THEN Min(I) ELSE 0
  BY DEF SelectInSeq
<1>2. new = IF \E i \in 1..Len(l) : l[i] \in removed THEN RemoveAt(l, m) ELSE l
  BY DEF Without, RemoveFirstMatch
<1> HIDE DEF m
<1>3. CASE I = {}
  BY <1>2, <1>3
<1>4. CASE I # {}
  <2>1. I \subseteq Nat
    OBVIOUS
  <2>2. m \in I
    <3> HIDE DEF I
    <3> QED BY <1>1, <1>4, <2>1, LeastOf
  <2>3. new = RemoveAt(l, m) /\ m \in 1..Len(l)
    BY <1>2, <1>4, <2>2
  <2> QED BY <2>3, RemoveKeepsList
<1> QED BY <1>3, <1>4

----------------------------------------------------------------------------
(* All calls, those to remove an element of the copy among them.           *)

(* The edit of a call that removes an element, by the object or by its     *)
(* index in a list.                                                        *)
RemovesObject(g) == g.edit = PatchEdit(<<DeleteElement(g.element)>>)
RemovesIndex(g, i) ==
    \/ g.edit = PatchEdit(<<RemoveValueAt(i)>>)
    \/ g.edit = CommandEdit(RemovingAt(<<Index(i)>>).command)

RemovesFrom(l, g) ==
    /\ g.op = "edit" /\ g.element \in Range(l)
    /\ \/ RemovesObject(g)
       \/ \E i \in Nat : i + 1 \in DOMAIN l /\ l[i + 1] = g.element /\ RemovesIndex(g, i)

LEMMA RemovalsWell ==
    ASSUME NEW l \in Seq(Elements), NEW e \in Range(l), NEW g, NEW i \in Nat,
           i + 1 \in DOMAIN l, l[i + 1] = e,
           \/ g = Editing(Uri1, "none", PatchEdit(<<DeleteElement(e)>>), Meaning("remove", <<>>, <<>>, <<>>),
                          PatchTree, e)
           \/ g = Editing(Uri1, "none", PatchEdit(<<RemoveValueAt(i)>>), Meaning("remove", <<>>, <<>>, <<>>),
                          PatchTree, e)
           \/ g = Editing(Uri1, "none", CommandEdit(RemovingAt(<<Index(i)>>).command),
                          RemovingAt(<<Index(i)>>).meaning, CommandTree, e)
    PROVE  WellFormed("v2", g) /\ RemovesFrom(l, g)
<1> DEFINE meaning == Meaning("remove", <<>>, <<>>, <<>>)
           meant == RemovingAt(<<Index(i)>>)
<1>1. CASE g = Editing(Uri1, "none", PatchEdit(<<DeleteElement(e)>>), meaning, PatchTree, e)
  <2>1. IsRemove(DeleteElement(e))
    BY DEF IsRemove, DeleteElement, Operation
  <2>2. PatchMeans(DeleteElement(e), meaning)
    BY <2>1, Zenon DEF PatchMeans
  <2>3. g.op = "edit" /\ g.element = e /\ g.edit = PatchEdit(<<DeleteElement(e)>>)
    BY <1>1 DEF Editing
  <2>4. RemovesFrom(l, g)
    BY <2>3, Zenon DEF RemovesFrom, RemovesObject
  <2> HIDE DEF meaning
  <2> QED BY ONLY <1>1, <2>2, <2>4, UriOfModel, EditingPatch
<1>2. CASE g = Editing(Uri1, "none", PatchEdit(<<RemoveValueAt(i)>>), meaning, PatchTree, e)
  <2>1. IsRemove(RemoveValueAt(i))
    BY DEF IsRemove, RemoveValueAt, Operation
  <2>2. PatchMeans(RemoveValueAt(i), meaning)
    BY <2>1, Zenon DEF PatchMeans
  <2>3. g.op = "edit" /\ g.element = e /\ g.edit = PatchEdit(<<RemoveValueAt(i)>>)
    BY <1>2 DEF Editing
  <2>4. RemovesFrom(l, g)
    BY <2>3, Zenon DEF RemovesFrom, RemovesIndex
  <2> HIDE DEF meaning
  <2> QED BY <1>2, <2>2, <2>4, UriOfModel, EditingPatch
<1>3. CASE g = Editing(Uri1, "none", CommandEdit(meant.command), meant.meaning, CommandTree, e)
  <2>1. meant \in MeantCommands
    BY Zenon DEF MeantCommands, Removals
  <2>2. g.op = "edit" /\ g.element = e /\ g.edit = CommandEdit(meant.command)
    BY <1>3 DEF Editing
  <2>3. RemovesFrom(l, g)
    BY <2>2, Zenon DEF RemovesFrom, RemovesIndex
  <2> HIDE DEF meant
  <2> QED BY <1>3, <2>1, <2>3, UriOfModel, EditingCommand
<1> QED BY <1>1, <1>2, <1>3, Zenon

LEMMA RemovalCallsWell ==
    ASSUME copy \in Seq(Elements), NEW c \in RemovalCalls
    PROVE  /\ c.caller \in {"node", "frontend"} /\ c.api = "v2"
           /\ WellFormed("v2", c.given) /\ RemovesFrom(copy, c.given)
<1> DEFINE Removing1(e) == { [d EXCEPT !.element = e] : d \in RemovalsOf(e) }
           removing == UNION { Removing1(e) : e \in Range(copy) }
<1>1. c \in [caller : {"node", "frontend"}, api : {"v2"}, given : removing]
  BY Zenon DEF RemovalCalls
<1>2. c.caller \in {"node", "frontend"} /\ c.api = "v2" /\ c.given \in removing
  <2> HIDE DEF removing
  <2> QED BY <1>1
<1>3. PICK e \in Range(copy) : c.given \in Removing1(e)
  <2> HIDE DEF Removing1
  <2> QED BY <1>2
<1>4. PICK d \in RemovalsOf(e) : c.given = [d EXCEPT !.element = e]
  BY <1>3
<1> DEFINE i == FindIndex(copy, e)
           g == c.given
           meaning == Meaning("remove", <<>>, <<>>, <<>>)
           meant == RemovingAt(<<Index(i)>>)
<1>5. i \in Nat /\ i + 1 \in DOMAIN copy /\ copy[i + 1] = e
  BY FindIndexFinds
<1>6. \/ d = PatchCall(<<DeleteElement(e)>>, "remove", <<>>)
      \/ d = PatchCall(<<RemoveValueAt(i)>>, "remove", <<>>)
      \/ d = EditCommand(Uri1, meant)
  <2> DEFINE patches == { <<DeleteElement(e)>>, <<RemoveObject(e)>>, RemoveValue(copy, e),
                          <<RemoveValueAt(FindIndex(copy, e))>> }
  <2>1. \/ \E p \in patches \ {<<>>} : d = PatchCall(p, "remove", <<>>)
        \/ d = EditCommand(Uri1, meant)
    BY DEF RemovalsOf
  <2>2. RemoveObject(e) = DeleteElement(e)
    BY DEF RemoveObject
  <2>3. RemoveValue(copy, e) = <<RemoveValueAt(i)>>
    <3>1. i >= 0
      BY <1>5
    <3> QED BY <3>1, Zenon DEF RemoveValue
  <2>4. \A p \in patches : p = <<DeleteElement(e)>> \/ p = <<RemoveValueAt(i)>>
    BY <2>2, <2>3, Zenon
  <2> HIDE DEF patches
  <2> QED BY <2>1, <2>4, Zenon
<1>7. ASSUME NEW operations, d = PatchCall(operations, "remove", <<>>)
      PROVE  g = Editing(Uri1, "none", PatchEdit(operations), meaning, PatchTree, e)
  <2>1. d = Editing(Uri1, "none", PatchEdit(operations), meaning, PatchTree, 0)
    BY <1>7, Expressions, Zenon
  <2> HIDE DEF meaning
  <2> QED BY <1>4, <2>1, Variants
<1>8. ASSUME d = EditCommand(Uri1, meant)
      PROVE  g = Editing(Uri1, "none", CommandEdit(meant.command), meant.meaning, CommandTree, e)
  <2>1. d = Editing(Uri1, "none", CommandEdit(meant.command), meant.meaning, CommandTree, 0)
    BY <1>8, Expressions, Zenon
  <2> HIDE DEF meant
  <2> QED BY <1>4, <2>1, Variants
<1>9. \/ g = Editing(Uri1, "none", PatchEdit(<<DeleteElement(e)>>), meaning, PatchTree, e)
      \/ g = Editing(Uri1, "none", PatchEdit(<<RemoveValueAt(i)>>), meaning, PatchTree, e)
      \/ g = Editing(Uri1, "none", CommandEdit(meant.command), meant.meaning, CommandTree, e)
  BY <1>6, <1>7, <1>8, Zenon
<1>10. WellFormed("v2", g) /\ RemovesFrom(copy, g)
  <2> HIDE DEF i, g
  <2> QED BY <1>5, <1>9, RemovalsWell
<1> QED BY <1>2, <1>10

LEMMA OtherCallsWell ==
    ASSUME NEW c \in {GetCall} \union AllCalls
    PROVE  Made(c) /\ c.given.element = 0
<1>1. CASE c = GetCall
  <2>1. c.caller = "node" /\ c.api = "v2" /\ c.given = Call("get", Uri1)
    BY <1>1 DEF GetCall, Plain
  <2> QED BY <2>1, UriOfModel, ModelOpCall DEF Made, ListOps
<1>2. ASSUME NEW api \in {"v1", "v2"},
             c \in [caller : {"node", "frontend"}, api : {api},
                    given : ModelCalls(api) \union SimpleCalls \union EditCalls(api) \union SubscribeCalls]
      PROVE  Made(c) /\ c.given.element = 0
  <2>1. /\ c.caller \in {"node", "frontend"} /\ c.api = api
        /\ c.given \in ModelCalls(api) \union SimpleCalls \union EditCalls(api) \union SubscribeCalls
    BY <1>2
  <2>2. WellFormed(api, c.given) /\ c.given.element = 0
    BY <2>1, ModelCallsWell, SimpleCallsWell, EditCallsWell, SubscribeCallsWell
  <2> QED BY <2>1, <2>2 DEF Made
<1>3. CASE c \in [caller : {"node"}, api : {"v2"}, given : EncodedCalls]
  <2>1. c.caller = "node" /\ c.api = "v2" /\ c.given \in EncodedCalls
    BY <1>3
  <2> QED BY <2>1, EncodedCallsWell DEF Made
<1>4. CASE c \in [caller : {"frontend"}, api : {"v2"}, given : MenuCommands(Patches)]
  <2>1. c.caller = "frontend" /\ c.api = "v2" /\ c.given \in MenuCommands(Patches)
    BY <1>4
  <2> QED BY <2>1, MenuWell DEF Made
<1> QED BY <1>1, <1>2, <1>3, <1>4, Zenon DEF AllCalls

----------------------------------------------------------------------------
(* What the client gets: in the backend the call itself, of a frontend     *)
(* what remains of it.                                                     *)

NoModelOps == ServerOps \union {"getAll", "getUiSchema", "counter"}

Shape(h) ==
    /\ DOMAIN h = {"op", "uri", "second", "third", "body", "edit", "options", "listener", "meaning", "element"}
    /\ DOMAIN h.edit = {"form", "instance", "command", "operations"}

(* The same operation of the same model with the same edit.                *)
SameCall(g, h) ==
    /\ Shape(h)
    /\ h.op = g.op
    /\ g.op \notin NoModelOps => Text(h.uri) = g.uri.text
    /\ h.body = g.body
    /\ h.edit.form = g.edit.form /\ h.edit.command = g.edit.command /\ h.edit.operations = g.edit.operations
    /\ h.options = g.options /\ h.listener = g.listener

LEMMA ReceivedCall ==
    ASSUME NEW api \in {"v1", "v2"}, NEW g, WellFormed(api, g), NEW h, h = Received(g)
    PROVE  /\ SameCall(g, h)
           /\ h.second = WithoutFunction(g.second) /\ h.third = WithoutFunction(g.third)
           /\ h.edit.instance = FALSE
<1>1. /\ g = [op |-> g.op, uri |-> g.uri, second |-> g.second, third |-> g.third, body |-> g.body,
              edit |-> g.edit, options |-> g.options, listener |-> g.listener, meaning |-> g.meaning,
              element |-> g.element]
      /\ g.uri = [text |-> g.uri.text, instance |-> g.uri.instance, at |-> g.uri.at]
      /\ g.edit = [form |-> g.edit.form, instance |-> g.edit.instance, command |-> g.edit.command,
                   operations |-> g.edit.operations]
  BY Zenon DEF WellFormed, IsCall, Uri
<1> DEFINE s == Sent(g)
<1>2. /\ s.op = g.op /\ s.body = g.body /\ s.options = g.options /\ s.listener = g.listener
      /\ s.second = WithoutFunction(g.second) /\ s.third = WithoutFunction(g.third)
      /\ s.uri.text = g.uri.text /\ s.uri.instance = FALSE /\ s.uri.at = g.uri.at
      /\ s.edit.form = g.edit.form /\ s.edit.command = g.edit.command
      /\ s.edit.operations = g.edit.operations /\ s.edit.instance = FALSE
      /\ DOMAIN s = {"op", "uri", "second", "third", "body", "edit", "options", "listener", "meaning", "element"}
      /\ s.uri = [text |-> s.uri.text, instance |-> s.uri.instance, at |-> s.uri.at]
      /\ DOMAIN s.edit = {"form", "instance", "command", "operations"}
  <2>1. /\ s.op = g.op /\ s.body = g.body /\ s.options = g.options /\ s.listener = g.listener
        /\ s.second = WithoutFunction(g.second) /\ s.third = WithoutFunction(g.third)
    BY <1>1 DEF Sent
  <2>2. s.uri = [g.uri EXCEPT !.instance = FALSE] /\ s.edit = [g.edit EXCEPT !.instance = FALSE]
    BY <1>1 DEF Sent
  <2>3. /\ s.uri.text = g.uri.text /\ s.uri.instance = FALSE /\ s.uri.at = g.uri.at
        /\ s.uri = [text |-> s.uri.text, instance |-> s.uri.instance, at |-> s.uri.at]
    <3> HIDE DEF s
    <3> QED BY <1>1, <2>2
  <2>4. /\ s.edit.form = g.edit.form /\ s.edit.command = g.edit.command
        /\ s.edit.operations = g.edit.operations /\ s.edit.instance = FALSE
        /\ DOMAIN s.edit = {"form", "instance", "command", "operations"}
    <3> HIDE DEF s
    <3> QED BY <1>1, <2>2
  <2>5. DOMAIN s = DOMAIN g
    BY <1>1 DEF Sent
  <2>6. DOMAIN g = {"op", "uri", "second", "third", "body", "edit", "options", "listener", "meaning", "element"}
    BY <1>1
  <2> QED BY <2>1, <2>3, <2>4, <2>5, <2>6
<1> HIDE DEF s
<1>3. h = [s EXCEPT !.uri.instance = s.uri.instance \/ s.uri.at \in {"argument", "array", "object"}]
  BY Zenon DEF s, Received, ProcessArguments
<1>4. /\ h.op = s.op /\ h.body = s.body /\ h.options = s.options /\ h.listener = s.listener
      /\ h.second = s.second /\ h.third = s.third /\ h.edit = s.edit
      /\ h.uri.text = s.uri.text
      /\ s.uri.at \in {"argument", "object"} => h.uri.instance = TRUE
      /\ DOMAIN h = DOMAIN s
  <2> DEFINE of == s.uri.instance \/ s.uri.at \in {"argument", "array", "object"}
  <2>1. of \in BOOLEAN /\ (s.uri.at \in {"argument", "object"} => of = TRUE)
    OBVIOUS
  <2>2. h = [s EXCEPT !.uri.instance = of]
    BY <1>3
  <2> HIDE DEF of
  <2>3. /\ h.op = s.op /\ h.body = s.body /\ h.options = s.options /\ h.listener = s.listener
        /\ h.second = s.second /\ h.third = s.third /\ h.edit = s.edit
        /\ DOMAIN h = DOMAIN s
    BY <1>2, <2>2
  <2>4. h.uri = [s.uri EXCEPT !.instance = of]
    BY <1>2, <2>2
  <2>5. h.uri.text = s.uri.text /\ h.uri.instance = of
    BY <1>2, <2>4
  <2> QED BY <2>1, <2>3, <2>5
<1>5. g.op \notin NoModelOps => Text(h.uri) = g.uri.text
  BY <1>2, <1>4 DEF WellFormed, NamesModel, NoModelOps, Text
<1> QED BY <1>2, <1>4, <1>5 DEF SameCall, Shape

LEMMA EditForms ==
    ASSUME NEW api \in {"v1", "v2"}, NEW g, WellFormed(api, g)
    PROVE  /\ g.edit.instance = (g.edit.form = "command")
           /\ g.op # "edit" => g.edit.form = "none"
           /\ g.op = "edit" => g.edit.form = "command" \/ (g.edit.form = "patch" /\ api = "v2")
           /\ g.edit.form = "patch" => g.edit = PatchEdit(g.edit.operations)
           /\ g.edit.form = "command" => g.edit = CommandEdit(g.edit.command)
<1>1. CASE g.edit = NoEdit /\ g.op # "edit"
  BY <1>1 DEF NoEdit, EditOf
<1>2. CASE g.op = "edit" /\ \E command : g.edit = CommandEdit(command)
  BY <1>2 DEF CommandEdit, EditOf
<1>3. CASE g.op = "edit" /\ api = "v2" /\ \E operations : g.edit = PatchEdit(operations)
  BY <1>3 DEF PatchEdit, EditOf
<1> QED BY <1>1, <1>2, <1>3, Zenon DEF WellFormed, EditsWell, EditsCommand, EditsPatch, EditsNothing

LEMMA ToClientCall ==
    ASSUME NEW c, Made(c), NEW h, h = ToClient(c)
    PROVE  /\ SameCall(c.given, h)
           /\ IF c.caller = "frontend"
              THEN /\ h.second = WithoutFunction(c.given.second) /\ h.third = WithoutFunction(c.given.third)
                   /\ h.edit.instance = FALSE
              ELSE /\ h.second = c.given.second /\ h.third = c.given.third
                   /\ h.edit.instance = (c.given.edit.form = "command")
<1>1. CASE c.caller = "frontend"
  BY <1>1, ReceivedCall DEF Made, ToClient
<1>2. CASE c.caller = "node"
  <2>1. h = c.given
    BY <1>2 DEF ToClient
  <2>2. h.edit.instance = (c.given.edit.form = "command")
    BY <2>1, EditForms DEF Made
  <2>3. Shape(h)
    BY <2>1 DEF Shape, Made, WellFormed, IsCall
  <2>4. SameCall(c.given, h)
    BY <2>1, <2>3 DEF SameCall, Made, WellFormed, NamesModel, NoModelOps, Text
  <2> QED BY <1>2, <2>1, <2>2, <2>4
<1> QED BY <1>1, <1>2 DEF Made

----------------------------------------------------------------------------
(* What requests are.                                                      *)

Forms == {"none", "object", "text", "noJson"}

IsPlain(r, params, mapper) ==
    /\ r.kind = "request" /\ r.params = params /\ r.mapper = mapper
    /\ r.body.form \in Forms
    /\ r.carries = Carries("nothing", NoEdit)

IsSent(r, params, mapper, carries) ==
    \/ r = [kind |-> "thrown"]
    \/ /\ r.kind = "request" /\ r.params = params /\ r.mapper = mapper
       /\ r.body.form \in Forms
       /\ r.carries = carries

LEMMA PlainRequest ==
    ASSUME NEW method, NEW path, NEW params, NEW mapper, NEW r, r = Request(method, path, params, mapper)
    PROVE  /\ IsPlain(r, params, mapper)
           /\ r = [kind |-> "request", method |-> method, path |-> path, params |-> params,
                   mapper |-> mapper, body |-> r.body, carries |-> r.carries]
<1>1. NoBody.form \in Forms
  BY DEF NoBody, Body, Forms
<1>2. /\ r.kind = "request" /\ r.params = params /\ r.mapper = mapper /\ r.body = NoBody
      /\ r.carries = Carries("nothing", NoEdit)
      /\ r = [kind |-> "request", method |-> method, path |-> path, params |-> params,
              mapper |-> mapper, body |-> r.body, carries |-> r.carries]
  BY DEF Request
<1> QED BY <1>1, <1>2 DEF IsPlain

LEMMA SentRequest ==
    ASSUME NEW method, NEW path, NEW params, NEW mapper, NEW body, NEW carries,
           body = Unencodable \/ body.form \in Forms,
           NEW r, r = WithBody(Request(method, path, params, mapper), body, carries)
    PROVE  IsSent(r, params, mapper, carries)
<1> DEFINE q == Request(method, path, params, mapper)
<1>1. q = [kind |-> "request", method |-> method, path |-> path, params |-> params,
           mapper |-> mapper, body |-> q.body, carries |-> q.carries]
  BY PlainRequest
<1> HIDE DEF q
<1>2. CASE body = Unencodable
  BY <1>2 DEF WithBody, IsSent
<1>3. CASE body # Unencodable
  <2>1. r = [q EXCEPT !.body = body, !.carries = carries]
    BY <1>3, Zenon DEF WithBody, q
  <2>2. /\ r.kind = "request" /\ r.params = params /\ r.mapper = mapper /\ r.body = body
        /\ r.carries = carries
    BY ONLY <1>1, <2>1
  <2> QED BY <1>3, <2>2 DEF IsSent
<1> QED BY <1>2, <1>3

LEMMA ParamsAre ==
    ASSUME NEW h, NEW format, NEW p, p = Params(h, format)
    PROVE  /\ "format" \in DOMAIN p /\ p.format = format
           /\ p.modeluri = Text(h.uri) /\ "workspaceRoot" \notin DOMAIN p
<1> DEFINE text == Text(h.uri)
<1>1. \/ p = [modeluri |-> text, elementid |-> "element", format |-> format]
      \/ p = [modeluri |-> text, elementname |-> "element", format |-> format]
      \/ p = [modeluri |-> text, format |-> format]
  <2>1. CASE h.op = "getElementById"
    BY <2>1, "getElementById" # "getElementByName", Zenon DEF Params
  <2>2. CASE h.op = "getElementByName"
    BY <2>2, "getElementById" # "getElementByName", Zenon DEF Params
  <2>3. CASE h.op # "getElementById" /\ h.op # "getElementByName"
    BY <2>3, Zenon DEF Params
  <2> QED BY <2>1, <2>2, <2>3, Zenon
<1> HIDE DEF text
<1>2. /\ "format" \in DOMAIN p /\ p.format = format
      /\ p.modeluri = text /\ "workspaceRoot" \notin DOMAIN p
  BY <1>1
<1> QED BY <1>2 DEF text

LEMMA EncodedBody ==
    ASSUME NEW body, body = Body(body.form, body.tree), body.form \in Forms, NEW format,
           NEW b, b = Encode(body, format)
    PROVE  b = Unencodable \/ b.form \in Forms
<1>1. CASE b = [body EXCEPT !.tree = AsJson(body.tree, format)]
  BY <1>1 DEF Body
<1>2. b = body \/ b = [body EXCEPT !.tree = AsJson(body.tree, format)] \/ b = Unencodable
  <2>1. CASE format = FORMAT_XMI /\ body.form # "object"
    <3>1. format \notin JsonFormats
      BY <2>1 DEF JsonFormats, FORMAT_JSON_V1, FORMAT_JSON_V2, FORMAT_XMI
    <3> QED BY <2>1, <3>1, Zenon DEF Encode
  <2>2. CASE format \in JsonFormats /\ body.form \in {"object", "text"}
    <3>1. format # FORMAT_XMI
      BY <2>2 DEF JsonFormats, FORMAT_JSON_V1, FORMAT_JSON_V2, FORMAT_XMI
    <3> QED BY <2>2, <3>1, Zenon DEF Encode
  <2>3. CASE /\ ~(format = FORMAT_XMI /\ body.form # "object")
             /\ ~(format \in JsonFormats /\ body.form \in {"object", "text"})
    BY <2>3, Zenon DEF Encode
  <2> QED BY <2>1, <2>2, <2>3
<1> QED BY <1>1, <1>2

(* What the request of a call has to do with what the client gets.         *)
MapperNames == {"isSuccess", "asString", "asObject", "as", "asDiagnostic", "asURIArray", "asModelArray",
                "patchModel"}

AsCommand(h) == h.edit.form = "command" /\ IsCommand(h.edit.command)
AsEmfCommand(h) == AsCommand(h) \/ (h.edit.form = "command" /\ h.edit.instance)
NothingToDo(h) == h.op = "edit" /\ h.edit.form = "patch" /\ h.edit.operations = <<>>

ClientFormatV1(h) == IF h.op = "edit" THEN DefaultFormatV1 ELSE FormatOfV1(h)
ClientFormatV2(h) ==
    IF h.op = "get" /\ h.second = "guard" THEN h.third
    ELSE IF h.op \in {"get", "getAll"} THEN OrDefault(h.second)
    ELSE IF h.op # "edit" THEN FormatOf(h)
    ELSE IF AsCommand(h) THEN DefaultFormatV2 ELSE OrDefault(h.second)
ClientFormat(api, h) == IF api = "v1" THEN ClientFormatV1(h) ELSE ClientFormatV2(h)

ParamsSay(api, h, params) ==
    /\ "modeluri" \in DOMAIN params => h.op \notin NoModelOps /\ params.modeluri = Text(h.uri)
    /\ "workspaceRoot" \in DOMAIN params => h.op \notin NoModelOps /\ params.workspaceRoot = Text(h.uri)
    /\ "format" \in DOMAIN params =>
            h.op \in ListOps \union BodyOps \union {"edit"} /\ params.format = ClientFormat(api, h)

MapperSays(h, mapper) ==
    /\ mapper.name \in MapperNames
    /\ "as" \in {mapper.name, mapper.content} <=> h.op \in ListOps \union BodyOps /\ h.second = "guard"

CarriesSay(api, h, carries) ==
    IF h.op = "edit"
    THEN /\ carries.kind = IF api = "v1" THEN "command"
                           ELSE IF AsEmfCommand(h) THEN "modelserver.emfcommand" ELSE "modelserver.patch"
         /\ carries.edit.form = h.edit.form /\ carries.edit.command = h.edit.command
         /\ carries.edit.operations = h.edit.operations
    ELSE carries.kind \in {"nothing", "model"}

QueryOfClient(api, h) ==
    IF api = "v1" THEN SubscriptionQueryV1(h.options) ELSE SubscriptionQueryV2(BackendOptions(h))

Says(api, h, r) ==
    /\ r.kind \in {"request", "subscription", "thrown", "outcome"}
    /\ r.kind = "subscription" => h.op = "subscribe" /\ r.query = QueryOfClient(api, h)
    /\ r.kind = "outcome" => r.outcome = UpdateResult(TRUE, TRUE, NoUpdate)
    /\ r.kind = "outcome" <=> api = "v2" /\ NothingToDo(h)
    /\ r.kind = "request" =>
            /\ ParamsSay(api, h, r.params) /\ MapperSays(h, r.mapper)
            /\ r.body.form \in Forms /\ CarriesSay(api, h, r.carries)

LEMMA PlainSays ==
    ASSUME NEW api, NEW h, h.op # "edit", NEW params, NEW mapper, ParamsSay(api, h, params),
           MapperSays(h, mapper), NEW r, IsPlain(r, params, mapper)
    PROVE  Says(api, h, r)
<1>1. r.carries.kind = "nothing"
  BY DEF IsPlain, Carries
<1> QED BY <1>1 DEF IsPlain, Says, CarriesSay, NothingToDo

LEMMA SentSays ==
    ASSUME NEW api, NEW h, NEW params, NEW mapper, NEW carries, ParamsSay(api, h, params),
           MapperSays(h, mapper), CarriesSay(api, h, carries), ~(api = "v2" /\ NothingToDo(h)),
           NEW r, IsSent(r, params, mapper, carries)
    PROVE  Says(api, h, r)
<1>1. CASE r.kind = "thrown"
  BY <1>1 DEF Says
<1>2. CASE r.kind = "request" /\ r.params = params /\ r.mapper = mapper /\ r.body.form \in Forms /\ r.carries = carries
  <2>1. ParamsSay(api, h, r.params) /\ MapperSays(h, r.mapper) /\ CarriesSay(api, h, r.carries)
    BY <1>2, Zenon
  <2> QED BY <1>2, <2>1 DEF Says
<1>3. r = [kind |-> "thrown"] => r.kind = "thrown"
  OBVIOUS
<1> QED BY <1>1, <1>2, <1>3, Zenon DEF IsSent

LEMMA ParamsSayAll ==
    ASSUME NEW api, NEW h
    PROVE  /\ h.op \notin NoModelOps => ParamsSay(api, h, ModelParam(h))
           /\ h.op \notin NoModelOps => ParamsSay(api, h, [workspaceRoot |-> Text(h.uri)])
           /\ h.op \notin NoModelOps /\ h.op \in ListOps \union BodyOps \union {"edit"} =>
                    ParamsSay(api, h, Params(h, ClientFormat(api, h)))
           /\ h.op \in ListOps => ParamsSay(api, h, [format |-> ClientFormat(api, h)])
           /\ ParamsSay(api, h, NoParams)
           /\ ParamsSay(api, h, [schemaname |-> "schema"])
           /\ ParamsSay(api, h, [operation |-> "none", delta |-> "none"])
<1>1. h.op \notin NoModelOps => ParamsSay(api, h, ModelParam(h))
  BY DEF ParamsSay, ModelParam
<1>2. h.op \notin NoModelOps => ParamsSay(api, h, [workspaceRoot |-> Text(h.uri)])
  BY DEF ParamsSay
<1>3. h.op \notin NoModelOps /\ h.op \in ListOps \union BodyOps \union {"edit"} =>
                    ParamsSay(api, h, Params(h, ClientFormat(api, h)))
  BY ParamsAre DEF ParamsSay
<1>4. h.op \in ListOps => ParamsSay(api, h, [format |-> ClientFormat(api, h)])
  BY DEF ParamsSay
<1>5. ParamsSay(api, h, NoParams)
  BY DEF ParamsSay, NoParams
<1>6. ParamsSay(api, h, [schemaname |-> "schema"])
  BY DEF ParamsSay
<1>7. ParamsSay(api, h, [operation |-> "none", delta |-> "none"])
  BY DEF ParamsSay
<1> QED BY <1>1, <1>2, <1>3, <1>4, <1>5, <1>6, <1>7

LEMMA MapperSaysAll ==
    ASSUME NEW h
    PROVE  /\ \A name \in MapperNames \ {"as"} :
                    h.op \notin ListOps \union BodyOps => MapperSays(h, Mapper(name))
           /\ h.op \in ListOps \union BodyOps =>
                    /\ MapperSays(h, GuardedMapper(h.second))
                    /\ MapperSays(h, CreateMapper(h.second))
                    /\ \A content : (content = "as" <=> h.second = "guard") =>
                            MapperSays(h, ModelsMapper(content))
<1>1. \A name : Mapper(name).name = name /\ Mapper(name).content = "none"
  BY DEF Mapper
<1>2. ASSUME NEW name \in MapperNames \ {"as"}, h.op \notin ListOps \union BodyOps
      PROVE  MapperSays(h, Mapper(name))
  BY <1>1, <1>2 DEF MapperSays
<1>3. ASSUME h.op \in ListOps \union BodyOps PROVE MapperSays(h, GuardedMapper(h.second))
  <2>1. GuardedMapper(h.second).name = (IF h.second = "guard" THEN "as" ELSE "asObject")
        /\ GuardedMapper(h.second).content = "none"
    BY <1>1 DEF GuardedMapper
  <2> QED BY <1>3, <2>1 DEF MapperSays, MapperNames
<1>4. ASSUME h.op \in ListOps \union BodyOps PROVE MapperSays(h, CreateMapper(h.second))
  <2> DEFINE name == CASE h.second = "none" -> "asObject"
                       [] h.second = "guard" -> "as"
                       [] OTHER -> "asString"
  <2>1. CreateMapper(h.second).name = name /\ CreateMapper(h.second).content = "none"
    BY <1>1 DEF CreateMapper
  <2>2. name \in MapperNames /\ (name = "as" <=> h.second = "guard")
    BY DEF MapperNames
  <2> QED BY <1>4, <2>1, <2>2 DEF MapperSays
<1>5. ASSUME h.op \in ListOps \union BodyOps, NEW content, content = "as" <=> h.second = "guard"
      PROVE  MapperSays(h, ModelsMapper(content))
  <2>1. ModelsMapper(content).name = "asModelArray" /\ ModelsMapper(content).content = content
    BY DEF ModelsMapper
  <2> QED BY <1>5, <2>1 DEF MapperSays, MapperNames
<1> QED BY <1>2, <1>3, <1>4, <1>5

(* The calls that both clients make alike.                                 *)
LEMMA ServerSays ==
    ASSUME NEW api, NEW h, h.op \in ServerOps, NEW r, r = SendServer(h)
    PROVE  Says(api, h, r)
<1>1. ServerRequests[h.op][3] \in {"asURIArray", "isSuccess"}
  BY DEF ServerRequests, ServerOps
<1> DEFINE mapper == Mapper(ServerRequests[h.op][3])
<1>2. IsPlain(r, NoParams, mapper)
  BY PlainRequest, Zenon DEF SendServer
<1>3. MapperSays(h, mapper)
  BY <1>1, MapperSaysAll DEF MapperNames, ServerOps, ListOps, BodyOps
<1>4. ParamsSay(api, h, NoParams)
  BY ParamsSayAll
<1>5. h.op # "edit"
  BY DEF ServerOps
<1> HIDE DEF mapper
<1> QED BY <1>2, <1>3, <1>4, <1>5, PlainSays

LEMMA ModelSays ==
    ASSUME NEW api, NEW h, h.op \in ModelOps, NEW of \in MapperNames \ {"as"},
           NEW r, r = SendModel(h, ModelRequests(of))
    PROVE  Says(api, h, r)
<1> DEFINE name == ModelRequests(of)[h.op][3]
<1>1. name \in {"isSuccess", "asDiagnostic", "asString", of}
  BY DEF ModelRequests, ModelOps
<1> DEFINE mapper == Mapper(name)
<1>2. IsPlain(r, ModelParam(h), mapper)
  BY PlainRequest, Zenon DEF SendModel
<1> HIDE DEF name
<1>3. MapperSays(h, mapper)
  BY <1>1, MapperSaysAll DEF MapperNames, ModelOps, ListOps, BodyOps
<1>4. h.op # "edit" /\ h.op \notin NoModelOps
  BY DEF ModelOps, NoModelOps, ServerOps
<1>5. ParamsSay(api, h, ModelParam(h))
  BY <1>4, ParamsSayAll
<1> HIDE DEF mapper
<1> QED BY <1>2, <1>3, <1>4, <1>5, PlainSays

LEMMA ConfigureSays ==
    ASSUME NEW api, NEW h, h.op = "configureServer", NEW r, r = ConfigureServer(h)
    PROVE  Says(api, h, r)
<1>1. IsPlain(r, [workspaceRoot |-> Text(h.uri)], Mapper("isSuccess"))
  BY PlainRequest, Zenon DEF ConfigureServer
<1>2. ParamsSay(api, h, [workspaceRoot |-> Text(h.uri)])
  BY ParamsSayAll DEF NoModelOps, ServerOps
<1>3. MapperSays(h, Mapper("isSuccess"))
  BY MapperSaysAll DEF ListOps, BodyOps, MapperNames
<1> QED BY <1>1, <1>2, <1>3, PlainSays

LEMMA UiSchemaSays ==
    ASSUME NEW api, NEW h, h.op = "getUiSchema", NEW r, r = GetUiSchema
    PROVE  Says(api, h, r)
<1>1. IsPlain(r, [schemaname |-> "schema"], Mapper("asString"))
  BY PlainRequest, Zenon DEF GetUiSchema
<1>2. ParamsSay(api, h, [schemaname |-> "schema"])
  BY ParamsSayAll
<1>3. MapperSays(h, Mapper("asString"))
  BY MapperSaysAll DEF ListOps, BodyOps, MapperNames
<1> QED BY <1>1, <1>2, <1>3, PlainSays

(* The edit of the second client.                                          *)
LEMMA EditSays ==
    ASSUME NEW h, h.op = "edit", h.body = Body(h.body.form, h.body.tree), h.body.form \in Forms,
           NEW format, NEW r, r = EditV2(h, format)
    PROVE  IF NothingToDo(h)
           THEN r = AtOnce(UpdateResult(TRUE, TRUE, NoUpdate))
           ELSE IsSent(r, Params(h, format), Mapper("patchModel"),
                       Carries(IF IsInstance(h.edit) THEN "modelserver.emfcommand" ELSE "modelserver.patch",
                               h.edit))
<1> DEFINE command == IsInstance(h.edit)
           tree == PatchMessage(h.body.tree, command)
           body == [h.body EXCEPT !.tree = tree]
           encoded == Encode(body, format)
           carries == Carries(IF command THEN "modelserver.emfcommand" ELSE "modelserver.patch", h.edit)
<1>1. command => h.edit.form = "command"
  BY DEF IsInstance
<1>2. body = Body(body.form, body.tree) /\ body.form \in Forms
  <2> HIDE DEF tree
  <2>1. body.form = h.body.form /\ body = Body(h.body.form, tree)
    BY DEF Body
  <2> QED BY <2>1 DEF Body
<1>3. encoded = Unencodable \/ encoded.form \in Forms
  <2> HIDE DEF body
  <2> QED BY <1>2, EncodedBody
<1>4. NothingToDo(h) <=> ~command /\ h.edit.form = "patch" /\ h.edit.operations = <<>>
  <2> HIDE DEF command
  <2> QED BY <1>1 DEF NothingToDo
<1>5. CASE NothingToDo(h)
  BY <1>4, <1>5, Zenon DEF EditV2
<1>6. CASE ~NothingToDo(h)
  <2>1. \E method, path : r = WithBody(Request(method, path, Params(h, format), Mapper("patchModel")),
                                       encoded, carries)
    BY <1>4, <1>6, Zenon DEF EditV2
  <2> HIDE DEF encoded, carries
  <2>2. IsSent(r, Params(h, format), Mapper("patchModel"), carries)
    BY <1>3, <2>1, SentRequest, Zenon
  <2> QED BY <1>6, <2>2 DEF carries
<1> QED BY <1>5, <1>6

LEMMA EditSaysV2 ==
    ASSUME NEW h, Shape(h), h.op = "edit", h.body = Body(h.body.form, h.body.tree), h.body.form \in Forms,
           NEW r, r = BackendEditV2(h)
    PROVE  Says("v2", h, r)
<1>1. ASSUME NEW k, k.op = "edit", k.uri = h.uri, k.body = h.body, k.edit.form = h.edit.form,
             k.edit.command = h.edit.command, k.edit.operations = h.edit.operations,
             IsInstance(k.edit) <=> AsEmfCommand(h),
             NEW format, format = ClientFormatV2(h), r = EditV2(k, format)
      PROVE  Says("v2", h, r)
  <2> DEFINE params == Params(k, format)
             carries == Carries(IF IsInstance(k.edit) THEN "modelserver.emfcommand" ELSE "modelserver.patch",
                                k.edit)
  <2>1. k.body = Body(k.body.form, k.body.tree) /\ k.body.form \in Forms
    BY <1>1, Zenon
  <2>2. NothingToDo(k) <=> NothingToDo(h)
    BY <1>1 DEF NothingToDo
  <2>3. IF NothingToDo(k)
        THEN r = AtOnce(UpdateResult(TRUE, TRUE, NoUpdate))
        ELSE IsSent(r, params, Mapper("patchModel"), carries)
    BY <1>1, <2>1, EditSays
  <2>4. CASE NothingToDo(h)
    <3>1. r = AtOnce(UpdateResult(TRUE, TRUE, NoUpdate))
      BY <2>2, <2>3, <2>4
    <3>2. r.kind = "outcome" /\ r.outcome = UpdateResult(TRUE, TRUE, NoUpdate)
      BY <3>1 DEF AtOnce
    <3> QED BY <2>4, <3>2 DEF Says
  <2>5. CASE ~NothingToDo(h)
    <3>1. params = Params(h, ClientFormat("v2", h))
      <4>1. ClientFormat("v2", h) = format
        BY <1>1 DEF ClientFormat
      <4> QED BY <1>1, <4>1, Zenon DEF Params
    <3>2. ParamsSay("v2", h, params)
      BY <3>1, ParamsSayAll DEF NoModelOps, ServerOps
    <3>3. MapperSays(h, Mapper("patchModel"))
      BY MapperSaysAll DEF MapperNames, ListOps, BodyOps
    <3>4. CarriesSay("v2", h, carries)
      <4>1. /\ carries.kind = IF IsInstance(k.edit) THEN "modelserver.emfcommand" ELSE "modelserver.patch"
            /\ carries.edit = k.edit
        BY DEF Carries
      <4> HIDE DEF carries
      <4> QED BY <1>1, <4>1 DEF CarriesSay
    <3> HIDE DEF params, carries
    <3> QED BY <2>2, <2>3, <2>5, <3>2, <3>3, <3>4, SentSays
  <2> QED BY <2>4, <2>5
<1>2. CASE AsCommand(h)
  <2> DEFINE k == [h EXCEPT !.edit = EnsureCommandPrototype(h.edit)]
  <2>1. r = EditV2(k, DefaultFormatV2)
    BY <1>2, Zenon DEF BackendEditV2, AsCommand
  <2>2. k.op = "edit" /\ k.uri = h.uri /\ k.body = h.body /\ k.edit = EnsureCommandPrototype(h.edit)
    BY DEF Shape
  <2>3. /\ k.edit.form = h.edit.form /\ k.edit.command = h.edit.command
        /\ k.edit.operations = h.edit.operations /\ k.edit.instance = TRUE
    <3> HIDE DEF k
    <3> QED BY <2>2 DEF EnsureCommandPrototype, Shape
  <2>4. DefaultFormatV2 = ClientFormatV2(h)
    BY <1>2 DEF ClientFormatV2
  <2> HIDE DEF k
  <2>5. IsInstance(k.edit) <=> AsEmfCommand(h)
    BY <1>2, <2>3 DEF IsInstance, AsEmfCommand, AsCommand
  <2> QED BY <1>1, <2>1, <2>2, <2>3, <2>4, <2>5
<1>3. CASE ~AsCommand(h)
  <2>1. r = EditV2(h, OrDefault(h.second))
    BY <1>3, Zenon DEF BackendEditV2, AsCommand
  <2>2. OrDefault(h.second) = ClientFormatV2(h)
    BY <1>3 DEF ClientFormatV2
  <2>3. IsInstance(h.edit) <=> AsEmfCommand(h)
    BY <1>3 DEF IsInstance, AsEmfCommand
  <2> QED BY <1>1, <2>1, <2>2, <2>3
<1> QED BY <1>2, <1>3

(* Which operation makes which request.                                    *)
LEMMA Kinds ==
    /\ \A op \in ServerOps : op \notin ModelOps /\ op \notin ListOps \union BodyOps \union OtherOps \union {"counter"}
    /\ \A op \in ModelOps : op \notin ServerOps /\ op \notin ListOps \union BodyOps \union OtherOps \union {"counter"}
  BY DEF ServerOps, ModelOps, ListOps, BodyOps, OtherOps

LEMMA DispatchV2 ==
    ASSUME NEW h
    PROVE  /\ h.op = "get" => RequestV2(h) = GetV2(h)
           /\ h.op = "getAll" => RequestV2(h) = GetAllV2(h)
           /\ h.op \in {"getElementById", "getElementByName"} => RequestV2(h) = GetElementV2(h)
           /\ h.op = "create" => RequestV2(h) = CreateV2(h)
           /\ h.op = "update" => RequestV2(h) = UpdateV2(h)
           /\ h.op = "edit" => RequestV2(h) = BackendEditV2(h)
           /\ h.op = "subscribe" => RequestV2(h) = SubscriptionV2(h)
           /\ h.op = "configureServer" => RequestV2(h) = ConfigureServer(h)
           /\ h.op = "getUiSchema" => RequestV2(h) = GetUiSchema
           /\ h.op = "counter" => RequestV2(h) = Counter
           /\ h.op \in ServerOps => RequestV2(h) = SendServer(h)
           /\ h.op \in ModelOps => RequestV2(h) = SendModel(h, SimpleRequestsV2)
<1>1. CASE h.op \in ServerOps
  BY <1>1, Kinds, Operations DEF RequestV2, ListOps, BodyOps, OtherOps
<1>2. CASE h.op \in ModelOps
  BY <1>2, Kinds, Operations DEF RequestV2, ListOps, BodyOps, OtherOps
<1>3. CASE h.op \notin ServerOps \union ModelOps
  BY <1>3, Operations DEF RequestV2
<1> QED BY <1>1, <1>2, <1>3

LEMMA DispatchV1 ==
    ASSUME NEW h
    PROVE  /\ h.op = "get" => RequestV1(h) = GetV1(h)
           /\ h.op = "getAll" => RequestV1(h) = GetAllV1(h)
           /\ h.op \in {"getElementById", "getElementByName"} => RequestV1(h) = GetElementV1(h)
           /\ h.op = "create" => RequestV1(h) = CreateV1(h)
           /\ h.op = "update" => RequestV1(h) = UpdateV1(h)
           /\ h.op = "edit" => RequestV1(h) = EditV1(h)
           /\ h.op = "subscribe" => RequestV1(h) = SubscriptionV1(h)
           /\ h.op = "configureServer" => RequestV1(h) = ConfigureServer(h)
           /\ h.op = "getUiSchema" => RequestV1(h) = GetUiSchema
           /\ h.op \in ServerOps => RequestV1(h) = SendServer(h)
           /\ h.op \in ModelOps => RequestV1(h) = SendModel(h, SimpleRequestsV1)
<1>1. CASE h.op \in ServerOps
  BY <1>1, Kinds, Operations DEF RequestV1, ListOps, BodyOps, OtherOps
<1>2. CASE h.op \in ModelOps
  BY <1>2, Kinds, Operations DEF RequestV1, ListOps, BodyOps, OtherOps
<1>3. CASE h.op \notin ServerOps \union ModelOps
  BY <1>3, Operations DEF RequestV1
<1> QED BY <1>1, <1>2, <1>3

(* All requests of the second client ...                                   *)
LEMMA SaysV2 ==
    ASSUME NEW h, Shape(h), h.op \in OpsV1 \union {"counter"}, h.body = Body(h.body.form, h.body.tree),
           h.body.form \in Forms, NEW r, r = RequestV2(h)
    PROVE  Says("v2", h, r)
<1>1. CASE h.op = "get"
  <2> DEFINE params == Params(h, IF h.second = "guard" THEN h.third ELSE OrDefault(h.second))
  <2>1. r = GetV2(h)
    BY <1>1, DispatchV2
  <2>2. IsPlain(r, params, GuardedMapper(h.second))
    BY <2>1, PlainRequest, Zenon DEF GetV2
  <2>3. params = Params(h, ClientFormat("v2", h))
    BY <1>1 DEF ClientFormat, ClientFormatV2
  <2>4. ParamsSay("v2", h, params) /\ MapperSays(h, GuardedMapper(h.second))
    BY <1>1, <2>3, ParamsSayAll, MapperSaysAll DEF ListOps, NoModelOps, ServerOps
  <2> QED BY <1>1, <2>2, <2>4, PlainSays
<1>2. CASE h.op = "getAll"
  <2> DEFINE content == CASE h.second = "none" -> "asObject"
                          [] h.second = "guard" -> "as"
                          [] OTHER -> "asString"
             params == [format |-> OrDefault(h.second)]
  <2>1. r = GetAllV2(h)
    BY <1>2, DispatchV2
  <2>2. IsPlain(r, params, ModelsMapper(content))
    <3>1. r = Request("GET", ModelServerPaths.MODEL_CRUD, params, ModelsMapper(content))
      BY <2>1 DEF GetAllV2
    <3> HIDE DEF content, params
    <3> QED BY <3>1, PlainRequest, Zenon
  <2>3. params = [format |-> ClientFormat("v2", h)]
    BY <1>2 DEF ClientFormat, ClientFormatV2
  <2>4. content = "as" <=> h.second = "guard"
    OBVIOUS
  <2>5. ParamsSay("v2", h, params)
    BY <1>2, <2>3, ParamsSayAll, Zenon DEF ListOps
  <2> HIDE DEF content
  <2>6. MapperSays(h, ModelsMapper(content))
    BY <1>2, <2>4, MapperSaysAll DEF ListOps
  <2> QED BY <1>2, <2>2, <2>5, <2>6, PlainSays
<1>3. CASE h.op \in {"getElementById", "getElementByName"}
  <2> DEFINE params == Params(h, FormatOf(h))
  <2>1. r = GetElementV2(h)
    BY <1>3, DispatchV2
  <2>2. IsPlain(r, params, GuardedMapper(h.second))
    BY <2>1, PlainRequest, Zenon DEF GetElementV2
  <2>3. params = Params(h, ClientFormat("v2", h))
    BY <1>3 DEF ClientFormat, ClientFormatV2
  <2>4. ParamsSay("v2", h, params) /\ MapperSays(h, GuardedMapper(h.second))
    BY <1>3, <2>3, ParamsSayAll, MapperSaysAll DEF ListOps, NoModelOps, ServerOps
  <2> QED BY <1>3, <2>2, <2>4, PlainSays
<1>4. CASE h.op \in BodyOps
  <2> DEFINE params == Params(h, FormatOf(h))
             body == Encode(h.body, FormatOf(h))
             carries == Carries("model", NoEdit)
  <2>1. \E method : r = SendBody(h, method)
    BY <1>4, DispatchV2 DEF CreateV2, UpdateV2, BodyOps
  <2>2. body = Unencodable \/ body.form \in Forms
    BY EncodedBody
  <2> HIDE DEF body
  <2>3. IsSent(r, params, GuardedMapper(h.second), carries)
    BY <2>1, <2>2, SentRequest, Zenon DEF SendBody, body
  <2>4. params = Params(h, ClientFormat("v2", h))
    BY <1>4 DEF ClientFormat, ClientFormatV2, BodyOps
  <2>5. ParamsSay("v2", h, params) /\ MapperSays(h, GuardedMapper(h.second))
    BY <1>4, <2>4, ParamsSayAll, MapperSaysAll DEF BodyOps, NoModelOps, ServerOps
  <2>6. carries.kind = "model"
    BY DEF Carries
  <2>7. CarriesSay("v2", h, carries) /\ ~NothingToDo(h)
    BY <1>4, <2>6 DEF CarriesSay, BodyOps, NothingToDo
  <2> QED BY <2>3, <2>5, <2>7, SentSays
<1>5. CASE h.op = "subscribe"
  <2>1. r = SubscriptionV2(h)
    BY <1>5, DispatchV2
  <2>2. r.kind = "subscription" /\ r.query = SubscriptionQueryV2(BackendOptions(h))
    BY <2>1 DEF SubscriptionV2
  <2> QED BY <1>5, <2>2 DEF Says, QueryOfClient, NothingToDo
<1>6. CASE h.op = "configureServer"
  BY <1>6, DispatchV2, ConfigureSays
<1>7. CASE h.op = "getUiSchema"
  BY <1>7, DispatchV2, UiSchemaSays
<1>8. CASE h.op = "counter"
  <2>1. r = Counter
    BY <1>8, DispatchV2
  <2>2. IsPlain(r, [operation |-> "none", delta |-> "none"], Mapper("asObject"))
    BY <2>1, PlainRequest, Zenon DEF Counter
  <2>3. ParamsSay("v2", h, [operation |-> "none", delta |-> "none"])
    BY ParamsSayAll
  <2>4. MapperSays(h, Mapper("asObject"))
    BY <1>8, MapperSaysAll DEF ListOps, BodyOps, MapperNames
  <2> QED BY <1>8, <2>2, <2>3, <2>4, PlainSays
<1>9. CASE h.op \in ServerOps
  <2>1. r = SendServer(h)
    BY <1>9, DispatchV2
  <2> QED BY <1>9, <2>1, ServerSays
<1>10. CASE h.op \in ModelOps
  <2>1. r = SendModel(h, ModelRequests("patchModel"))
    BY <1>10, DispatchV2 DEF SimpleRequestsV2
  <2> QED BY <1>10, <2>1, ModelSays DEF MapperNames
<1>11. CASE h.op = "edit"
  <2>1. r = BackendEditV2(h)
    BY <1>11, DispatchV2
  <2> QED BY <1>11, <2>1, EditSaysV2
<1> QED BY <1>1, <1>2, <1>3, <1>4, <1>5, <1>6, <1>7, <1>8, <1>9, <1>10, <1>11
        DEF OpsV1, ListOps, OtherOps

(* ... and of the first.                                                   *)
LEMMA FormattedSays ==
    ASSUME NEW h, h.op \in ListOps \union BodyOps, h.op # "getAll",
           NEW method, NEW path, NEW q, q = SendFormatted(h, method, path)
    PROVE  /\ q = Request(method, path, Params(h, ClientFormat("v1", h)), CreateMapper(h.second))
           /\ ParamsSay("v1", h, Params(h, ClientFormat("v1", h))) /\ MapperSays(h, CreateMapper(h.second))
<1>1. h.op # "edit" /\ h.op \notin NoModelOps
  BY DEF ListOps, BodyOps, NoModelOps, ServerOps
<1>2. ClientFormat("v1", h) = FormatOfV1(h)
  BY <1>1 DEF ClientFormat, ClientFormatV1
<1>3. q = Request(method, path, Params(h, ClientFormat("v1", h)), CreateMapper(h.second))
  BY <1>2, Zenon DEF SendFormatted
<1> QED BY <1>1, <1>3, ParamsSayAll, MapperSaysAll

LEMMA SaysV1 ==
    ASSUME NEW h, h.op \in OpsV1, h.body = Body(h.body.form, h.body.tree), h.body.form \in Forms,
           NEW r, r = RequestV1(h)
    PROVE  Says("v1", h, r)
<1> DEFINE params == Params(h, ClientFormat("v1", h))
           mapper == CreateMapper(h.second)
<1>1. CASE h.op \in ListOps \ {"getAll"}
  <2>1. \E method, path : r = SendFormatted(h, method, path)
    BY <1>1, DispatchV1 DEF GetV1, GetElementV1, ListOps
  <2>2. \E method, path : r = Request(method, path, params, mapper)
    BY <1>1, <2>1, FormattedSays, Zenon
  <2>3. ParamsSay("v1", h, params) /\ MapperSays(h, mapper)
    BY <1>1, <2>1, FormattedSays, Zenon
  <2> HIDE DEF params, mapper
  <2>4. IsPlain(r, params, mapper)
    BY <2>2, PlainRequest, Zenon
  <2>5. h.op # "edit"
    BY <1>1 DEF ListOps
  <2> QED BY <2>3, <2>4, <2>5, PlainSays
<1>2. CASE h.op = "getAll"
  <2> DEFINE content == CreateMapper(h.second).name
             all == [format |-> FormatOfV1(h)]
  <2>1. r = Request("GET", ModelServerPaths.MODEL_CRUD, all, ModelsMapper(content))
    BY <1>2, DispatchV1 DEF GetAllV1
  <2>2. all = [format |-> ClientFormat("v1", h)]
    BY <1>2 DEF ClientFormat, ClientFormatV1
  <2>3. content = "as" <=> h.second = "guard"
    BY DEF CreateMapper, Mapper
  <2>4. ParamsSay("v1", h, all)
    BY <1>2, <2>2, ParamsSayAll, Zenon DEF ListOps
  <2> HIDE DEF content, all
  <2>5. MapperSays(h, ModelsMapper(content))
    BY <1>2, <2>3, MapperSaysAll DEF ListOps
  <2>6. IsPlain(r, all, ModelsMapper(content))
    BY <2>1, PlainRequest, Zenon
  <2> QED BY <1>2, <2>4, <2>5, <2>6, PlainSays
<1>3. CASE h.op \in BodyOps
  <2> DEFINE carries == Carries("model", NoEdit)
  <2>1. \E method, path : r = WithBody(SendFormatted(h, method, path), h.body, carries)
    BY <1>3, DispatchV1 DEF CreateV1, UpdateV1, Unencoded, BodyOps
  <2>2. \E method, path : r = WithBody(Request(method, path, params, mapper), h.body, carries)
    BY <1>3, <2>1, FormattedSays, Zenon DEF BodyOps
  <2>3. ParamsSay("v1", h, params) /\ MapperSays(h, mapper)
    BY <1>3, <2>1, FormattedSays, Zenon DEF BodyOps
  <2>4. carries.kind = "model"
    BY DEF Carries
  <2> HIDE DEF params, mapper, carries
  <2>5. IsSent(r, params, mapper, carries)
    BY <2>2, SentRequest, Zenon
  <2>6. CarriesSay("v1", h, carries)
    BY <1>3, <2>4 DEF CarriesSay, BodyOps
  <2> QED BY <2>3, <2>5, <2>6, SentSays
<1>4. CASE h.op = "edit"
  <2> DEFINE carries == Carries("command", h.edit)
  <2>1. ClientFormat("v1", h) = DefaultFormatV1
    BY <1>4 DEF ClientFormat, ClientFormatV1
  <2>2. r = WithBody(Request("PATCH", ModelServerPaths.EDIT, params, Mapper("isSuccess")), h.body, carries)
    BY <1>4, <2>1, DispatchV1, Zenon DEF EditV1, Unencoded
  <2>3. ParamsSay("v1", h, params)
    BY <1>4, ParamsSayAll DEF NoModelOps, ServerOps
  <2>4. MapperSays(h, Mapper("isSuccess"))
    BY <1>4, MapperSaysAll DEF ListOps, BodyOps, MapperNames
  <2>5. carries.kind = "command" /\ carries.edit = h.edit
    BY DEF Carries
  <2> HIDE DEF params, carries
  <2>6. CarriesSay("v1", h, carries)
    BY <1>4, <2>5 DEF CarriesSay
  <2>7. IsSent(r, params, Mapper("isSuccess"), carries)
    BY <2>2, SentRequest, Zenon
  <2> QED BY <2>3, <2>4, <2>6, <2>7, SentSays
<1>5. CASE h.op = "subscribe"
  <2>1. r = SubscriptionV1(h)
    BY <1>5, DispatchV1
  <2>2. r.kind = "subscription" /\ r.query = SubscriptionQueryV1(h.options)
    BY <2>1 DEF SubscriptionV1
  <2> QED BY <1>5, <2>2 DEF Says, QueryOfClient, NothingToDo
<1>6. CASE h.op = "configureServer"
  BY <1>6, DispatchV1, ConfigureSays
<1>7. CASE h.op = "getUiSchema"
  BY <1>7, DispatchV1, UiSchemaSays
<1>8. CASE h.op \in ServerOps
  BY <1>8, DispatchV1, ServerSays
<1>9. CASE h.op \in ModelOps
  <2>1. r = SendModel(h, ModelRequests("asString"))
    BY <1>9, DispatchV1 DEF SimpleRequestsV1
  <2> QED BY <1>9, <2>1, ModelSays DEF MapperNames
<1> QED BY <1>1, <1>2, <1>3, <1>4, <1>5, <1>6, <1>7, <1>8, <1>9 DEF OpsV1, OtherOps

(* What the request of a call says.                                        *)
LEMMA RequestSays ==
    ASSUME NEW c, Made(c), NEW r, r = RequestOf(c)
    PROVE  Says(c.api, ToClient(c), r)
<1> DEFINE h == ToClient(c)
<1>1. SameCall(c.given, h)
  BY ToClientCall
<1>2. WellFormed(c.api, c.given) /\ c.api \in {"v1", "v2"}
  BY DEF Made
<1> HIDE DEF h
<1>3. /\ Shape(h) /\ h.op = c.given.op
      /\ h.body = Body(h.body.form, h.body.tree) /\ h.body.form \in Forms
  <2>1. c.given.body = Body(c.given.body.form, c.given.body.tree) /\ c.given.body.form \in Forms
    BY <1>2 DEF WellFormed, IsCall, HasBody, Forms
  <2>2. Shape(h) /\ h.op = c.given.op /\ h.body = c.given.body
    BY <1>1 DEF SameCall
  <2> QED BY <2>1, <2>2, Zenon
<1>4. CASE c.api = "v1"
  <2>1. h.op \in OpsV1
    BY <1>2, <1>3, <1>4 DEF WellFormed
  <2>2. r = RequestV1(h)
    BY <1>4 DEF RequestOf, h
  <2> QED BY <1>3, <1>4, <2>1, <2>2, SaysV1 DEF h
<1>5. CASE c.api = "v2"
  <2>1. h.op \in OpsV1 \union {"counter"}
    BY <1>2, <1>3, <1>5 DEF WellFormed
  <2>2. r = RequestV2(h)
    BY <1>5 DEF RequestOf, h
  <2> QED BY <1>3, <1>5, <2>1, <2>2, SaysV2 DEF h
<1> QED BY <1>2, <1>4, <1>5
----------------------------------------------------------------------------
(* What the server removes.                                                *)

LEMMA RemovedAtListed == \A l, n : RemovedAt(l, n) \subseteq Range(l)
  BY DEF RemovedAt, Range

LEMMA RemovedListed ==
    ASSUME NEW r
    PROVE  RemovedBy(r) \subseteq Range(list)
<1> DEFINE edit == r.carries.edit
<1>1. CASE edit.form = "command" /\ edit.command.type = "remove"
  <2>1. RemovedBy(r) = UNION { RemovedAt(list, i.index) : i \in Range(edit.command.indices) }
    BY <1>1 DEF RemovedBy
  <2> QED BY <2>1, RemovedAtListed
<1>2. CASE edit.form = "command" /\ edit.command.type # "remove"
  BY <1>2 DEF RemovedBy
<1>3. CASE edit.form # "command"
  <2>1. RemovedBy(r) = UNION { Removes(list, o) : o \in Range(edit.operations) }
    BY <1>3 DEF RemovedBy
  <2>2. \A o : Removes(list, o) \subseteq Range(list)
    <3>1. \A S : S \intersect ToSet(list) \subseteq Range(list)
      BY DEF ToSet, Range
    <3> QED BY <3>1, RemovedAtListed DEF Removes
  <2> QED BY <2>1, <2>2
<1> QED BY <1>1, <1>2, <1>3

LEMMA OneOf == \A x : Range(<<x>>) = {x} /\ ToSet(<<x>>) = {x}
  BY DEF Range, ToSet

LEMMA RemovesMeant ==
    ASSUME Made(call), call.api = "v2", RemovesFrom(copy, given), IsList(list), IsList(copy),
           request = RequestOf(call), request.kind = "request"
    PROVE  /\ IsEdit(request)
           /\ \/ RemovedBy(request) = {given.element}
              \/ RemovedBy(request) = {} /\ given.element \notin Range(list)
              \/ ByIndex /\ copy # list
<1> DEFINE h == ToClient(call)
           edit == request.carries.edit
           removed == RemovedBy(request)
           e == given.element
<1>1. SameCall(given, h) /\ Says("v2", h, request)
  BY ToClientCall, RequestSays DEF given
<1>2. h.op = "edit" /\ h.edit.form = given.edit.form /\ h.edit.command = given.edit.command
      /\ h.edit.operations = given.edit.operations
  BY <1>1 DEF SameCall, RemovesFrom
<1> HIDE DEF h
<1>3. /\ IsEdit(request)
      /\ edit.form = given.edit.form /\ edit.command = given.edit.command
      /\ edit.operations = given.edit.operations
  BY <1>1, <1>2 DEF Says, CarriesSay, IsEdit
<1> HIDE DEF edit
<1>4. CASE RemovesObject(given)
  <2>1. given.edit.form = "patch" /\ given.edit.operations = <<DeleteElement(e)>>
    BY <1>4 DEF RemovesObject, PatchEdit, EditOf
  <2>2. removed = UNION { Removes(list, o) : o \in {DeleteElement(e)} }
    BY <1>3, <2>1, OneOf DEF RemovedBy, edit
  <2>3. Removes(list, DeleteElement(e)) = {e} \intersect ToSet(list)
    BY DEF Removes, DeleteElement, Operation, ObjectPath, IsRemove
  <2>4. removed = {e} \intersect Range(list)
    <3> HIDE DEF e
    <3> QED BY <2>2, <2>3 DEF ToSet, Range
  <2> QED BY <1>3, <2>4
<1>5. ASSUME NEW i \in Nat, i + 1 \in DOMAIN copy, copy[i + 1] = e, RemovesIndex(given, i)
      PROVE  removed = {e} \/ (ByIndex /\ copy # list)
  <2>1. copy = list => RemovedAt(list, i) = {e}
    BY <1>5 DEF RemovedAt
  <2>2. CASE given.edit = PatchEdit(<<RemoveValueAt(i)>>)
    <3>1. given.edit.form = "patch" /\ given.edit.operations = <<RemoveValueAt(i)>>
      BY <2>2 DEF PatchEdit, EditOf
    <3>2. removed = UNION { Removes(list, o) : o \in {RemoveValueAt(i)} }
      BY <1>3, <3>1, OneOf DEF RemovedBy, edit
    <3>3. Removes(list, RemoveValueAt(i)) = RemovedAt(list, i)
      BY DEF Removes, RemoveValueAt, Operation, PropertyPath, IsRemove
    <3>4. RemoveValueAt(i).path.feature
      BY DEF RemoveValueAt, Operation, PropertyPath
    <3>5. ByIndex
      BY <3>1, <3>4, OneOf DEF ByIndex
    <3> QED BY <2>1, <3>2, <3>3, <3>5
  <2>3. CASE given.edit = CommandEdit(RemovingAt(<<Index(i)>>).command)
    <3>1. RemovingAt(<<Index(i)>>).command = RemoveCommand(<<Index(i)>>)
      BY DEF RemovingAt, Meant
    <3>2. isNumberArray(<<Index(i)>>)
      BY OneOf DEF isNumberArray, Index
    <3>3. /\ RemoveCommand(<<Index(i)>>).type = "remove"
          /\ RemoveCommand(<<Index(i)>>).indices = <<Index(i)>>
      BY <3>2 DEF RemoveCommand, Command
    <3>4. given.edit.form = "command" /\ given.edit.command = RemoveCommand(<<Index(i)>>)
      BY <2>3, <3>1 DEF CommandEdit, EditOf
    <3>5. removed = UNION { RemovedAt(list, j.index) : j \in {Index(i)} }
      BY <1>3, <3>3, <3>4, OneOf DEF RemovedBy, edit
    <3>6. Index(i).index = i
      BY DEF Index
    <3>7. ByIndex
      BY <3>4 DEF ByIndex
    <3> QED BY <2>1, <3>5, <3>6, <3>7
  <2> QED BY <1>5, <2>2, <2>3 DEF RemovesIndex
<1> QED BY <1>3, <1>4, <1>5 DEF RemovesFrom

----------------------------------------------------------------------------
(* The inductive invariant.  Either there is no call, or one of a client's *)
(* callers with the request that is made of it; it was not answered yet,   *)
(* or the server handled or refused it, and the caller gets that answer as *)
(* the mapper of the request maps it.                                      *)

AnyData == AnswerData \union {Data("guarded")}
Success(a) == \E d \in AnyData : a = Answer("ok", "message", Message("success", d))
Refusal(a) ==
    \/ \E d \in AnyData : a = Answer("failed", "message", Message("error", d))
    \/ \E d \in AnyData, t \in {"warning", "error"} : a = Answer("ok", "message", Message(t, d))
    \/ a \in TextAnswers

AtRest ==
    call = NoCall /\ request = NoRequest /\ effect = NoEffect /\ answer = NotAnswered /\ outcome = Pending

Underway ==
    /\ Made(call) /\ request = RequestOf(call)
    /\ given.element = 0 \/ (call.api = "v2" /\ RemovesFrom(copy, given))

Unheard == answer = NotAnswered /\ effect = NoEffect /\ outcome = EndsAtOnce(call, request)

Handled ==
    /\ effect.done = TRUE /\ effect.removed \subseteq Elements /\ IsList(effect.seen)
    /\ RemovesWhatWasMeant
    /\ Success(answer) \/ answer = Unanswered

Refused == effect = NoEffect /\ (Refusal(answer) \/ answer = Unanswered)

Heard ==
    /\ request.kind = "request"
    /\ Handled \/ Refused
    /\ outcome \in {Pending, ToCaller(call, Process(answer, request.mapper))}

CallsInv ==
    /\ IsList(list) /\ IsList(copy)
    /\ AtRest \/ (Underway /\ (Unheard \/ Heard))
LEMMA Statuses ==
    /\ NotAnswered.status = "pending" /\ Unanswered.status = "failed"
    /\ \A a : Success(a) => a.status = "ok"
    /\ \A a : Refusal(a) => a.status \in {"ok", "failed"}
<1>1. \A status, body, message : Answer(status, body, message).status = status
  BY DEF Answer
<1>2. NotAnswered.status = "pending" /\ Unanswered.status = "failed"
  BY <1>1 DEF NotAnswered, Unanswered
<1>3. \A a : Success(a) => a.status = "ok"
  BY <1>1 DEF Success
<1>4. ASSUME NEW a, Refusal(a) PROVE a.status \in {"ok", "failed"}
  <2>1. a \in TextAnswers => a.status \in {"ok", "failed"}
    BY <1>1 DEF TextAnswers
  <2> QED BY <1>1, <1>4, <2>1 DEF Refusal
<1> QED BY <1>2, <1>3, <1>4

LEMMA AnswersSent ==
    /\ \A a \in OkAnswers({"success"}) : Success(a)
    /\ \A a \in Refusals : Refusal(a)
<1>1. DataSent \subseteq AnyData
  BY DEF DataSent, AnyData
<1>2. ASSUME NEW types, NEW a \in OkAnswers(types)
      PROVE  \E t \in types, d \in AnyData : a = Answer("ok", "message", Message(t, d))
  BY <1>1, <1>2 DEF OkAnswers, MessagesOf
<1>3. ASSUME NEW a \in FailedAnswers PROVE Refusal(a)
  <2>1. \E d \in AnyData : a = Answer("failed", "message", Message("error", d))
    BY <1>1, <1>3 DEF FailedAnswers, MessagesOf
  <2> QED BY <2>1 DEF Refusal
<1>4. \A a \in OkAnswers({"success"}) : Success(a)
  <2>1. ASSUME NEW a \in OkAnswers({"success"}) PROVE Success(a)
    <3>1. PICK t \in {"success"}, d \in AnyData : a = Answer("ok", "message", Message(t, d))
      BY <1>2
    <3> QED BY <3>1 DEF Success
  <2> QED BY <2>1
<1>5. ASSUME NEW a \in OkAnswers({"warning", "error"}) PROVE Refusal(a)
  <2>1. PICK t \in {"warning", "error"}, d \in AnyData : a = Answer("ok", "message", Message(t, d))
    BY <1>2
  <2> QED BY <2>1, Zenon DEF Refusal
<1>6. \A a \in TextAnswers : Refusal(a)
  BY DEF Refusal
<1> QED BY <1>3, <1>4, <1>5, <1>6, Zenon DEF Refusals

LEMMA Exclusive ==
    /\ ~(call = NoCall /\ Made(call))
    /\ request = NoRequest => request.kind = "none"
    /\ Heard => answer # NotAnswered
    /\ \A c, r : r.kind = "request" => EndsAtOnce(c, r) = Pending
  BY Statuses DEF NoCall, Made, NoRequest, Heard, Handled, Refused, EndsAtOnce

LEMMA GetIsNoRemoval == GetCall.given.element = 0 /\ Made(GetCall)
  BY OtherCallsWell

LEMMA InitCalls == Init => CallsInv
  BY EmptyList DEF Init, CallsInv, AtRest

LEMMA MakeKeeps ==
    ASSUME CallsInv, NEW c, Make(c),
           Made(c), c.given.element = 0 \/ (c.api = "v2" /\ RemovesFrom(copy, c.given))
    PROVE  CallsInv'
<1>1. AtRest
  BY Exclusive DEF Make, Idle, CallsInv, Underway
<1>2. /\ call' = c /\ request' = RequestOf(c) /\ outcome' = EndsAtOnce(c, request')
      /\ list' = list /\ copy' = copy /\ effect' = effect /\ answer' = answer
  BY DEF Make, listVars
<1>3. Underway'
  BY <1>2 DEF Underway, given
<1>4. Unheard'
  BY <1>1, <1>2 DEF AtRest, Unheard
<1> QED BY <1>2, <1>3, <1>4 DEF CallsInv

LEMMA WaitingIs ==
    ASSUME CallsInv, Waiting
    PROVE  Underway /\ Unheard /\ outcome = Pending /\ request.kind = "request"
  BY Exclusive DEF CallsInv, AtRest, Waiting, Unheard

LEMMA HandlesKeeps ==
    ASSUME CallsInv, ServerHandles
    PROVE  CallsInv'
<1> DEFINE removed == IF IsEdit(request) THEN RemovedBy(request) ELSE {}
           seen == IF call = GetCall THEN list ELSE <<>>
           stale == copy # list
           there == given.element \in Range(list)
           meaning == ReadEdit(request)
<1>1. Underway /\ Unheard /\ outcome = Pending /\ request.kind = "request" /\ IsList(list) /\ IsList(copy)
  BY WaitingIs DEF ServerHandles, CallsInv
<1>2. /\ list' = Without(list, removed)
      /\ effect' = [done |-> TRUE, meaning |-> meaning, removed |-> removed, there |-> there,
                    stale |-> stale, seen |-> seen]
      /\ Success(answer') \/ answer' = Unanswered
      /\ copy' = copy /\ call' = call /\ request' = request /\ outcome' = outcome
  BY AnswersSent DEF ServerHandles
<1>3. IsList(list') /\ IsList(copy')
  BY <1>1, <1>2, WithoutKeepsList
<1>4. removed \subseteq Elements /\ IsList(seen)
  <2>1. Range(list) \subseteq Elements
    BY <1>1 DEF IsList, Range
  <2> QED BY <1>1, <2>1, RemovedListed, EmptyList
<1>5. given.element # 0 =>
          removed = {given.element} \/ (removed = {} /\ ~there) \/ (ByIndex /\ stale)
  BY <1>1, RemovesMeant DEF Underway
<1> HIDE DEF removed, seen, stale, there, meaning
<1>6. /\ effect'.done = TRUE /\ effect'.removed = removed /\ effect'.there = there
      /\ effect'.stale = stale /\ effect'.seen = seen
  BY <1>2
<1>7. RemovesWhatWasMeant'
  BY <1>2, <1>5, <1>6 DEF RemovesWhatWasMeant, given, ByIndex
<1>8. Handled'
  BY <1>2, <1>4, <1>6, <1>7 DEF Handled
<1>9. Heard'
  BY <1>1, <1>2, <1>8 DEF Heard
<1>10. Underway'
  BY <1>1, <1>2 DEF Underway, given
<1> QED BY <1>3, <1>9, <1>10 DEF CallsInv

LEMMA RefusesKeeps ==
    ASSUME CallsInv, ServerRefuses
    PROVE  CallsInv'
<1>1. Underway /\ Unheard /\ outcome = Pending /\ request.kind = "request" /\ IsList(list) /\ IsList(copy)
  BY WaitingIs DEF ServerRefuses, CallsInv
<1>2. /\ Refusal(answer') \/ answer' = Unanswered
      /\ list' = list /\ copy' = copy /\ call' = call /\ request' = request /\ effect' = effect
      /\ outcome' = outcome
  BY AnswersSent DEF ServerRefuses, listVars
<1>3. Heard'
  BY <1>1, <1>2 DEF Heard, Refused, Unheard
<1>4. Underway'
  BY <1>1, <1>2 DEF Underway, given
<1> QED BY <1>1, <1>2, <1>3, <1>4 DEF CallsInv

LEMMA EndsKeeps ==
    ASSUME CallsInv, Ends
    PROVE  CallsInv'
<1>1. answer # NotAnswered /\ IsList(list) /\ IsList(copy)
  BY DEF Ends, CallsInv
<1>2. Underway /\ Heard
  BY <1>1 DEF CallsInv, AtRest, Unheard
<1>3. /\ outcome' = ToCaller(call, Process(answer, request.mapper))
      /\ copy' = copy \/ (copy' = effect.seen /\ call = GetCall)
      /\ list' = list /\ call' = call /\ request' = request /\ effect' = effect /\ answer' = answer
  BY DEF Ends
<1>4. IsList(effect.seen)
  BY <1>2, EmptyList DEF Heard, Handled, Refused, NoEffect
<1>5. Heard'
  <2>1. Handled' <=> Handled
    BY <1>3 DEF Handled, RemovesWhatWasMeant, given, ByIndex
  <2>2. Refused' <=> Refused
    BY <1>3 DEF Refused
  <2> QED BY <1>2, <1>3, <2>1, <2>2 DEF Heard
<1>6. Underway'
  BY <1>2, <1>3, GetIsNoRemoval DEF Underway, given
<1> QED BY <1>1, <1>3, <1>4, <1>5, <1>6 DEF CallsInv

LEMMA OthersKeep ==
    ASSUME CallsInv, OthersChange
    PROVE  CallsInv'
<1>1. IsList(list) /\ IsList(copy)
  BY DEF CallsInv
<1>2. copy' = copy /\ call' = call /\ request' = request /\ effect' = effect /\ answer' = answer
      /\ outcome' = outcome
  BY DEF OthersChange, callVars
<1>3. IsList(list')
  <2>1. CASE \E e \in Elements \ Range(list), i \in 1..(Len(list) + 1) : list' = InsertAt(list, i, e)
    BY <1>1, <2>1, InsertKeepsList
  <2>2. CASE \E i \in DOMAIN list : list' = RemoveAt(list, i)
    <3>1. DOMAIN list = 1..Len(list)
      BY <1>1 DEF IsList
    <3> QED BY <1>1, <2>2, <3>1, RemoveKeepsList
  <2> QED BY <2>1, <2>2 DEF OthersChange
<1>4. (AtRest <=> AtRest') /\ (Underway <=> Underway')
  BY <1>2 DEF AtRest, Underway, given
<1>5. (Unheard <=> Unheard') /\ (Heard <=> Heard')
  BY <1>2 DEF Unheard, Heard, Handled, Refused, RemovesWhatWasMeant, given, ByIndex
<1> QED BY <1>1, <1>2, <1>3, <1>4, <1>5 DEF CallsInv

LEMMA StepKeeps == CallsInv /\ [Next]_vars => CallsInv'
<1> SUFFICES ASSUME CallsInv, [Next]_vars PROVE CallsInv'
  OBVIOUS
<1>1. ASSUME NEW c \in {GetCall} \union AllCalls, Make(c) PROVE CallsInv'
  BY <1>1, OtherCallsWell, MakeKeeps
<1>2. ASSUME NEW c \in RemovalCalls, Make(c) PROVE CallsInv'
  <2>1. copy \in Seq(Elements)
    BY DEF CallsInv, IsList
  <2>2. c.api = "v2" /\ Made(c) /\ RemovesFrom(copy, c.given)
    BY <1>2, <2>1, RemovalCallsWell DEF Made
  <2> QED BY <1>2, <2>2, MakeKeeps
<1>3. CASE Forget
  BY <1>3 DEF Forget, CallsInv, AtRest, listVars
<1>4. CASE UNCHANGED vars
  <2>1. /\ list' = list /\ copy' = copy /\ call' = call /\ request' = request /\ effect' = effect
        /\ answer' = answer /\ outcome' = outcome
    BY <1>4 DEF vars, listVars, callVars
  <2>2. (AtRest <=> AtRest') /\ (Underway <=> Underway')
    BY <2>1 DEF AtRest, Underway, given
  <2>3. (Unheard <=> Unheard') /\ (Heard <=> Heard')
    BY <2>1 DEF Unheard, Heard, Handled, Refused, RemovesWhatWasMeant, given, ByIndex
  <2> QED BY <2>1, <2>2, <2>3 DEF CallsInv
<1> QED BY <1>1, <1>2, <1>3, <1>4, HandlesKeeps, RefusesKeeps, EndsKeeps, OthersKeep DEF Next
----------------------------------------------------------------------------
(* What a call ends with.                                                  *)

HasFailed(a) == a.status = "failed" \/ a.message.type = "error"
SaysNothing(a) == a.body = "message" /\ a.message.data = NoData

LEMMA AnswerFields ==
    /\ \A status, body, message : LET a == Answer(status, body, message) IN
            a.status = status /\ a.body = body /\ a.message = message
    /\ \A type, data : LET m == Message(type, data) IN m.type = type /\ m.data = data
  BY DEF Answer, Message

LEMMA AnswersAre ==
    ASSUME NEW a
    PROVE  /\ Success(a) => /\ a.status = "ok" /\ a.message.type = "success" /\ a.message.data \in AnyData
           /\ Refusal(a) \/ a = Unanswered => a.status \in {"ok", "failed"} /\ a.message.type # "success"
           /\ Success(a) \/ Refusal(a) \/ a = Unanswered =>
                  /\ a.body = "message" \/ a.message.type = "none"
                  /\ a.body \in {"message", "text"} \/ a.status = "failed"
                  /\ a.message.data \in AnyData \union {NoData}
<1>1. ASSUME Success(a)
      PROVE  a.status = "ok" /\ a.body = "message" /\ a.message.type = "success" /\ a.message.data \in AnyData
  BY <1>1, AnswerFields DEF Success
<1>2. ASSUME Refusal(a)
      PROVE  /\ a.status \in {"ok", "failed"} /\ a.message.type # "success"
             /\ (a.body = "message" \/ (a.body = "text" /\ a.message.type = "none"))
             /\ a.message.data \in AnyData \union {NoData}
  <2>1. CASE \E d \in AnyData : a = Answer("failed", "message", Message("error", d))
    BY <2>1, AnswerFields
  <2>2. CASE \E d \in AnyData, t \in {"warning", "error"} : a = Answer("ok", "message", Message(t, d))
    BY <2>2, AnswerFields
  <2>3. CASE a \in TextAnswers
    BY <2>3, AnswerFields DEF TextAnswers, NoMessage
  <2> QED BY <1>2, <2>1, <2>2, <2>3, Zenon DEF Refusal
<1>3. a = Unanswered => a.status = "failed" /\ a.message.type = "none" /\ a.message.data = NoData
  BY AnswerFields DEF Unanswered, NoMessage
<1> QED BY <1>1, <1>2, <1>3

LEMMA ProcessIs ==
    ASSUME NEW a, Success(a) \/ Refusal(a) \/ a = Unanswered, NEW mapper, NEW r, r = Process(a, mapper)
    PROVE  /\ HasFailed(a) /\ SaysNothing(a) => r = Rejected("")
           /\ HasFailed(a) /\ ~SaysNothing(a) =>
                  r \in {Rejected("the reason of the server"), Rejected("the reason of the failure")}
           /\ ~HasFailed(a) => r = Map(mapper, a.message)
<1>1. a.status \in {"ok", "failed"} /\ (a.body = "message" \/ a.message.type # "error")
  BY AnswersAre
<1>2. ErrorText(a.message) = IF a.message.data = NoData THEN "" ELSE "the reason of the server"
  BY DEF ErrorText
<1>3. CASE a.status = "failed"
  <2>1. r = Rejected(FailureText(a)) /\ HasFailed(a)
    BY <1>3 DEF Process, HasFailed
  <2>2. CASE a.body = "message"
    BY <1>2, <2>1, <2>2 DEF FailureText, SaysNothing
  <2>3. CASE a.body # "message"
    BY <2>1, <2>3 DEF FailureText, SaysNothing
  <2> QED BY <2>2, <2>3
<1>4. CASE a.status = "ok" /\ a.message.type = "error"
  <2>1. r = Rejected(ErrorText(a.message)) /\ HasFailed(a) /\ a.body = "message"
    BY <1>1, <1>4 DEF Process, HasFailed
  <2> QED BY <1>2, <2>1 DEF SaysNothing
<1>5. CASE a.status = "ok" /\ a.message.type # "error"
  BY <1>5 DEF Process, HasFailed
<1> QED BY <1>1, <1>3, <1>4, <1>5

LEMMA ResultFields ==
    /\ \A value : Resolved(value).kind = "resolved" /\ Resolved(value).value = value
    /\ \A why : Rejected(why).kind = "rejected" /\ Rejected(why).value = why
    /\ \A success, patchable, update :
            LET r == UpdateResult(success, patchable, update)
            IN  /\ r.kind = "resolved" /\ r.value.kind = "update" /\ r.value.success = success
                /\ r.value.patchable = patchable /\ r.value.update = update
  BY DEF Resolved, Rejected, UpdateResult

(* Data, or why there is none, ...                                         *)
DataOrNot(r) == r = Rejected(CouldNotMap) \/ (r.kind = "resolved" /\ r.value.kind = "data")

(* ... whether it was a success, ...                                       *)
Tells(r, success) == r = Told(success)

(* ... or an update.                                                       *)
Updates(r, success, data) ==
    \E patchable, update :
        /\ r = UpdateResult(success, patchable, update)
        /\ update # NoUpdate => patchable = TRUE /\ data.kind = "updateResult" /\ update = data.update

LEMMA PatchModelUpdates ==
    ASSUME NEW m
    PROVE  Updates(PatchModel(m), m.type = "success", m.data)
<1> DEFINE update == IF m.data.kind = "updateResult" THEN m.data.update ELSE NoUpdate
           patched == update.patch # "none" \/ update.listed
<1>1. CASE m.type = "success" /\ patched
  <2>1. patched = TRUE
    BY <1>1
  <2>2. PatchModel(m) = UpdateResult(m.type = "success", TRUE, update)
    BY <1>1, <2>1 DEF PatchModel, IsSuccess
  <2>3. update # NoUpdate => m.data.kind = "updateResult" /\ update = m.data.update
    OBVIOUS
  <2> HIDE DEF update
  <2> QED BY <2>2, <2>3 DEF Updates
<1>2. CASE m.type = "success" /\ ~patched
  <2>1. PatchModel(m) = UpdateResult(m.type = "success", FALSE, NoUpdate)
    BY <1>2 DEF PatchModel, IsSuccess
  <2> QED BY <2>1 DEF Updates
<1>3. CASE m.type # "success"
  <2>1. PatchModel(m) = UpdateResult(m.type = "success", FALSE, NoUpdate)
    BY <1>3 DEF PatchModel, IsSuccess
  <2> QED BY <2>1 DEF Updates
<1> QED BY <1>1, <1>2, <1>3

LEMMA MapIs ==
    ASSUME NEW mapper, mapper.name \in MapperNames, NEW m, NEW r, r = Map(mapper, m)
    PROVE  DataOrNot(r) \/ Tells(r, m.type = "success") \/ Updates(r, m.type = "success", m.data)
<1>1. \A data : DataOrNot(Mapped(data))
  BY ResultFields DEF DataOrNot, Mapped
<1>2. \A guarded, data : DataOrNot(MapIf(guarded, data))
  BY <1>1 DEF MapIf, DataOrNot
<1>3. /\ DataOrNot(Mapped(AsString(m.data))) /\ DataOrNot(AsObject(m.data)) /\ DataOrNot(As(m.data))
      /\ DataOrNot(AsDiagnostic(m.data)) /\ DataOrNot(AsURIArray(m.data))
  BY <1>1, <1>2, Zenon DEF AsObject, As, AsDiagnostic, AsURIArray
<1>4. DataOrNot(AsModelArray(m.data, mapper.content))
  <2>1. AsModelArray(m.data, mapper.content) \in {Mapped(m.data), Rejected(CouldNotMap)}
    BY DEF AsModelArray
  <2> QED BY <1>1, <2>1 DEF DataOrNot
<1>5. CASE mapper.name = "isSuccess"
  BY <1>5 DEF Map, Tells, IsSuccess
<1>6. CASE mapper.name = "patchModel"
  <2>1. r = PatchModel(m)
    BY <1>6 DEF Map
  <2> QED BY <2>1, PatchModelUpdates
<1>7. CASE mapper.name \notin {"isSuccess", "patchModel"}
  <2>1. \/ r = Mapped(AsString(m.data)) \/ r = AsObject(m.data) \/ r = As(m.data)
        \/ r = AsDiagnostic(m.data) \/ r = AsURIArray(m.data) \/ r = AsModelArray(m.data, mapper.content)
    BY <1>7 DEF Map, MapperNames
  <2> QED BY <1>3, <1>4, <2>1, Zenon
<1> QED BY <1>5, <1>6, <1>7

(* On the way to a frontend only the function of an update is lost.        *)
LEMMA ReturnedIs ==
    /\ \A success, patchable, update :
            Returned(UpdateResult(success, patchable, update)) = UpdateResult(success, FALSE, update)
    /\ \A r : r.kind # "resolved" \/ r.value.kind # "update" => Returned(r) = r
<1>1. ASSUME NEW success, NEW patchable, NEW update
      PROVE  Returned(UpdateResult(success, patchable, update)) = UpdateResult(success, FALSE, update)
  <2> DEFINE r == UpdateResult(success, patchable, update)
  <2>1. r = [kind |-> "resolved",
             value |-> [kind |-> "update", success |-> success, patchable |-> patchable, update |-> update]]
    BY DEF UpdateResult, Resolved
  <2> HIDE DEF r
  <2>2. Returned(r) = [r EXCEPT !.value.patchable = FALSE]
    BY <2>1 DEF Returned
  <2>3. Returned(r) = [kind |-> "resolved",
                       value |-> [kind |-> "update", success |-> success, patchable |-> FALSE,
                                  update |-> update]]
    BY <2>1, <2>2
  <2> QED BY <2>3 DEF UpdateResult, Resolved, r
<1>2. \A r : r.kind # "resolved" \/ r.value.kind # "update" => Returned(r) = r
  BY DEF Returned
<1> QED BY <1>1, <1>2

(* ... whom the function of an update does not reach.                      *)
UpdatesCaller(c, r, success, data) ==
    \E patchable, update :
        /\ r = UpdateResult(success, patchable, update)
        /\ update # NoUpdate =>
               patchable = (c.caller # "frontend") /\ data.kind = "updateResult" /\ update = data.update

LEMMA ToCallerIs ==
    ASSUME NEW c, NEW r, NEW success, NEW data
    PROVE  /\ \A why : r = Rejected(why) => ToCaller(c, r) = Rejected(why)
           /\ DataOrNot(r) => DataOrNot(ToCaller(c, r))
           /\ Tells(r, success) => Tells(ToCaller(c, r), success)
           /\ Updates(r, success, data) => UpdatesCaller(c, ToCaller(c, r), success, data)
<1>1. \A why : Returned(Rejected(why)) = Rejected(why)
  BY ResultFields, ReturnedIs
<1>2. Returned(Told(success)) = Told(success)
  BY ResultFields, ReturnedIs DEF Told
<1>3. DataOrNot(r) => Returned(r) = r
  BY ResultFields, ReturnedIs DEF DataOrNot
<1>4. ASSUME Updates(r, success, data) PROVE UpdatesCaller(c, ToCaller(c, r), success, data)
  <2>1. PICK patchable, update :
            /\ r = UpdateResult(success, patchable, update)
            /\ update # NoUpdate => patchable = TRUE /\ data.kind = "updateResult" /\ update = data.update
    BY <1>4 DEF Updates
  <2>2. CASE c.caller = "frontend"
    <3>1. ToCaller(c, r) = UpdateResult(success, FALSE, update)
      <4>1. Returned(r) = UpdateResult(success, FALSE, update)
        BY <2>1, ReturnedIs, Zenon
      <4>2. ToCaller(c, r) = Returned(r)
        BY <2>2 DEF ToCaller
      <4> QED BY <4>1, <4>2
    <3> QED BY <2>1, <2>2, <3>1 DEF UpdatesCaller
  <2>3. CASE c.caller # "frontend"
    <3>1. ToCaller(c, r) = UpdateResult(success, patchable, update)
      BY <2>1, <2>3 DEF ToCaller
    <3> QED BY <2>1, <2>3, <3>1 DEF UpdatesCaller
  <2> QED BY <2>2, <2>3
<1> QED BY <1>1, <1>2, <1>3, <1>4 DEF ToCaller, Tells

LEMMA HeardIs ==
    ASSUME Underway, Heard
    PROVE  /\ request.mapper.name \in MapperNames
           /\ Success(answer) \/ Refusal(answer) \/ answer = Unanswered
           /\ effect.done <=> effect.done = TRUE
           /\ Success(answer) => effect.done = TRUE
           /\ effect.done = TRUE => Success(answer) \/ answer = Unanswered
<1>1. Says(call.api, ToClient(call), request)
  BY RequestSays DEF Underway
<1>2. request.mapper.name \in MapperNames
  BY <1>1 DEF Says, MapperSays, Heard
<1>3. Refusal(answer) \/ answer = Unanswered => ~Success(answer)
  BY AnswersAre
<1>4. CASE Handled
  BY <1>2, <1>3, <1>4 DEF Handled
<1>5. CASE Refused
  BY <1>2, <1>3, <1>5 DEF Refused, NoEffect
<1> QED BY <1>4, <1>5 DEF Heard

LEMMA OutcomeIs ==
    ASSUME Underway, Heard, outcome # Pending
    PROVE  /\ HasFailed(answer) /\ SaysNothing(answer) => outcome = Rejected("")
           /\ HasFailed(answer) /\ ~SaysNothing(answer) =>
                  outcome \in {Rejected("the reason of the server"), Rejected("the reason of the failure")}
           /\ ~HasFailed(answer) =>
                  \/ DataOrNot(outcome) \/ Tells(outcome, answer.message.type = "success")
                  \/ UpdatesCaller(call, outcome, answer.message.type = "success", answer.message.data)
<1> DEFINE r == Process(answer, request.mapper)
<1>1. outcome = ToCaller(call, r)
  BY DEF Heard
<1>2. /\ HasFailed(answer) /\ SaysNothing(answer) => r = Rejected("")
      /\ HasFailed(answer) /\ ~SaysNothing(answer) =>
             r \in {Rejected("the reason of the server"), Rejected("the reason of the failure")}
      /\ ~HasFailed(answer) => r = Map(request.mapper, answer.message)
  BY HeardIs, ProcessIs
<1> HIDE DEF r
<1>3. ~HasFailed(answer) =>
          \/ DataOrNot(r) \/ Tells(r, answer.message.type = "success")
          \/ Updates(r, answer.message.type = "success", answer.message.data)
  BY <1>2, HeardIs, MapIs
<1> DEFINE success == answer.message.type = "success"
           data == answer.message.data
<1>4. /\ \A why : r = Rejected(why) => outcome = Rejected(why)
      /\ DataOrNot(r) => DataOrNot(outcome)
      /\ Tells(r, success) => Tells(outcome, success)
      /\ Updates(r, success, data) => UpdatesCaller(call, outcome, success, data)
  <2> HIDE DEF success, data
  <2> QED BY <1>1, ToCallerIs
<1>5. ~HasFailed(answer) => DataOrNot(r) \/ Tells(r, success) \/ Updates(r, success, data)
  BY <1>3
<1> HIDE DEF success, data
<1>6. ~HasFailed(answer) =>
          DataOrNot(outcome) \/ Tells(outcome, success) \/ UpdatesCaller(call, outcome, success, data)
  BY <1>4, <1>5, Zenon
<1>7. /\ HasFailed(answer) /\ SaysNothing(answer) => outcome = Rejected("")
      /\ HasFailed(answer) /\ ~SaysNothing(answer) =>
             outcome \in {Rejected("the reason of the server"), Rejected("the reason of the failure")}
  BY <1>2, <1>4
<1> QED BY <1>6, <1>7 DEF success, data

(* Without an answer a call ends only when there is no request of it.      *)
LEMMA AtOnceIs ==
    ASSUME Underway, Unheard
    PROVE  /\ request.kind = "request" => outcome = Pending
           /\ request.kind # "request" =>
                  \/ outcome.kind \in {"subscribed", "thrown", "rejected"}
                  \/ /\ call.api = "v2" /\ NothingToDo(ToClient(call))
                     /\ \E patchable : outcome = UpdateResult(TRUE, patchable, NoUpdate)
<1>1. Says(call.api, ToClient(call), request)
  BY RequestSays DEF Underway
<1>2. outcome = EndsAtOnce(call, request)
  BY DEF Unheard
<1>3. CASE request.kind = "outcome"
  <2>1. outcome = ToCaller(call, UpdateResult(TRUE, TRUE, NoUpdate))
    BY <1>1, <1>2, <1>3 DEF EndsAtOnce, Says
  <2>2. \E patchable : outcome = UpdateResult(TRUE, patchable, NoUpdate)
    <3>1. Returned(UpdateResult(TRUE, TRUE, NoUpdate)) = UpdateResult(TRUE, FALSE, NoUpdate)
      BY ReturnedIs, Zenon
    <3> QED BY <2>1, <3>1, Zenon DEF ToCaller
  <2> QED BY <1>1, <1>3, <2>2 DEF Says
<1>4. CASE request.kind # "outcome"
  BY <1>1, <1>2, <1>4 DEF Says, EndsAtOnce, Rejected
<1> QED BY <1>3, <1>4

----------------------------------------------------------------------------
(* What is true of all behaviours.                                         *)

LEMMA CallsInvariant == Spec => []CallsInv
<1> QED BY InitCalls, StepKeeps, PTL DEF Spec

LEMMA OutcomeKinds ==
    ASSUME CallsInv
    PROVE  outcome.kind \in {"pending", "resolved", "rejected", "thrown", "subscribed"}
<1>1. /\ Pending.kind = "pending" /\ \A why : Rejected(why).kind = "rejected"
      /\ \A success, patchable, update : UpdateResult(success, patchable, update).kind = "resolved"
      /\ \A success : Told(success).kind = "resolved"
  BY ResultFields, Zenon DEF Pending, Told
<1>2. CASE AtRest
  BY <1>1, <1>2 DEF AtRest
<1>3. CASE Underway /\ Unheard
  <2>1. \/ outcome = Pending \/ outcome.kind \in {"subscribed", "thrown", "rejected"}
        \/ \E patchable : outcome = UpdateResult(TRUE, patchable, NoUpdate)
    BY <1>3, AtOnceIs
  <2> QED BY <1>1, <2>1
<1>4. CASE Underway /\ Heard
  <2>1. CASE outcome = Pending
    BY <1>1, <2>1
  <2>2. CASE outcome # Pending /\ HasFailed(answer)
    <3>1. \E why : outcome = Rejected(why)
      BY <1>4, <2>2, OutcomeIs
    <3> QED BY <1>1, <3>1
  <2>3. CASE outcome # Pending /\ ~HasFailed(answer)
    <3> DEFINE success == answer.message.type = "success"
               data == answer.message.data
    <3>1. DataOrNot(outcome) \/ Tells(outcome, success) \/ UpdatesCaller(call, outcome, success, data)
      BY <1>4, <2>3, OutcomeIs
    <3> HIDE DEF success, data
    <3>2. DataOrNot(outcome) => outcome.kind \in {"resolved", "rejected"}
      BY <1>1 DEF DataOrNot
    <3>3. Tells(outcome, success) => outcome.kind = "resolved"
      BY <1>1 DEF Tells
    <3>4. UpdatesCaller(call, outcome, success, data) => outcome.kind = "resolved"
      BY <1>1 DEF UpdatesCaller
    <3> QED BY <3>1, <3>2, <3>3, <3>4
  <2> QED BY <2>1, <2>2, <2>3
<1> QED BY <1>2, <1>3, <1>4 DEF CallsInv

(* The lists have elements, each once; callers, requests, effects and      *)
(* outcomes are of the kinds there are.                                    *)
THEOREM CallsTyped == Spec => []CallsTypeOK
<1>1. ASSUME CallsInv PROVE CallsTypeOK
  <2>1. /\ IsInjective(list) /\ Range(list) \subseteq Elements
        /\ IsInjective(copy) /\ Range(copy) \subseteq Elements
    BY <1>1 DEF CallsInv, IsList, Range
  <2>2. Idle \/ (call.caller \in {"node", "frontend"} /\ call.api \in {"v1", "v2"})
    BY <1>1 DEF CallsInv, AtRest, Idle, Underway, Made
  <2>3. /\ request.kind \in {"none", "request", "subscription", "thrown", "outcome"}
        /\ request.kind = "request" => request.body.form \in {"none", "object", "text", "noJson"}
    <3>1. CASE AtRest
      BY <3>1 DEF AtRest, NoRequest
    <3>2. CASE Underway
      BY <3>2, RequestSays DEF Underway, Says, Forms
    <3> QED BY <1>1, <3>1, <3>2 DEF CallsInv
  <2>4. effect.removed \subseteq Elements
    BY <1>1 DEF CallsInv, AtRest, Unheard, Heard, Handled, Refused, NoEffect
  <2> QED BY <1>1, <2>1, <2>2, <2>3, <2>4, OutcomeKinds DEF CallsTypeOK
<1> QED BY <1>1, CallsInvariant, PTL

(* What a call removes is the element it was made for, or nothing, unless  *)
(* it was by an index in a copy that is not the list any more.             *)
THEOREM CallsRemoveWhatWasMeant == Spec => []RemovesWhatWasMeant
<1>1. CallsInv => RemovesWhatWasMeant
  BY DEF CallsInv, AtRest, Unheard, Heard, Handled, Refused, NoEffect, RemovesWhatWasMeant
<1> QED BY <1>1, CallsInvariant, PTL
(* Who is told of success or not has something to hear.                    *)
LEMMA NoDifference ==
    ASSUME Underway
    PROVE  /\ call.api = "v2" /\ NothingToDo(ToClient(call)) => MakesNoDifference
           /\ MakesNoDifference => request.kind # "request"
<1> DEFINE h == ToClient(call)
<1>1. WellFormed(call.api, given) /\ call.api \in {"v1", "v2"}
  BY DEF Underway, Made, given
<1>2. /\ given.edit.form = "patch" => given.edit = PatchEdit(given.edit.operations)
      /\ given.edit.form = "patch" => given.op = "edit" /\ call.api = "v2"
  BY <1>1, EditForms
<1>3. SameCall(given, h)
  BY ToClientCall DEF Underway, given
<1>4. Says(call.api, h, request)
  BY RequestSays DEF Underway
<1> HIDE DEF h
<1>5. NothingToDo(h) => MakesNoDifference
  BY <1>2, <1>3 DEF NothingToDo, SameCall, MakesNoDifference
<1>6. ASSUME MakesNoDifference PROVE request.kind # "request"
  <2>1. given.op = "edit" /\ given.edit.form = "patch" /\ given.edit.operations = <<>>
    BY <1>6 DEF MakesNoDifference, PatchEdit, EditOf
  <2>2. NothingToDo(h) /\ call.api = "v2"
    BY <1>2, <1>3, <2>1 DEF NothingToDo, SameCall
  <2> QED BY <1>4, <2>2 DEF Says
<1> QED BY <1>5, <1>6 DEF h

LEMMA SuccessIs ==
    ASSUME Underway, Heard, ~HasFailed(answer)
    PROVE  effect.done <=> answer.message.type = "success"
<1>1. answer # Unanswered
  BY Statuses DEF HasFailed
<1> QED BY <1>1, HeardIs, AnswersAre

LEMMA SuccessIsTold ==
    ASSUME CallsInv
    PROVE  SuccessTold
<1> SUFFICES ASSUME outcome.kind = "resolved", outcome.value.kind \in {"boolean", "update"}
             PROVE  outcome.value.success <=> effect.done \/ MakesNoDifference
  BY DEF SuccessTold, ToldSuccess
<1>1. outcome # Pending /\ ~AtRest
  BY DEF Pending, AtRest
<1>2. CASE Underway /\ Unheard
  <2>1. /\ call.api = "v2" /\ NothingToDo(ToClient(call))
        /\ \E patchable : outcome = UpdateResult(TRUE, patchable, NoUpdate)
    BY <1>1, <1>2, AtOnceIs
  <2>2. outcome.value.success = TRUE
    <3>1. \A patchable : UpdateResult(TRUE, patchable, NoUpdate).value.success = TRUE
      BY ResultFields, Zenon
    <3> QED BY <2>1, <3>1
  <2> QED BY <1>2, <2>1, <2>2, NoDifference
<1>3. CASE Underway /\ Heard
  <2> DEFINE success == answer.message.type = "success"
             data == answer.message.data
  <2>1. ~HasFailed(answer)
    <3>1. HasFailed(answer) => \E why : outcome = Rejected(why)
      BY <1>1, <1>3, OutcomeIs
    <3> QED BY <3>1, ResultFields
  <2>2. DataOrNot(outcome) \/ Tells(outcome, success) \/ UpdatesCaller(call, outcome, success, data)
    BY <1>1, <1>3, <2>1, OutcomeIs
  <2>3. effect.done <=> success
    BY <1>3, <2>1, SuccessIs
  <2>4. ~MakesNoDifference
    BY <1>3, NoDifference DEF Heard
  <2> HIDE DEF success, data
  <2>5. outcome.value.success = success
    <3>1. ~DataOrNot(outcome)
      BY ResultFields DEF DataOrNot
    <3>2. Tells(outcome, success) => outcome.value.success = success
      BY ResultFields DEF Tells, Told
    <3>3. UpdatesCaller(call, outcome, success, data) => outcome.value.success = success
      BY ResultFields DEF UpdatesCaller
    <3> QED BY <2>2, <3>1, <3>2, <3>3
  <2> QED BY <2>3, <2>4, <2>5
<1> QED BY <1>1, <1>2, <1>3 DEF CallsInv

LEMMA ErrorIsTold ==
    ASSUME CallsInv
    PROVE  ErrorSaysWhy
<1> SUFFICES ASSUME outcome.kind \in {"resolved", "rejected"}, Requested
             PROVE  /\ HasFailed(answer) => outcome.kind = "rejected" /\ outcome.value # CouldNotMap
                    /\ outcome = Rejected("") <=> HasFailed(answer) /\ SaysNothing(answer)
  BY DEF ErrorSaysWhy, Failed, HasFailed, SaysNothing
<1>1. outcome # Pending /\ ~AtRest
  BY DEF Pending, AtRest
<1>2. Underway /\ Heard
  BY <1>1, AtOnceIs DEF CallsInv, Requested
<1>3. /\ \A why : Rejected(why).kind = "rejected"
      /\ Rejected("").value = "" /\ Rejected(CouldNotMap).value = "could not map"
      /\ Rejected("the reason of the server").value = "the reason of the server"
      /\ Rejected("the reason of the failure").value = "the reason of the failure"
  BY ResultFields DEF CouldNotMap
<1>4. CASE HasFailed(answer)
  <2>1. outcome = Rejected("") \/ outcome = Rejected("the reason of the server")
            \/ outcome = Rejected("the reason of the failure")
    BY <1>1, <1>2, <1>4, OutcomeIs
  <2>2. outcome.kind = "rejected" /\ outcome.value # CouldNotMap
    BY <1>3, <2>1 DEF CouldNotMap
  <2>3. ~SaysNothing(answer) => outcome # Rejected("")
    <3>1. ~SaysNothing(answer) =>
              outcome \in {Rejected("the reason of the server"), Rejected("the reason of the failure")}
      BY <1>1, <1>2, <1>4, OutcomeIs
    <3> QED BY <1>3, <3>1
  <2> QED BY <1>1, <1>2, <1>4, <2>2, <2>3, OutcomeIs
<1>5. CASE ~HasFailed(answer)
  <2> DEFINE success == answer.message.type = "success"
             data == answer.message.data
  <2>1. DataOrNot(outcome) \/ Tells(outcome, success) \/ UpdatesCaller(call, outcome, success, data)
    BY <1>1, <1>2, <1>5, OutcomeIs
  <2> HIDE DEF success, data
  <2>2. DataOrNot(outcome) => outcome # Rejected("")
    BY <1>3 DEF DataOrNot
  <2>3. Tells(outcome, success) => outcome # Rejected("")
    BY <1>3, ResultFields DEF Tells, Told
  <2>4. UpdatesCaller(call, outcome, success, data) => outcome # Rejected("")
    <3>1. \A patchable, update : UpdateResult(success, patchable, update).kind = "resolved"
      BY ResultFields, Zenon
    <3> QED BY <1>3, <3>1 DEF UpdatesCaller
  <2> QED BY <1>5, <2>1, <2>2, <2>3, <2>4
<1> QED BY <1>4, <1>5

(* A lost answer is told as what went wrong with the transport, and what   *)
(* was done and answered is a failure only if the answer was unusable.     *)
LEMMA LossIsTold ==
    ASSUME CallsInv
    PROVE  LostAnswerTold
<1> SUFFICES ASSUME outcome.kind \in {"resolved", "rejected"}, Requested
             PROVE  /\ answer = Unanswered => outcome = Rejected("the reason of the failure")
                    /\ effect.done /\ outcome.kind = "rejected" =>
                           answer = Unanswered \/ outcome = Rejected(CouldNotMap)
  BY DEF LostAnswerTold
<1>1. outcome # Pending /\ ~AtRest
  BY DEF Pending, AtRest
<1>2. Underway /\ Heard
  BY <1>1, AtOnceIs DEF CallsInv, Requested
<1>3. ASSUME answer = Unanswered PROVE outcome = Rejected("the reason of the failure")
  <2> DEFINE r == Process(answer, request.mapper)
  <2>1. answer.status = "failed" /\ answer.body = "nothing"
    BY <1>3, AnswerFields DEF Unanswered
  <2>2. r = Rejected("the reason of the failure")
    BY <2>1 DEF Process, FailureText
  <2>3. outcome = ToCaller(call, r)
    BY <1>1, <1>2 DEF Heard
  <2> HIDE DEF r
  <2> QED BY <2>2, <2>3, ToCallerIs
<1>4. ASSUME effect.done, outcome.kind = "rejected", answer # Unanswered
      PROVE  outcome = Rejected(CouldNotMap)
  <2> DEFINE success == answer.message.type = "success"
             data == answer.message.data
  <2>1. ~HasFailed(answer)
    BY <1>2, <1>4, HeardIs, AnswersAre DEF HasFailed
  <2>2. DataOrNot(outcome) \/ Tells(outcome, success) \/ UpdatesCaller(call, outcome, success, data)
    BY <1>1, <1>2, <2>1, OutcomeIs
  <2> HIDE DEF success, data
  <2>3. ~Tells(outcome, success)
    BY <1>4, ResultFields DEF Tells, Told
  <2>4. ~UpdatesCaller(call, outcome, success, data)
    <3>1. \A patchable, update : UpdateResult(success, patchable, update).kind = "resolved"
      BY ResultFields, Zenon
    <3> QED BY <1>4, <3>1 DEF UpdatesCaller
  <2> QED BY <1>4, <2>2, <2>3, <2>4 DEF DataOrNot
<1> QED BY <1>3, <1>4

(* The caller is told the truth: of success exactly if the server did what *)
(* was asked, or nothing was asked of it, and why a call failed, unless    *)
(* the message of the server had no data; of a failure although the server *)
(* did what was asked only if its answer got lost or could not be mapped.  *)
THEOREM CallersToldTruth == Spec => []CallerToldTruth
<1>1. CallsInv => CallerToldTruth
  BY SuccessIsTold, ErrorIsTold, LossIsTold DEF CallerToldTruth
<1> QED BY <1>1, CallsInvariant, PTL

(* The patch of a model among those of an update.                          *)
LEMMA GetPatchFinds ==
    ASSUME NEW patches, patches \in Seq(Range(patches)), \A p \in Range(patches) : p.patch = p.modelUri, NEW m
    PROVE  GetPatch(patches, m) = IF m \in { p.modelUri : p \in Range(patches) } THEN m ELSE "none"
<1> DEFINE I == { i \in 1..Len(patches) : patches[i].modelUri = m }
           found == SelectInSeq(patches, LAMBDA p : p.modelUri = m)
<1>1. found = IF I # {} THEN Min(I) ELSE 0
  BY DEF SelectInSeq
<1>2. GetPatch(patches, m) = IF found = 0 THEN "none" ELSE patches[found].patch
  BY DEF GetPatch
<1>3. I \subseteq Nat /\ 0 \notin I
  OBVIOUS
<1>4. \A i \in 1..Len(patches) : patches[i] \in Range(patches)
  BY DEF Range
<1>5. I # {} <=> m \in { p.modelUri : p \in Range(patches) }
  BY DEF Range
<1> HIDE DEF found
<1>6. CASE I = {}
  BY <1>1, <1>2, <1>5, <1>6
<1>7. CASE I # {}
  <2>1. found \in I
    <3> HIDE DEF I
    <3> QED BY <1>1, <1>3, <1>7, LeastOf
  <2>2. patches[found] \in Range(patches) /\ patches[found].modelUri = m /\ found # 0
    BY <1>3, <1>4, <2>1
  <2>3. patches[found].patch = m
    BY <2>2
  <2> QED BY <1>2, <1>5, <1>7, <2>2, <2>3
<1> QED BY <1>6, <1>7

(* The result of an edit patches a model with its own patch or leaves it   *)
(* alone, the latter only if it has no patch for it; in frontends it has   *)
(* no function.                                                            *)
THEOREM CallsPatchModelsRight == Spec => []ModelsPatchedRight
<1> DEFINE update == outcome.value.update
           Listed == { p.modelUri : p \in Range(update.allPatches) }
<1>1. ASSUME CallsInv, outcome.kind = "resolved", outcome.value.kind = "update", update # NoUpdate
      PROVE  /\ outcome.value.patchable <=> ~FromFrontend
             /\ \A m \in {"main", "other", "unknown"} :
                     PatchOf(update, m) = CASE ~update.listed -> "throws"
                                            [] update.listed /\ m \in Listed -> m
                                            [] OTHER -> "none"
             /\ PatchOf(update, "none") \in {"main", "none"}
  <2>1. outcome # Pending /\ ~AtRest
    BY <1>1 DEF Pending, AtRest
  <2>2. Underway /\ Heard
    <3>1. ASSUME NEW patchable PROVE outcome # UpdateResult(TRUE, patchable, NoUpdate)
      <4>1. UpdateResult(TRUE, patchable, NoUpdate).value.update = NoUpdate
        BY DEF UpdateResult, Resolved
      <4> QED BY <1>1, <4>1
    <3> QED BY <1>1, <2>1, <3>1, AtOnceIs DEF CallsInv
  <2> DEFINE success == answer.message.type = "success"
             data == answer.message.data
  <2>3. ~HasFailed(answer)
    <3>1. HasFailed(answer) => \E why : outcome = Rejected(why)
      BY <2>1, <2>2, OutcomeIs
    <3> QED BY <1>1, <3>1, ResultFields
  <2>4. DataOrNot(outcome) \/ Tells(outcome, success) \/ UpdatesCaller(call, outcome, success, data)
    BY <2>1, <2>2, <2>3, OutcomeIs
  <2> HIDE DEF success, data
  <2>5. UpdatesCaller(call, outcome, success, data)
    <3>1. ~DataOrNot(outcome)
      BY <1>1, ResultFields DEF DataOrNot
    <3>2. ~Tells(outcome, success)
      BY <1>1, ResultFields DEF Tells, Told
    <3> QED BY <2>4, <3>1, <3>2
  <2>6. /\ outcome.value.patchable = (call.caller # "frontend")
        /\ data.kind = "updateResult" /\ update = data.update
    <3>1. PICK patchable, new :
              /\ outcome = UpdateResult(success, patchable, new)
              /\ new # NoUpdate =>
                     patchable = (call.caller # "frontend") /\ data.kind = "updateResult" /\ new = data.update
      BY <2>5 DEF UpdatesCaller
    <3>2. outcome.value.patchable = patchable /\ update = new
      BY <3>1, ResultFields
    <3> QED BY <1>1, <3>1, <3>2
  <2>7. data \in AnswerData
    <3>1. data \in AnyData \union {NoData}
      BY <2>2, HeardIs, AnswersAre DEF data
    <3>2. NoData.kind = "undefined" /\ Data("guarded").kind = "guarded"
      BY DEF NoData, Data
    <3> QED BY <2>6, <3>1, <3>2 DEF AnyData
  <2>8. /\ update.listed \in BOOLEAN /\ update.patch \in {"main", "none"}
        /\ update.allPatches \in Seq(Range(update.allPatches))
        /\ \A p \in Range(update.allPatches) : p.patch = p.modelUri
    BY <2>6, <2>7, AnswerDataAssumption
  <2> HIDE DEF update
  <2>9. \A m : GetPatch(update.allPatches, m) = IF m \in Listed THEN m ELSE "none"
    BY <2>8, GetPatchFinds
  <2>10. PatchOf(update, "none") = update.patch
    BY DEF PatchOf
  <2>11. ASSUME NEW m \in {"main", "other", "unknown"}
         PROVE  PatchOf(update, m) = IF update.listed THEN GetPatch(update.allPatches, m) ELSE "throws"
    BY <2>8, <2>11 DEF PatchOf
  <2> HIDE DEF Listed
  <2>12. ASSUME NEW m \in {"main", "other", "unknown"}
         PROVE  PatchOf(update, m) = CASE ~update.listed -> "throws"
                                       [] update.listed /\ m \in Listed -> m
                                       [] OTHER -> "none"
    <3>1. PatchOf(update, m) = IF update.listed THEN (IF m \in Listed THEN m ELSE "none") ELSE "throws"
      BY <2>9, <2>11
    <3> QED BY <2>8, <3>1
  <2> QED BY <2>6, <2>8, <2>10, <2>12 DEF FromFrontend
<1>2. CallsInv => ModelsPatchedRight
  BY <1>1, Zenon DEF ModelsPatchedRight
<1> QED BY <1>2, CallsInvariant, PTL
----------------------------------------------------------------------------
(* What the server reads of the commands of callers.                       *)

LEMMA ForEach ==
    /\ \A x, y : [i \in DOMAIN <<x>> |-> y] = <<y>>
    /\ \A y : [i \in DOMAIN <<>> |-> y] = <<>>
  OBVIOUS

One(type, indices, data, objects, adds) ==
    [eClass |-> CommandUri, type |-> type, indices |-> indices, dataValues |-> data,
     objectValues |-> objects, objectsToAdd |-> adds, commands |-> <<>>]

LEMMA ReadsOne ==
    ASSUME NEW type, NEW indices, NEW data, NEW objects, NEW adds, NEW c,
           c = One(type, indices, data, objects, adds), NEW values,
           \/ adds = <<>> /\ objects = <<>> /\ values = data
           \/ (\E x : adds = <<x>>) /\ values = <<Value("object")>>
           \/ adds = <<>> /\ (\E x : objects = <<x>>) /\ values = <<Value("reference")>>
    PROVE  /\ ReadOne(c) = Meaning(type, indices, values, <<>>)
           /\ Read(c) = Meaning(type, indices, values, <<>>)
           /\ IsCommand(c) /\ c.type = type
<1>1. /\ c.eClass = CommandUri /\ c.type = type /\ c.indices = indices /\ c.dataValues = data
      /\ c.objectValues = objects /\ c.objectsToAdd = adds /\ c.commands = <<>>
  BY DEF One
<1>2. ReadOne(c) = Meaning(type, indices, values, <<>>)
  <2>1. CASE adds = <<>> /\ objects = <<>> /\ values = data
    BY <1>1, <2>1 DEF ReadOne
  <2>2. CASE (\E x : adds = <<x>>) /\ values = <<Value("object")>>
    <3>1. adds # <<>> /\ [i \in DOMAIN adds |-> Value("object")] = values
      BY <2>2, ForEach
    <3> QED BY <1>1, <3>1, Zenon DEF ReadOne
  <2>3. CASE adds = <<>> /\ (\E x : objects = <<x>>) /\ values = <<Value("reference")>>
    <3>1. objects # <<>> /\ [i \in DOMAIN objects |-> Value("reference")] = values
      BY <2>3, ForEach
    <3> QED BY <1>1, <2>3, <3>1, Zenon DEF ReadOne
  <2> QED BY <2>1, <2>2, <2>3
<1>3. Read(c) = [ReadOne(c) EXCEPT !.of = <<>>]
  <2>1. [i \in DOMAIN c.commands |-> ReadOne(c.commands[i])] = <<>>
    BY <1>1
  <2> QED BY <2>1, Zenon DEF Read
<1>4. [Meaning(type, indices, values, <<>>) EXCEPT !.of = <<>>] = Meaning(type, indices, values, <<>>)
  BY DEF Meaning
<1> QED BY <1>1, <1>2, <1>3, <1>4 DEF IsCommand

LEMMA MeaningFields ==
    \A does, indices, values, of : LET m == Meaning(does, indices, values, of) IN
        m.does = does /\ m.indices = indices /\ m.values = values /\ m.of = of
  BY DEF Meaning

LEMMA MeantFields ==
    \A command, meaning : LET m == Meant(command, meaning) IN m.command = command /\ m.meaning = meaning
  BY DEF Meant

LEMMA ValueKinds ==
    /\ \A kind : Range(<<Value(kind)>>) = {Value(kind)} /\ Value(kind).kind = kind
    /\ \A i : Index(i).kind = "number" /\ Index(i).index = i
    /\ Range(<<>>) = {}
  BY OneOf DEF Value, Index, Range

LEMMA Guards ==
    /\ isModelServerObjectArray(<<>>)
    /\ ~isModelServerObjectArray(<<Value("data")>>)
    /\ isModelServerObjectArray(<<Value("object")>>)
    /\ isModelServerObjectArray(<<Value("reference")>>)
    /\ ~isNumberArray(<<Value("reference")>>)
    /\ \A i : isNumberArray(<<Index(i)>>)
  BY OneOf DEF isModelServerObjectArray, isNumberArray, Value, Index, Range

(* What is read wrong.                                                     *)
Gives(m, kind) == \E v \in Range(m.meaning.values) : v.kind = kind
WrongAdd(m) == m.command.type = "add" /\ (Index(0) \in Range(m.meaning.indices) \/ Gives(m, "reference"))
WrongSet(m) == m.command.type = "set" /\ Gives(m, "object")

ReadsRight(m) ==
    /\ Read(m.command) # m.meaning <=> WrongAdd(m) \/ WrongSet(m)
    /\ IsCommand(m.command) <=> m.command.type # "compound"

LEMMA SetsRead ==
    ASSUME NEW v \in Values, NEW m, m = Setting(v)
    PROVE  ReadsRight(m)
<1>1. m.command = SetCommand(v) /\ m.meaning = Meaning("set", <<>>, v, <<>>)
  BY MeantFields DEF Setting
<1>2. CASE isModelServerObjectArray(v)
  <2>1. SetCommand(v) = One("set", <<>>, <<>>, v, <<>>)
    BY <1>2 DEF SetCommand, Command, One, isModelServerReferenceDescriptionArray
  <2> DEFINE values == IF v = <<>> THEN <<>> ELSE <<Value("reference")>>
  <2>2. /\ Read(m.command) = Meaning("set", <<>>, values, <<>>)
        /\ IsCommand(m.command) /\ m.command.type = "set"
    <3>1. \/ v = <<>> /\ values = <<>>
          \/ (\E x : v = <<x>>) /\ values = <<Value("reference")>>
      BY DEF Values
    <3> HIDE DEF values
    <3> QED BY <1>1, <2>1, <3>1, ReadsOne
  <2>3. v \in {<<>>, <<Value("object")>>, <<Value("reference")>>}
    BY <1>2, Guards DEF Values
  <2>4. Gives(m, "object") <=> v = <<Value("object")>>
    BY <1>1, <2>3, ValueKinds, MeaningFields DEF Gives
  <2>5. values # v <=> v = <<Value("object")>>
    BY <2>3, ValueKinds
  <2>6. Read(m.command) # m.meaning <=> values # v
    <3> HIDE DEF values
    <3> QED BY <1>1, <2>2, MeaningFields
  <2> QED BY <2>2, <2>4, <2>5, <2>6 DEF ReadsRight, WrongAdd, WrongSet
<1>3. CASE ~isModelServerObjectArray(v)
  <2>1. SetCommand(v) = One("set", <<>>, v, <<>>, <<>>)
    BY <1>3 DEF SetCommand, Command, One, isModelServerReferenceDescriptionArray
  <2>2. Read(m.command) = m.meaning /\ IsCommand(m.command) /\ m.command.type = "set"
    BY <1>1, <2>1, ReadsOne
  <2>3. v = <<Value("data")>>
    BY <1>3, Guards DEF Values
  <2>4. ~Gives(m, "object")
    BY <1>1, <2>3, ValueKinds, MeaningFields DEF Gives
  <2> QED BY <2>2, <2>4 DEF ReadsRight, WrongAdd, WrongSet
<1> QED BY <1>2, <1>3

LEMMA AddsRead ==
    ASSUME NEW v \in Values, NEW place \in Places, NEW m, m = Adding(v, place)
    PROVE  ReadsRight(m)
<1> DEFINE indices == IF place = <<Index(0)>> THEN <<>> ELSE place
           values == IF v \in {<<Value("object")>>, <<Value("reference")>>} THEN <<Value("object")>> ELSE v
<1>1. m.command = AddCommand(v, place) /\ m.meaning = Meaning("add", place, v, <<>>)
  BY MeantFields DEF Adding
<1>2. place = <<>> \/ \E i \in Nat : place = <<Index(i)>>
  BY DEF Places
<1>3. Index(0) \in Range(place) <=> place = <<Index(0)>>
  BY <1>2, OneOf, ValueKinds
<1>4. indices # place <=> place = <<Index(0)>>
  BY <1>2
<1>5. Gives(m, "reference") <=> v = <<Value("reference")>>
  BY <1>1, ValueKinds, MeaningFields DEF Gives, Values
<1>6. values # v <=> v = <<Value("reference")>>
  BY ValueKinds DEF Values
<1> HIDE DEF indices
<1>7. /\ Read(m.command) = Meaning("add", indices, values, <<>>)
      /\ IsCommand(m.command) /\ m.command.type = "add"
  <2>1. CASE isModelServerObjectArray(v)
    <3> DEFINE objects == [i \in DOMAIN v |-> ToAdded(i)]
    <3>1. AddCommand(v, place) = One("add", indices, <<>>, objects, v)
      BY <2>1 DEF AddCommand, Command, One, indices
    <3>2. \/ v = <<>> /\ objects = <<>> /\ values = <<>>
          \/ (\E x : v = <<x>>) /\ values = <<Value("object")>>
      <4>1. v \in {<<>>, <<Value("object")>>, <<Value("reference")>>}
        BY <2>1, Guards DEF Values
      <4> QED BY <4>1
    <3> HIDE DEF objects, values
    <3>3. CASE v = <<>> /\ objects = <<>> /\ values = <<>>
      BY <1>1, <3>1, <3>3, ReadsOne
    <3>4. CASE (\E x : v = <<x>>) /\ values = <<Value("object")>>
      BY <1>1, <3>1, <3>4, ReadsOne
    <3> QED BY <3>2, <3>3, <3>4
  <2>2. CASE ~isModelServerObjectArray(v)
    <3>1. AddCommand(v, place) = One("add", indices, v, <<>>, <<>>)
      BY <2>2 DEF AddCommand, Command, One, indices
    <3>2. values = v
      BY <2>2, Guards DEF Values
    <3> HIDE DEF values
    <3> QED BY <1>1, <3>1, <3>2, ReadsOne
  <2> QED BY <2>1, <2>2
<1> HIDE DEF values
<1>8. Read(m.command) # m.meaning <=> indices # place \/ values # v
  BY <1>1, <1>7, MeaningFields
<1>9. WrongAdd(m) <=> place = <<Index(0)>> \/ v = <<Value("reference")>>
  BY <1>1, <1>3, <1>5, <1>7, MeaningFields DEF WrongAdd
<1> QED BY <1>4, <1>6, <1>7, <1>8, <1>9 DEF ReadsRight, WrongSet

LEMMA OthersRead ==
    ASSUME NEW m \in Removals \union Customs
    PROVE  ReadsRight(m)
<1> SUFFICES Read(m.command) = m.meaning /\ IsCommand(m.command)
                /\ m.command.type \notin {"add", "set", "compound"}
  BY DEF ReadsRight, WrongAdd, WrongSet
<1>1. ASSUME NEW i \in Nat, m = RemovingAt(<<Index(i)>>)
      PROVE  Read(m.command) = m.meaning /\ IsCommand(m.command) /\ m.command.type = "remove"
  <2>1. m.command = RemoveCommand(<<Index(i)>>) /\ m.meaning = Meaning("remove", <<Index(i)>>, <<>>, <<>>)
    BY <1>1, MeantFields DEF RemovingAt
  <2>2. m.command = One("remove", <<Index(i)>>, <<>>, <<>>, <<>>)
    BY <2>1, Guards DEF RemoveCommand, Command, One
  <2> QED BY <2>1, <2>2, ReadsOne
<1>2. ASSUME m = Removing(<<Value("reference")>>)
      PROVE  Read(m.command) = m.meaning /\ IsCommand(m.command) /\ m.command.type = "remove"
  <2> DEFINE v == <<Value("reference")>>
  <2>1. m.command = RemoveCommand(v) /\ m.meaning = Meaning("remove", <<>>, v, <<>>)
    BY <1>2, MeantFields DEF Removing
  <2>2. m.command = One("remove", <<>>, <<>>, v, <<>>)
    BY <2>1, Guards DEF RemoveCommand, Command, One
  <2> QED BY <2>1, <2>2, ReadsOne
<1>3. ASSUME NEW type \in {"custom", "updateTaskName"}, m = Custom(type)
      PROVE  Read(m.command) = m.meaning /\ IsCommand(m.command) /\ m.command.type = type
  <2>1. m.command = Command(type) /\ m.meaning = Meaning(type, <<>>, <<>>, <<>>)
    BY <1>3, MeantFields DEF Custom
  <2>2. m.command = One(type, <<>>, <<>>, <<>>, <<>>)
    BY <2>1 DEF Command, One
  <2> QED BY <2>1, <2>2, ReadsOne
<1> QED BY <1>1, <1>2, <1>3 DEF Removals, Customs

LEMMA CompoundsRead ==
    ASSUME NEW m \in Compounds
    PROVE  ReadsRight(m)
<1>1. PICK a, b : /\ m = Both(a, b) /\ a = SetName /\ (b = SetName \/ b = AddObject)
  BY Zenon DEF Compounds
<1>2. /\ SetName.command = One("set", <<>>, <<Value("data")>>, <<>>, <<>>)
      /\ SetName.meaning = Meaning("set", <<>>, <<Value("data")>>, <<>>)
  BY MeantFields, Guards DEF SetName, Setting, SetCommand, Command, One, isModelServerReferenceDescriptionArray
<1>3. /\ AddObject.command = One("add", <<>>, <<>>, [i \in DOMAIN <<Value("object")>> |-> ToAdded(i)],
                                 <<Value("object")>>)
      /\ AddObject.meaning = Meaning("add", <<>>, <<Value("object")>>, <<>>)
  <2> DEFINE v == <<Value("object")>>
  <2>1. <<>> # <<Index(0)>> /\ isModelServerObjectArray(v)
    BY Guards
  <2>2. AddObject.command = AddCommand(v, <<>>) /\ AddObject.meaning = Meaning("add", <<>>, v, <<>>)
    BY MeantFields DEF AddObject, Adding
  <2> HIDE DEF v
  <2>3. AddCommand(v, <<>>) = One("add", <<>>, <<>>, [i \in DOMAIN v |-> ToAdded(i)], v)
    BY <2>1 DEF AddCommand, Command, One
  <2> QED BY <2>2, <2>3 DEF v
<1>4. ReadOne(SetName.command) = SetName.meaning /\ ReadOne(AddObject.command) = AddObject.meaning
  BY <1>2, <1>3, ReadsOne
<1>5. ReadOne(a.command) = a.meaning /\ ReadOne(b.command) = b.meaning
  BY <1>1, <1>4
<1> DEFINE c == CompoundCommand(<<a.command, b.command>>)
<1>6. m.command = c /\ m.meaning = Meaning("compound", <<>>, <<>>, <<a.meaning, b.meaning>>)
  BY <1>1, MeantFields, Zenon DEF Both
<1>7. /\ c.eClass = CompoundUri /\ c.type = "compound" /\ c.indices = <<>> /\ c.dataValues = <<>>
      /\ c.objectValues = <<>> /\ c.objectsToAdd = <<>> /\ c.commands = <<a.command, b.command>>
  BY DEF CompoundCommand, Command
<1> HIDE DEF c
<1>8. ReadOne(c) = Meaning("compound", <<>>, <<>>, <<>>)
  BY <1>7 DEF ReadOne
<1>9. [i \in DOMAIN c.commands |-> ReadOne(c.commands[i])] = <<a.meaning, b.meaning>>
  BY <1>5, <1>7
<1>10. Read(c) = Meaning("compound", <<>>, <<>>, <<a.meaning, b.meaning>>)
  <2>1. Read(c) = [Meaning("compound", <<>>, <<>>, <<>>) EXCEPT !.of = <<a.meaning, b.meaning>>]
    BY <1>8, <1>9, Zenon DEF Read
  <2> QED BY <2>1 DEF Meaning
<1> QED BY <1>6, <1>7, <1>10 DEF ReadsRight, WrongAdd, WrongSet, IsCommand, CommandUri, CompoundUri

LEMMA MeantRead ==
    ASSUME NEW m \in MeantCommands
    PROVE  ReadsRight(m)
  BY SetsRead, AddsRead, OthersRead, CompoundsRead DEF MeantCommands, Sets, Adds
LEMMA OnlyCompounds ==
    ASSUME NEW m \in MeantCommands, m.command.type = "compound"
    PROVE  m \in Compounds
<1>1. ASSUME NEW v, m = Setting(v) PROVE m.command.type = "set"
  <2>1. m.command = SetCommand(v)
    BY <1>1, MeantFields DEF Setting
  <2> QED BY <2>1 DEF SetCommand, Command
<1>2. ASSUME NEW v, NEW place, m = Adding(v, place) PROVE m.command.type = "add"
  <2>1. m.command = AddCommand(v, place)
    BY <1>2, MeantFields DEF Adding
  <2> QED BY <2>1 DEF AddCommand, Command
<1>3. m \notin Removals \union Customs
  <2>1. ASSUME NEW v, m = Meant(RemoveCommand(v), m.meaning) PROVE m.command.type = "remove"
    <3>1. m.command = RemoveCommand(v)
      BY <2>1, MeantFields
    <3> QED BY <3>1 DEF RemoveCommand, Command
  <2>2. ASSUME NEW type, m = Custom(type) PROVE m.command.type = type
    <3>1. m.command = Command(type)
      BY <2>2, MeantFields DEF Custom
    <3> QED BY <3>1 DEF Command
  <2>3. ASSUME m \in Removals PROVE \E v : m = Meant(RemoveCommand(v), m.meaning)
    BY <2>3, MeantFields DEF Removals, RemovingAt, Removing
  <2> QED BY <2>1, <2>2, <2>3 DEF Customs
<1> QED BY <1>1, <1>2, <1>3 DEF MeantCommands, Sets, Adds

(* What the server reads of the patches of callers.                        *)
LEMMA PatchesRead ==
    ASSUME NEW o, NEW meaning, PatchMeans(o, meaning)
    PROVE  ReadOperation(o) = meaning
<1> DEFINE Kind(v) == Meaning(o.op, <<>>, <<Value(v)>>, <<>>)
           IsA(v) == IsAdd(o, {v}) \/ IsReplace(o, {v})
           kinds == {"data", "object", "reference"}
<1>1. CASE IsRemove(o)
  <2>1. ReadOperation(o) = Meaning("remove", <<>>, <<>>, <<>>)
    BY <1>1 DEF ReadOperation
  <2>2. o # Create /\ o # Add /\ o # Replace("data")
    BY <1>1 DEF IsRemove, Create, Add, Replace, Operation
  <2> QED BY <2>1, <2>2, Zenon DEF PatchMeans
<1>2. ASSUME NEW kind \in kinds, ~IsRemove(o), o.op \in {"add", "replace"}, o.value = kind
      PROVE  ReadOperation(o) = Kind(kind)
  <2>1. \A v \in kinds : IsA(v) <=> v = kind
    BY <1>2 DEF IsAdd, IsReplace
  <2>2. (CHOOSE v \in kinds : IsA(v)) = kind
    <3> HIDE DEF IsA
    <3> QED BY <1>2, <2>1
  <2>3. ReadOperation(o) = Kind(CHOOSE v \in kinds : IsA(v))
    BY <1>2, Zenon DEF ReadOperation
  <2> HIDE DEF Kind, IsA
  <2> QED BY <2>2, <2>3, Zenon
<1>3. CASE o = Create
  <2>1. o.op = "add" /\ o.value = "object" /\ ~IsRemove(o)
    BY <1>3 DEF Create, Operation, IsRemove
  <2>2. o # Add /\ o # Replace("data")
    BY <2>1 DEF Add, Replace, Operation
  <2>3. meaning = Meaning("add", <<>>, <<Value("object")>>, <<>>)
    BY <2>1, <2>2, Zenon DEF PatchMeans
  <2> QED BY <1>2, <2>1, <2>3
<1>4. CASE o = Add
  <2>1. o.op = "add" /\ o.value = "reference" /\ ~IsRemove(o)
    BY <1>4 DEF Add, Operation, IsRemove
  <2>2. o # Create /\ o # Replace("data")
    BY <2>1 DEF Create, Replace, Operation
  <2>3. meaning = Meaning("add", <<>>, <<Value("reference")>>, <<>>)
    BY <2>1, <2>2, Zenon DEF PatchMeans
  <2> QED BY <1>2, <2>1, <2>3
<1>5. CASE o = Replace("data")
  <2>1. o.op = "replace" /\ o.value = "data" /\ ~IsRemove(o)
    BY <1>5 DEF Replace, Operation, IsRemove
  <2>2. o # Create /\ o # Add
    BY <2>1 DEF Create, Add, Operation
  <2>3. meaning = Meaning("replace", <<>>, <<Value("data")>>, <<>>)
    BY <2>1, <2>2, Zenon DEF PatchMeans
  <2> QED BY <1>2, <2>1, <2>3
<1> QED BY <1>1, <1>3, <1>4, <1>5, Zenon DEF PatchMeans

(* Every parameter with the model of the call has it.                      *)
LEMMA ParamsArrive ==
    ASSUME CallsInv, Requested
    PROVE  \A p \in DOMAIN request.params \intersect {"modeluri", "workspaceRoot"} :
                request.params[p] = given.uri.text
<1> DEFINE h == ToClient(call)
<1>1. Underway
  BY DEF CallsInv, AtRest, NoRequest, Requested
<1>2. SameCall(given, h) /\ Says(call.api, h, request)
  BY <1>1, ToClientCall, RequestSays DEF Underway, given
<1> HIDE DEF h
<1>3. ParamsSay(call.api, h, request.params)
  BY <1>2 DEF Says, Requested
<1>4. h.op \notin NoModelOps => Text(h.uri) = given.uri.text
  BY <1>2 DEF SameCall
<1>5. /\ "modeluri" \in DOMAIN request.params => request.params.modeluri = given.uri.text
      /\ "workspaceRoot" \in DOMAIN request.params => request.params.workspaceRoot = given.uri.text
  BY <1>3, <1>4 DEF ParamsSay
<1> QED BY <1>5

LEMMA EditsArrive ==
    ASSUME CallsInv, Requested, given.op = "edit"
    PROVE  ReadEdit(request) # given.meaning <=> Misread
<1> DEFINE h == ToClient(call)
           kind == request.carries.kind
           carried == request.carries.edit
<1>1. Underway
  BY DEF CallsInv, AtRest, NoRequest, Requested
<1>2. SameCall(given, h) /\ Says(call.api, h, request)
  BY <1>1, ToClientCall, RequestSays DEF Underway, given
<1>3. h.edit.instance = (call.caller # "frontend" /\ given.edit.form = "command")
  BY <1>1, ToClientCall DEF Underway, given
<1>4. EditsWell(call.api, given) /\ call.api \in {"v1", "v2"}
  BY <1>1 DEF Underway, Made, WellFormed, given
<1> HIDE DEF h
<1>5. /\ h.edit.form = given.edit.form /\ h.edit.command = given.edit.command
      /\ h.edit.operations = given.edit.operations /\ h.op = "edit"
  BY <1>2 DEF SameCall
<1>6. /\ kind = IF call.api = "v1" THEN "command"
                ELSE IF AsEmfCommand(h) THEN "modelserver.emfcommand" ELSE "modelserver.patch"
      /\ carried.form = given.edit.form /\ carried.command = given.edit.command
      /\ carried.operations = given.edit.operations
  BY <1>2, <1>5 DEF Says, Requested, CarriesSay
<1>7. ~(call.api = "v2" /\ NothingToDo(h))
  BY <1>2 DEF Says, Requested
<1> HIDE DEF kind, carried
<1>8. /\ kind \in {"modelserver.emfcommand", "command"} => ReadEdit(request) = Read(carried.command)
      /\ kind = "modelserver.patch" =>
             ReadEdit(request) =
                 IF carried.form = "patch" THEN ReadOperation(carried.operations[1]) ELSE Nothing
  BY DEF ReadEdit, kind, carried
<1>9. CASE EditsCommand(given)
  <2>1. PICK m \in MeantCommands : given.edit = CommandEdit(m.command) /\ given.meaning = m.meaning
    BY <1>9 DEF EditsCommand
  <2>2. given.edit.form = "command" /\ given.edit.command = m.command
    BY <2>1 DEF CommandEdit, EditOf
  <2>3. ReadsRight(m)
    BY MeantRead
  <2> DEFINE lost == m.command.type = "compound" /\ call.api = "v2" /\ FromFrontend
  <2>4. Misread <=> WrongAdd(m) \/ WrongSet(m) \/ lost
    BY <2>1, <2>2 DEF Misread, WrongAdd, WrongSet, Gives
  <2>5. kind = "modelserver.patch" <=> lost
    BY <1>3, <1>4, <1>5, <1>6, <2>2, <2>3 DEF AsEmfCommand, AsCommand, ReadsRight, FromFrontend
  <2>6. CASE lost
    <3>1. ReadEdit(request) = Nothing
      BY <1>6, <1>8, <2>2, <2>5, <2>6
    <3>2. m.meaning.does = "compound"
      <4>1. m \in Compounds
        BY <2>3, <2>6, OnlyCompounds
      <4> QED BY <4>1, MeantFields, MeaningFields DEF Compounds, Both
    <3>3. Nothing.does = "nothing"
      BY MeaningFields DEF Nothing
    <3> QED BY <2>1, <2>4, <2>6, <3>1, <3>2, <3>3
  <2>7. CASE ~lost
    <3>1. ReadEdit(request) = Read(m.command)
      BY <1>4, <1>6, <1>8, <2>2, <2>5, <2>7
    <3> HIDE DEF lost
    <3> QED BY <2>1, <2>3, <2>4, <2>7, <3>1 DEF ReadsRight
  <2> QED BY <2>6, <2>7
<1>10. CASE call.api = "v2" /\ ~EditsCommand(given)
  <2>1. EditsPatch(given) \/ EditsNothing(given)
    BY <1>4, <1>10 DEF EditsWell
  <2>2. ~EditsNothing(given)
    BY <1>5, <1>7, <1>10 DEF EditsNothing, PatchEdit, EditOf, NothingToDo
  <2>3. PICK o : given.edit = PatchEdit(<<o>>) /\ PatchMeans(o, given.meaning)
    BY <2>1, <2>2 DEF EditsPatch
  <2>4. /\ given.edit.form = "patch" /\ given.edit.operations = <<o>> /\ given.edit.command = Command("none")
    BY <2>3 DEF PatchEdit, EditOf
  <2>5. kind = "modelserver.patch"
    BY <1>5, <1>6, <1>10, <2>4 DEF AsEmfCommand, AsCommand
  <2>6. ReadEdit(request) = ReadOperation(o)
    <3>1. <<o>>[1] = o
      OBVIOUS
    <3> QED BY <1>6, <1>8, <2>4, <2>5, <3>1
  <2>7. ReadEdit(request) = given.meaning
    BY <2>3, <2>6, PatchesRead
  <2>8. Command("none").type = "none"
    BY DEF Command
  <2>9. ~Misread
    BY <2>4, <2>8 DEF Misread
  <2> QED BY <2>7, <2>9
<1> QED BY <1>4, <1>9, <1>10 DEF EditsWell

(* The server gets the model a call names, and reads an edit the way its   *)
(* caller meant it, except for the index 0 of an add, objects added by a   *)
(* set, references added by an add, and compound commands of frontends.    *)
THEOREM CallsArrive == Spec => []CallArrives
<1>1. CallsInv => CallArrives
  BY ParamsArrive, EditsArrive DEF CallArrives
<1> QED BY <1>1, CallsInvariant, PTL
----------------------------------------------------------------------------
(* Formats, guards and options.                                            *)

LEMMA DefaultFormats ==
    /\ IsFormat(FORMAT_JSON_V1) /\ IsFormat(FORMAT_JSON_V2)
    /\ DefaultFormatV1 = FORMAT_JSON_V1 /\ DefaultFormatV2 = FORMAT_JSON_V2
  BY DEF IsFormat, FORMAT_JSON_V1, FORMAT_JSON_V2, DefaultFormatV1, DefaultFormatV2

(* What the client asks for is what the call does, ...                     *)
LEMMA AskedFormats ==
    ASSUME Underway, NEW h, h = ToClient(call), h.op \in ListOps \union BodyOps \union {"edit"}
    PROVE  /\ call.api \in {"v1", "v2"} /\ h.op = given.op
           /\ h.third = given.third /\ given.third # "guard"
           /\ given.second = "guard" =>
                  h.second = (IF FromFrontend THEN "none" ELSE "guard") /\ given.op # "edit"
           /\ given.second # "guard" => h.second = given.second /\ given.third = "none"
           /\ given.op = "edit" => given.third = "none" /\ (call.api = "v1" => given.second = "none")
           /\ given.third # "none" => given.op \in TakesBoth[call.api]
           /\ AsCommand(h) <=> IsCommandEdit
           /\ given.op # "edit" => ~IsCommandEdit
<1>1. WellFormed(call.api, given) /\ call.api \in {"v1", "v2"} /\ Made(call)
  BY DEF Underway, Made, given
<1>2. SameCall(given, h)
  BY <1>1, ToClientCall DEF given
<1>3. /\ FromFrontend => h.second = WithoutFunction(given.second) /\ h.third = WithoutFunction(given.third)
      /\ ~FromFrontend => h.second = given.second /\ h.third = given.third
  BY <1>1, ToClientCall DEF given, FromFrontend
<1>4. Asks(call.api, given)
  BY <1>1 DEF WellFormed
<1>5. given.third # "guard"
  BY <1>4 DEF Asks
<1>6. h.third = given.third
  BY <1>3, <1>5 DEF WithoutFunction
<1>7. h.op = given.op /\ h.edit.form = given.edit.form /\ h.edit.command = given.edit.command
  BY <1>2 DEF SameCall
<1>8. given.op = "edit" => given.third = "none" /\ given.second # "guard" /\ (call.api = "v1" => given.second = "none")
  BY <1>1, <1>4 DEF Asks, TakesBoth
<1>9. AsCommand(h) <=> IsCommandEdit
  BY <1>7, Zenon DEF AsCommand, IsCommandEdit
<1>10. given.op # "edit" => ~IsCommandEdit
  BY <1>1, EditForms DEF IsCommandEdit
<1>11. /\ given.second = "guard" => h.second = (IF FromFrontend THEN "none" ELSE "guard")
       /\ given.second # "guard" => h.second = given.second
  BY <1>3 DEF WithoutFunction
<1>12. given.third # "none" => given.second = "guard" /\ given.op \in TakesBoth[call.api]
  BY <1>4 DEF Asks
<1> QED BY <1>1, <1>5, <1>6, <1>7, <1>8, <1>9, <1>10, <1>11, <1>12

(* ... with the exceptions there are.                                      *)
LEMMA FormatsHonoured ==
    ASSUME Underway, NEW h, h = ToClient(call), h.op \in ListOps \union BodyOps \union {"edit"}
    PROVE  ClientFormat(call.api, h) # Wanted <=> FormatDropped
<1> DEFINE s == given.second
           t == given.third
           format == ClientFormat(call.api, h)
<1>1. /\ call.api \in {"v1", "v2"} /\ h.op = given.op
      /\ h.third = t /\ t # "guard"
      /\ s = "guard" => h.second = (IF FromFrontend THEN "none" ELSE "guard") /\ given.op # "edit"
      /\ s # "guard" => h.second = s /\ t = "none"
      /\ given.op = "edit" => t = "none" /\ (call.api = "v1" => s = "none")
      /\ t # "none" => given.op \in TakesBoth[call.api]
      /\ AsCommand(h) <=> IsCommandEdit
      /\ given.op # "edit" => ~IsCommandEdit
  BY AskedFormats
<1>2. Default \notin {"none", "guard"}
  BY DefaultFormats DEF Default, IsFormat
<1>3. Wanted = IF s \notin {"none", "guard"} THEN s ELSE IF t # "none" THEN t ELSE Default
  BY <1>1 DEF Wanted, IsFormat
<1> HIDE DEF s, t, format
<1>4. CASE call.api = "v1"
  <2>1. Default = DefaultFormatV1
    BY <1>4, DefaultFormats DEF Default
  <2>2. format = IF h.op = "edit" \/ h.second \in {"none", "guard"} THEN Default ELSE h.second
    BY <1>4, <2>1 DEF format, ClientFormat, ClientFormatV1, FormatOfV1, IsFormat
  <2>3. FormatDropped <=> t \notin {"none", Default}
    BY <1>4 DEF FormatDropped, t
  <2>4. format # Wanted <=> t \notin {"none", Default}
    BY <1>1, <1>2, <1>3, <1>4, <2>2
  <2> QED BY <2>3, <2>4 DEF format
<1>5. CASE call.api = "v2"
  <2>1. Default = DefaultFormatV2
    BY <1>5, DefaultFormats DEF Default
  <2>2. FormatDropped <=>
            \/ given.op = "get" /\ s = "guard"
               /\ (IF FromFrontend THEN t \notin {"none", Default} ELSE t = "none")
            \/ IsCommandEdit /\ Wanted # Default
    BY <1>5 DEF FormatDropped, s, t
  <2>3. CASE h.op = "get" /\ h.second = "guard"
    <3>1. format = t
      BY <1>1, <1>5, <2>3 DEF format, ClientFormat, ClientFormatV2
    <3>2. s = "guard" /\ ~FromFrontend
      BY <1>1, <2>3
    <3> QED BY <1>1, <1>2, <1>3, <2>2, <2>3, <3>1, <3>2 DEF format
  <2>4. CASE h.op \in {"get", "getAll"} /\ ~(h.op = "get" /\ h.second = "guard")
    <3>1. format = IF h.second \in {"none", "guard"} THEN Default ELSE h.second
      BY <1>5, <2>1, <2>4 DEF format, ClientFormat, ClientFormatV2, OrDefault, IsFormat
    <3>2. h.op = "getAll" => t = "none"
      BY <1>1, <1>5 DEF TakesBoth
    <3>3. h.op = "getAll" => (format # Wanted <=> FALSE)
      BY <1>1, <1>2, <1>3, <3>1, <3>2
    <3>4. h.op = "get" => (format # Wanted <=> s = "guard" /\ t \notin {"none", Default})
      BY <1>1, <1>2, <1>3, <2>4, <3>1
    <3>5. h.op = "get" /\ s = "guard" => FromFrontend
      BY <1>1, <2>4
    <3> QED BY <1>1, <2>2, <2>4, <3>3, <3>4, <3>5 DEF format
  <2>5. CASE h.op \notin {"get", "getAll", "edit"}
    <3>1. format = IF h.second \notin {"none", "guard"} THEN h.second
                   ELSE IF t = "none" THEN Default ELSE t
      BY <1>1, <1>5, <2>1, <2>5 DEF format, ClientFormat, ClientFormatV2, FormatOf, OrDefault, IsFormat
    <3>2. format = Wanted
      BY <1>1, <1>2, <1>3, <3>1
    <3> QED BY <1>1, <2>2, <2>5, <3>2 DEF format
  <2>6. CASE h.op = "edit"
    <3>1. format = IF IsCommandEdit \/ h.second \in {"none", "guard"} THEN Default ELSE h.second
      BY <1>1, <1>5, <2>1, <2>6 DEF format, ClientFormat, ClientFormatV2, OrDefault, IsFormat
    <3>2. Wanted = IF s = "none" THEN Default ELSE s
      BY <1>1, <1>3, <2>6
    <3>3. h.second = s /\ s # "guard"
      BY <1>1, <2>6
    <3> QED BY <1>1, <1>2, <2>2, <2>6, <3>1, <3>2, <3>3 DEF format
  <2> QED BY <2>3, <2>4, <2>5, <2>6
<1> QED BY <1>1, <1>4, <1>5

LEMMA GuardsHonoured ==
    ASSUME CallsInv
    PROVE  FormatAndGuardHonoured
<1> SUFFICES ASSUME Requested
             PROVE  /\ "format" \in DOMAIN request.params => (request.params.format # Wanted <=> FormatDropped)
                    /\ "as" \in {request.mapper.name, request.mapper.content}
                            <=> (given.second = "guard" /\ ~FromFrontend)
  BY DEF FormatAndGuardHonoured
<1> DEFINE h == ToClient(call)
<1>1. Underway
  BY DEF CallsInv, AtRest, NoRequest, Requested
<1>2. SameCall(given, h) /\ Says(call.api, h, request)
  BY <1>1, ToClientCall, RequestSays DEF Underway, given
<1>3. ParamsSay(call.api, h, request.params) /\ MapperSays(h, request.mapper)
  BY <1>2 DEF Says, Requested
<1>4. "format" \in DOMAIN request.params => (request.params.format # Wanted <=> FormatDropped)
  BY <1>1, <1>3, FormatsHonoured DEF ParamsSay
<1>5. CASE h.op \in ListOps \union BodyOps \union {"edit"}
  <2>1. /\ given.second = "guard" => h.second = (IF FromFrontend THEN "none" ELSE "guard") /\ h.op # "edit"
        /\ given.second # "guard" => h.second = given.second
    BY <1>1, <1>5, AskedFormats
  <2> HIDE DEF h
  <2>2. h.second = "guard" <=> given.second = "guard" /\ ~FromFrontend
    BY <2>1
  <2> QED BY <1>3, <1>4, <1>5, <2>1, <2>2 DEF MapperSays
<1>6. CASE h.op \notin ListOps \union BodyOps \union {"edit"}
  <2>1. h.op = given.op
    BY <1>2 DEF SameCall
  <2>2. given.second # "guard"
    <3>1. Asks(call.api, given)
      BY <1>1 DEF Underway, Made, WellFormed, given
    <3> HIDE DEF h
    <3> QED BY <1>6, <2>1, <3>1 DEF Asks
  <2> HIDE DEF h
  <2> QED BY <1>3, <1>4, <1>6, <2>2 DEF MapperSays
<1> QED BY <1>5, <1>6

LEMMA QueriesHonoured ==
    ASSUME CallsInv
    PROVE  QueryIsServers
<1> SUFFICES ASSUME request.kind = "subscription"
             PROVE  request.query \subseteq ServerParameters
                        <=> ~(call.api = "v2" /\ given.listener /\ "listener" \in given.options)
  BY DEF QueryIsServers
<1> DEFINE h == ToClient(call)
<1>1. Underway
  BY DEF CallsInv, AtRest, NoRequest
<1>2. SameCall(given, h) /\ Says(call.api, h, request)
  BY <1>1, ToClientCall, RequestSays DEF Underway, given
<1> HIDE DEF h
<1>3. h.op = given.op /\ h.options = given.options /\ h.listener = given.listener
  BY <1>2 DEF SameCall
<1>4. h.op = "subscribe" /\ request.query = QueryOfClient(call.api, h)
  BY <1>2 DEF Says
<1>5. /\ given.options \subseteq ServerParameters \union {"listener", "errorWhenUnsuccessful"}
      /\ call.api \in {"v1", "v2"}
  BY <1>1, <1>3, <1>4 DEF Underway, Made, WellFormed, Subscribes, given
<1>6. /\ {"modeluri", "format"} \subseteq ServerParameters
      /\ "listener" \notin ServerParameters /\ "listener" # "errorWhenUnsuccessful"
  BY DEF ServerParameters
<1>7. \A o : QueryOf(o) = ({"modeluri", "format"} \union o) \ {"errorWhenUnsuccessful"}
  BY DEF QueryOf
<1>8. CASE call.api = "v1"
  <2>1. request.query = QueryOf(given.options \ {"listener"})
    BY <1>3, <1>4, <1>8 DEF QueryOfClient, SubscriptionQueryV1
  <2> QED BY <1>5, <1>6, <1>7, <1>8, <2>1
<1>9. CASE call.api = "v2" /\ given.listener
  <2>1. request.query = QueryOf(given.options)
    BY <1>3, <1>4, <1>9 DEF QueryOfClient, SubscriptionQueryV2, BackendOptions
  <2> QED BY <1>5, <1>6, <1>7, <1>9, <2>1
<1>10. CASE call.api = "v2" /\ ~given.listener
  <2>1. request.query = QueryOf(given.options \ {"listener"})
    BY <1>3, <1>4, <1>10 DEF QueryOfClient, SubscriptionQueryV2, BackendOptions
  <2> QED BY <1>5, <1>6, <1>7, <1>10, <2>1
<1> QED BY <1>5, <1>8, <1>9, <1>10

(* A request has the format its call asks for, and its answer is checked   *)
(* with the guard of the call, where neither is dropped on the way; and    *)
(* the query of a subscription has only parameters of the server, unless a *)
(* listener is given to the v2 client twice.                               *)
THEOREM CallsHonourOptions == Spec => []OptionsHonoured
<1>1. CallsInv => OptionsHonoured
  BY GuardsHonoured, QueriesHonoured DEF OptionsHonoured
<1> QED BY <1>1, CallsInvariant, PTL
----------------------------------------------------------------------------
(* Bodies.  AsJson is what the provers know nothing of.                    *)

Json(tree, format) == AsJson(tree, format)

LEMMA EncodeIs ==
    ASSUME NEW body, body = Body(body.form, body.tree), NEW format,
           NEW b, b = Encode(body, format), b # Unencodable, b.form \in {"object", "text"}, format \in JsonFormats
    PROVE  b.tree = Json(body.tree, format)
<1>1. format # FORMAT_XMI
  BY DEF JsonFormats, FORMAT_JSON_V1, FORMAT_JSON_V2, FORMAT_XMI
<1>2. CASE body.form \in {"object", "text"}
  <2>1. b = [body EXCEPT !.tree = Json(body.tree, format)]
    BY <1>1, <1>2, Zenon DEF Encode, Json
  <2> QED BY <2>1 DEF Body
<1>3. CASE body.form \notin {"object", "text"}
  BY <1>1, <1>3, Zenon DEF Encode
<1> QED BY <1>2, <1>3

(* What a request says of its body.                                        *)
BodyOf(h, r) ==
    r.kind = "request" /\ r.body.form \in {"object", "text"} /\ r.params.format \in JsonFormats =>
        r.body.tree =
            Json(IF h.op = "edit" THEN PatchMessage(h.body.tree, r.carries.kind = "modelserver.emfcommand")
                 ELSE h.body.tree,
                 r.params.format)

LEMMA SentBody ==
    ASSUME NEW method, NEW path, NEW params, NEW mapper, NEW body, body = Body(body.form, body.tree),
           NEW format, params.format = format, NEW carries, NEW r,
           r = WithBody(Request(method, path, params, mapper), Encode(body, format), carries)
    PROVE  r.kind = "request" /\ r.body.form \in {"object", "text"} /\ r.params.format \in JsonFormats =>
               r.body.tree = Json(body.tree, r.params.format) /\ r.carries = carries
<1> DEFINE q == Request(method, path, params, mapper)
           b == Encode(body, format)
<1>1. q = [kind |-> "request", method |-> method, path |-> path, params |-> params,
           mapper |-> mapper, body |-> q.body, carries |-> q.carries]
  BY PlainRequest
<1>2. CASE b = Unencodable
  <2>1. r = [kind |-> "thrown"]
    BY <1>2, Zenon DEF WithBody
  <2> QED BY <2>1
<1>3. CASE b # Unencodable
  <2>1. r = [q EXCEPT !.body = b, !.carries = carries]
    BY <1>3, Zenon DEF WithBody
  <2>2. ASSUME b.form \in {"object", "text"}, format \in JsonFormats PROVE b.tree = Json(body.tree, format)
    BY <1>3, <2>2, EncodeIs
  <2> HIDE DEF q, b
  <2>3. r.params = params /\ r.body = b /\ r.carries = carries
    BY ONLY <1>1, <2>1
  <2> QED BY <2>2, <2>3
<1> QED BY <1>2, <1>3

LEMMA UnsentBody ==
    ASSUME NEW h, NEW r, r.kind # "request" \/ \E method, path, params, mapper : r = Request(method, path, params, mapper)
    PROVE  BodyOf(h, r)
<1>1. NoBody.form = "none"
  BY DEF NoBody, Body
<1>2. \A method, path, params, mapper : Request(method, path, params, mapper).body = NoBody
  BY DEF Request
<1> QED BY <1>1, <1>2 DEF BodyOf

LEMMA EditBody ==
    ASSUME NEW h, Shape(h), h.op = "edit", h.body = Body(h.body.form, h.body.tree),
           NEW r, r = BackendEditV2(h)
    PROVE  BodyOf(h, r)
<1>1. ASSUME NEW k, k.body = h.body, NEW format, r = EditV2(k, format)
      PROVE  BodyOf(h, r)
  <2> DEFINE command == IsInstance(k.edit)
             carries == Carries(IF command THEN "modelserver.emfcommand" ELSE "modelserver.patch", k.edit)
             params == Params(k, format)
             tree == PatchMessage(h.body.tree, command)
             body == [h.body EXCEPT !.tree = tree]
  <2>1. CASE r = AtOnce(UpdateResult(TRUE, TRUE, NoUpdate))
    BY <2>1, UnsentBody DEF AtOnce
  <2>2. CASE \E method, path : r = WithBody(Request(method, path, params, Mapper("patchModel")),
                                            Encode(body, format), carries)
    <3>1. params.format = format
      BY ParamsAre
    <3>2. body.tree = tree /\ body = Body(body.form, body.tree)
      <4> HIDE DEF tree
      <4>1. body.form = h.body.form /\ body.tree = tree /\ body = Body(h.body.form, tree)
        BY DEF Body
      <4> QED BY <4>1, Zenon
    <3>3. carries.kind = "modelserver.emfcommand" <=> command
      BY DEF Carries
    <3> HIDE DEF params, carries, body
    <3>4. r.kind = "request" /\ r.body.form \in {"object", "text"} /\ r.params.format \in JsonFormats =>
               r.body.tree = Json(body.tree, r.params.format) /\ r.carries = carries
      <4>1. PICK method, path : r = WithBody(Request(method, path, params, Mapper("patchModel")),
                                             Encode(body, format), carries)
        BY <2>2
      <4> QED BY ONLY <3>1, <3>2, <4>1, SentBody
    <3>5. tree = PatchMessage(h.body.tree, carries.kind = "modelserver.emfcommand")
      <4>1. (carries.kind = "modelserver.emfcommand") = command
        BY <3>3 DEF IsInstance
      <4> HIDE DEF command
      <4> QED BY <4>1, Zenon
    <3> HIDE DEF tree, command
    <3> QED BY <3>2, <3>4, <3>5 DEF BodyOf
  <2>3. \/ r = AtOnce(UpdateResult(TRUE, TRUE, NoUpdate))
        \/ \E method, path : r = WithBody(Request(method, path, params, Mapper("patchModel")),
                                          Encode(body, format), carries)
    <3>1. body = [k.body EXCEPT !.tree = PatchMessage(k.body.tree, command)]
      BY <1>1, Zenon
    <3> HIDE DEF body
    <3> QED BY <1>1, <3>1, Zenon DEF EditV2
  <2> QED BY <2>1, <2>2, <2>3
<1>2. CASE AsCommand(h)
  <2> DEFINE k == [h EXCEPT !.edit = EnsureCommandPrototype(h.edit)]
  <2>1. r = EditV2(k, DefaultFormatV2)
    BY <1>2, Zenon DEF BackendEditV2, AsCommand
  <2>2. k.body = h.body
    BY DEF Shape
  <2> HIDE DEF k
  <2> QED BY <1>1, <2>1, <2>2
<1>3. CASE ~AsCommand(h)
  <2>1. r = EditV2(h, OrDefault(h.second))
    BY <1>3, Zenon DEF BackendEditV2, AsCommand
  <2> QED BY <1>1, <2>1
<1> QED BY <1>2, <1>3

LEMMA BodiesV2 ==
    ASSUME NEW h, Shape(h), h.op \in OpsV1 \union {"counter"}, h.body = Body(h.body.form, h.body.tree),
           NEW r, r = RequestV2(h)
    PROVE  BodyOf(h, r)
<1>1. CASE h.op = "edit"
  BY <1>1, DispatchV2, EditBody
<1>2. CASE h.op \in BodyOps
  <2> DEFINE params == Params(h, FormatOf(h))
             mapper == GuardedMapper(h.second)
             carries == Carries("model", NoEdit)
  <2>1. \E method : r = SendBody(h, method)
    BY <1>2, DispatchV2 DEF CreateV2, UpdateV2, BodyOps
  <2>2. \E method, path : r = WithBody(Request(method, path, params, mapper), Encode(h.body, FormatOf(h)), carries)
    BY <2>1, Zenon DEF SendBody
  <2>3. params.format = FormatOf(h)
    BY ParamsAre
  <2> HIDE DEF params, mapper, carries
  <2>4. r.kind = "request" /\ r.body.form \in {"object", "text"} /\ r.params.format \in JsonFormats =>
            r.body.tree = Json(h.body.tree, r.params.format)
    <3> DEFINE body == h.body
               format == FormatOf(h)
    <3>1. body = Body(body.form, body.tree)
      OBVIOUS
    <3>2. PICK method, path : r = WithBody(Request(method, path, params, mapper), Encode(body, format), carries)
      BY <2>2
    <3>3. params.format = format
      BY <2>3
    <3> HIDE DEF body, format
    <3>4. r.kind = "request" /\ r.body.form \in {"object", "text"} /\ r.params.format \in JsonFormats =>
              r.body.tree = Json(body.tree, r.params.format)
      BY ONLY <3>1, <3>2, <3>3, SentBody
    <3> QED BY <3>4 DEF body
  <2>5. h.op # "edit"
    BY <1>2 DEF BodyOps
  <2> QED BY <2>4, <2>5 DEF BodyOf
<1>3. CASE h.op = "subscribe"
  <2>1. r.kind = "subscription"
    BY <1>3, DispatchV2 DEF SubscriptionV2
  <2> QED BY <2>1, UnsentBody
<1>4. CASE h.op \in ListOps \union ModelOps \union ServerOps \union {"configureServer", "getUiSchema", "counter"}
  <2>1. \/ r = GetV2(h) \/ r = GetAllV2(h) \/ r = GetElementV2(h) \/ r = ConfigureServer(h) \/ r = GetUiSchema
        \/ r = Counter \/ r = SendServer(h) \/ r = SendModel(h, SimpleRequestsV2)
    BY <1>4, DispatchV2 DEF ListOps
  <2>2. \E method, path, params, mapper : r = Request(method, path, params, mapper)
    <3>1. r = GetV2(h) => \E method, path, params, mapper : r = Request(method, path, params, mapper)
      BY DEF GetV2
    <3>2. r = GetAllV2(h) => \E method, path, params, mapper : r = Request(method, path, params, mapper)
      BY DEF GetAllV2
    <3>3. r = GetElementV2(h) => \E method, path, params, mapper : r = Request(method, path, params, mapper)
      BY DEF GetElementV2
    <3>4. r = ConfigureServer(h) \/ r = GetUiSchema \/ r = Counter =>
              \E method, path, params, mapper : r = Request(method, path, params, mapper)
      BY DEF ConfigureServer, GetUiSchema, Counter
    <3>5. r = SendServer(h) \/ r = SendModel(h, SimpleRequestsV2) =>
              \E method, path, params, mapper : r = Request(method, path, params, mapper)
      BY DEF SendServer, SendModel
    <3> QED BY <2>1, <3>1, <3>2, <3>3, <3>4, <3>5
  <2> QED BY <2>2, UnsentBody
<1> QED BY <1>1, <1>2, <1>3, <1>4 DEF OpsV1, OtherOps

(* The body of a request that says it is in a JSON format is what the call *)
(* was given, or the message made of that, converted to that very format.  *)
BodyConverted ==
    Requested /\ call.api = "v2" /\ request.body.form \in {"object", "text"}
              /\ request.params.format \in JsonFormats =>
        request.body.tree = AsJson(Original, request.params.format)

THEOREM BodiesConverted == Spec => []BodyConverted
<1>1. ASSUME CallsInv, Requested, call.api = "v2", request.body.form \in {"object", "text"},
             request.params.format \in JsonFormats
      PROVE  request.body.tree = Json(Original, request.params.format)
  <2> DEFINE h == ToClient(call)
  <2>1. Underway
    BY <1>1 DEF CallsInv, AtRest, NoRequest, Requested
  <2>2. SameCall(given, h) /\ WellFormed("v2", given)
    BY <1>1, <2>1, ToClientCall DEF Underway, Made, given
  <2>3. request = RequestV2(h)
    BY <1>1, <2>1 DEF Underway, RequestOf
  <2> HIDE DEF h
  <2>4. Shape(h) /\ h.op = given.op /\ h.body = given.body
    BY <2>2 DEF SameCall
  <2>5. h.op \in OpsV1 \union {"counter"} /\ given.body = Body(given.body.form, given.body.tree)
    BY <2>2, <2>4 DEF WellFormed, IsCall
  <2>6. BodyOf(h, request)
    <3>1. h.body = Body(h.body.form, h.body.tree)
      BY <2>4, <2>5, Zenon
    <3> QED BY <2>3, <2>4, <2>5, <3>1, BodiesV2
  <2> QED BY <1>1, <2>4, <2>6 DEF BodyOf, Requested, Original
<1>2. CallsInv => BodyConverted
  BY <1>1, Zenon DEF BodyConverted, Json
<1> QED BY <1>2, CallsInvariant, PTL

=============================================================================
