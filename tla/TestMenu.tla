------------------------------ MODULE TestMenu ------------------------------
(***************************************************************************)
(* The commands of the test menu of the example, ApiTestMenuContribution:  *)
(* the calls they make from the frontend with the client of the second     *)
(* API.  Its send and unsubscribe are calls of KeepAlive.                  *)
(***************************************************************************)
EXTENDS Requests

Model(text) == Uri(text, TRUE, "argument")
SuperBrewerCoffee == Model("SuperBrewer3000.coffee")
CoffeeEcore == Model("Coffee.ecore")
SuperBrewerJson == Model("SuperBrewer3000.json")

(* The JSON of a command, with the description of its owner.               *)
CommandTree == Object("eClass", <<Datum, Object("eClass", <<Datum>>), Array(<<Datum>>)>>)

EditCommand(uri, meant) ==
    [Call("edit", uri) EXCEPT !.edit = CommandEdit(meant.command), !.meaning = meant.meaning,
                              !.body = Body("object", CommandTree)]

SetName == Setting(<<Value("data")>>)
AddObject == Adding(<<Value("object")>>, <<>>)
RemoveIndex(i) == RemovingAt(<<Index(i)>>)

(* superBrewer3000JsonPatch                                                *)
SuperBrewer ==
    LET display == Object("none", <<Datum, Datum>>)
        processor == Object("none", <<Datum, Datum, Datum, Datum>>)
        task == Object("$type", <<Datum, Object("$type", <<Datum>>)>>)
    IN  Object("$type", << Array(<<Object("$type", <<>>), Object("$type", <<processor, display>>)>>),
                           Datum,
                           Array(<<Object("none", <<Array(<<task>>)>>)>>) >>)

Subscribing(uri, options) == [Call("subscribe", uri) EXCEPT !.options = options]
Each2(uri, ops) == { Call(op, uri) : op \in ops }

(* The commands that all three models have.                                *)
OnModel(uri) ==
    Each2(uri, {"getElementById", "getElementByName", "undo", "redo", "save", "close", "validate",
                "getValidationConstraints"})
    \union { EditCommand(uri, SetName), EditCommand(uri, AddObject),
             Subscribing(uri, {"livevalidation"}) }

ModelServerCommands ==
    Each2(NoUri, {"ping", "getAll", "getModelUris", "saveAll", "getUiSchema"})
    \union { Call("getTypeSchema", CoffeeEcore) }

SuperBrewerCoffeeCommands ==
    LET uri == SuperBrewerCoffee
    IN  OnModel(uri) \union
        { Call("get", uri),
          [Call("get", uri) EXCEPT !.second = "coffee"],
          EditCommand(uri, RemoveIndex(0)),
          [Call("update", uri) EXCEPT !.body = Body("object", SuperBrewer)],
          Subscribing(uri, {"errorWhenUnsuccessful"}) }

CoffeeEcoreCommands ==
    LET uri == CoffeeEcore
    IN  OnModel(uri) \union
        { [Call("get", uri) EXCEPT !.second = "guard"],
          EditCommand(uri, Both(SetName, SetName)),
          EditCommand(uri, RemoveIndex(5)),
          Subscribing(uri, {"timeout"}) }

(* With an add, a remove and a replace patch, written by hand.             *)
SuperBrewerJsonCommands(patches) ==
    LET uri == SuperBrewerJson
    IN  OnModel(uri) \union
        { Call("get", uri),
          EditCommand(uri, RemoveIndex(0)),
          EditCommand(uri, Custom("updateTaskName")),
          Subscribing(uri, {"timeout"}) }
        \union { [patch EXCEPT !.uri = uri] : patch \in patches }

CounterCommands == Each2(NoUri, {"counter"})

MenuCommands(patches) ==
    ModelServerCommands \union SuperBrewerCoffeeCommands \union CoffeeEcoreCommands
    \union SuperBrewerJsonCommands(patches) \union CounterCommands
=============================================================================
