---------------------------- MODULE MCClientCalls ----------------------------
(***************************************************************************)
(* Values for checking ClientCalls with JsonEncoding.                      *)
(***************************************************************************)
EXTENDS JsonEncoding

MCElements == 1..3
MCFormats == {"json", "json-v2", "xmi", "coffee"}

(* Objects of all formats with up to two items, or an array of two.        *)
Types == {"none", "eClass", "$type"}
UpToOne(S) == { <<>> } \union { <<a>> : a \in S }
UpToTwo(S) == UpToOne(S) \union (S \X S)
Leaves == {Datum, Null}
Inner ==
    Leaves \union { Object(t, i) : t \in Types, i \in UpToOne(Leaves) }
           \union { Array(i) : i \in UpToOne(Leaves) }
Trees ==
    { Object(t, i) : t \in Types, i \in UpToTwo(Inner) }
    \union { Object(t, <<Array(i)>>) : t \in Types, i \in UpToTwo(Inner) }

MCModels == { Body("object", Object("eClass", <<Object("eClass", <<Datum>>)>>)),
              Body("text", Object("$type", <<Datum>>)),
              Body("noJson", Null) }
MCBodies == { Body("object", t) : t \in Trees }

(* One value of each kind, and the updates with patches of two models.     *)
MCUpdates ==
    { Update(p, TRUE, a) : p \in {"none", "main"},
                           a \in { <<>>, <<ModelPatch("main", "main")>>, <<ModelPatch("other", "other")>>,
                                   <<ModelPatch("other", "other"), ModelPatch("main", "main")>> } }
    \union { Update(p, FALSE, <<>>) : p \in {"none", "main"} }
MCAnswerData ==
    { NoData, Data("text"), Data("object"), Data("guarded"), Data("diagnostic"), Data("boolean"),
      ArrayOf(<<"text">>), ArrayOf(<<"text", "object">>), ModelsOf(<<"object">>),
      ModelsOf(<<"text", "guarded">>) }
    \union { UpdateData(u) : u \in MCUpdates }

MCOptions == {"format", "timeout", "livevalidation", "paths", "listener", "errorWhenUnsuccessful"}
==============================================================================
