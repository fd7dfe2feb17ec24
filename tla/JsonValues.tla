----------------------------- MODULE JsonValues -----------------------------
(***************************************************************************)
(* The bodies of requests.  The JSON formats differ in the name of the     *)
(* property that holds the type of an object, eClass or $type, so a value  *)
(* is a tree of objects, arrays, data and null, in which objects have one  *)
(* of the two, or none, and items stands for the other properties of an    *)
(* object or for the elements of an array.  Graphs with cycles, which have *)
(* no JSON, are left out.                                                  *)
(***************************************************************************)
EXTENDS Naturals, Sequences

FORMAT_JSON_V1 == "json"
FORMAT_JSON_V2 == "json-v2"
FORMAT_XMI == "xmi"
JsonFormats == {FORMAT_JSON_V1, FORMAT_JSON_V2}

TypeProperty(format) == IF format = FORMAT_JSON_V1 THEN "eClass" ELSE "$type"
Other(format) == IF format = FORMAT_JSON_V1 THEN FORMAT_JSON_V2 ELSE FORMAT_JSON_V1

Node(kind, type, items) == [kind |-> kind, type |-> type, items |-> items]
Object(type, items) == Node("object", type, items)
Array(items) == Node("array", "none", items)
Datum == Node("data", "none", <<>>)
Null == Node("null", "none", <<>>)

(* A body is an object, the text of one, or a text that is no JSON.        *)
Body(form, tree) == [form |-> form, tree |-> tree]
NoBody == Body("none", Null)
Unencodable == Body("throws", Null)
=============================================================================
