---------------------------- MODULE JsonEncoding ----------------------------
(***************************************************************************)
(* What encode of type-util makes of a value: JSON of one of the formats;  *)
(* and what the bodies of requests are, when ClientCalls has this for its  *)
(* constant AsJson.  The operators are recursive, so they are kept apart   *)
(* from what is proved about.                                              *)
(***************************************************************************)
EXTENDS ClientCalls

Each(Op(_), items) == [i \in DOMAIN items |-> Op(items[i])]

(* isJsonV1, isJsonV2: the property of the format is found anywhere.       *)
RECURSIVE findProperty(_, _)
findProperty(v, property) ==
    v.type = property \/ \E i \in DOMAIN v.items : findProperty(v.items[i], property)

(* null is of type object, too.                                            *)
isNonEmptyObjectArray(v) ==
    v.kind = "array" /\ v.items # <<>> /\ v.items[1].kind \in {"object", "null"}

(* Mutant: the property of the other format is kept.                       *)
CopierKeepsType(v, format, items) == Object(v.type, items)

(* The copier: the spread of an object, with the property renamed; that of *)
(* an array is an object whose properties are its elements.                *)
Copier(v, format, items) ==
    Object(IF v.type = TypeProperty(Other(format)) THEN TypeProperty(format) ELSE v.type, items)

(* The two passes.  In a property an array stays one, but what an array of *)
(* objects holds becomes a copy, whether it is an object or not.           *)
RECURSIVE Copied(_, _), Referenced(_, _)
Copied(v, format) == Copier(v, format, Each(LAMBDA w : Referenced(w, format), v.items))
Referenced(v, format) ==
    LET CopyGetter(w) == IF w.kind \in {"object", "array"} THEN Copied(w, format) ELSE w
        InTurn(w) == Referenced(w, format)
    IN  CASE isNonEmptyObjectArray(v) -> Array(Each(CopyGetter, v.items))
          [] v.kind = "array" /\ ~isNonEmptyObjectArray(v) -> Array(Each(InTurn, v.items))
          [] OTHER -> CopyGetter(v)

(* asJsonV1, asJsonV2                                                      *)
Convert(v, format) == IF findProperty(v, TypeProperty(format)) THEN v ELSE Copied(v, format)
----------------------------------------------------------------------------
(* What encoding is for: the same value with the properties renamed.       *)
RECURSIVE Converted(_, _)
Converted(v, format) ==
    [v EXCEPT !.type = IF @ = "none" THEN @ ELSE TypeProperty(format),
              !.items = Each(LAMBDA w : Converted(w, format), @)]

(* The values it is known to fail on: with properties of both formats; and *)
(* with an array in an array that starts with an object or null.           *)
Mixed(v) == findProperty(v, "eClass") /\ findProperty(v, "$type")

RECURSIVE ArrayAmongObjects(_)
ArrayAmongObjects(v) ==
    \/ isNonEmptyObjectArray(v) /\ \E i \in DOMAIN v.items : v.items[i].kind = "array"
    \/ \E i \in DOMAIN v.items : ArrayAmongObjects(v.items[i])

Survives(v, format) ==
    IF findProperty(v, TypeProperty(format)) THEN ~Mixed(v) ELSE ~ArrayAmongObjects(v)

(* A body of the v2 client has the types of its objects under the name of  *)
(* its format, save in values that had both names, or arrays in arrays of  *)
(* objects, where it is not just left as it was.                           *)
BodyInDeclaredFormat ==
    Requested /\ call.api = "v2" /\ request.body.form \in {"object", "text"}
              /\ request.params.format \in JsonFormats =>
        (request.body.tree = Converted(Original, request.params.format)
            <=> Survives(Original, request.params.format))
=============================================================================
