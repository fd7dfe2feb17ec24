----------------------------- MODULE PatchUtils -----------------------------
(***************************************************************************)
(* The builders of JSON patches in patch-utils.  A path leads to an object *)
(* by its id, to a feature of it, or to an element of that by its index,   *)
(* counted from 0 in the copy of the model the caller has.  The model is a *)
(* sequence: the value of the one feature of its root object.              *)
(***************************************************************************)
EXTENDS Integers, SequencesExt

Root == 0                                   \* the id of the object with the feature
NoIndex == -1

(* getObjectPath, getPropertyPath: a reference is followed to its object.  *)
ObjectPath(id) == [object |-> id, feature |-> FALSE, index |-> NoIndex]
PropertyPath(id, index) == [object |-> id, feature |-> TRUE, index |-> index]

Operation(op, path, value) == [op |-> op, path |-> path, value |-> value]

(* create makes an object from its type and attributes, add takes one that *)
(* exists by its id; replace sets the feature.                             *)
Replace(value) == Operation("replace", PropertyPath(Root, NoIndex), value)
Create == Operation("add", PropertyPath(Root, NoIndex), "object")
Add == Operation("add", PropertyPath(Root, NoIndex), "reference")
DeleteElement(id) == Operation("remove", ObjectPath(id), "none")
RemoveObject(id) == DeleteElement(id)
RemoveValueAt(index) == Operation("remove", PropertyPath(Root, index), "none")

(* Mutant: counted from 1.                                                 *)
FindIndexFromOne(copy, id) == IF Contains(copy, id) THEN SelectInSeq(copy, LAMBDA e : e = id) ELSE -1

(* findIndex: indexOf the very object in the copy.                         *)
FindIndex(copy, id) == SelectInSeq(copy, LAMBDA e : e = id) - 1

(* removeValue: nothing when the object is not there.                      *)
RemoveValue(copy, id) ==
    IF FindIndex(copy, id) >= 0 THEN << RemoveValueAt(FindIndex(copy, id)) >> ELSE <<>>

(* Operations.isAdd, isReplace and isRemove: by the name of the operation  *)
(* and, for the first two, a guard: the set of the values it lets pass.    *)
IsAdd(operation, guard) == operation.op = "add" /\ operation.value \in guard
IsReplace(operation, guard) == operation.op = "replace" /\ operation.value \in guard
IsRemove(operation) == operation.op = "remove"
----------------------------------------------------------------------------
(* What the server removes (external): an object wherever it is now, or    *)
(* what is at the index now, if there is anything.                         *)
RemovedAt(list, index) == IF index + 1 \in DOMAIN list THEN {list[index + 1]} ELSE {}

Removes(list, operation) ==
    CASE ~IsRemove(operation) -> {}
      [] IsRemove(operation) /\ ~operation.path.feature -> {operation.path.object} \intersect ToSet(list)
      [] OTHER -> RemovedAt(list, operation.path.index)
=============================================================================
