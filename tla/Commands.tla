------------------------------ MODULE Commands ------------------------------
(***************************************************************************)
(* The commands of the model server: which of their fields a constructor   *)
(* fills with what it is given, how the guards and the backend recognise   *)
(* them, and what the server reads from their fields.  The values of a     *)
(* feature are data, objects to add, or references to objects of the       *)
(* model; objects and references have an eClass.                           *)
(***************************************************************************)
EXTENDS Naturals, SequencesExt

CommandUri == "Command"
CompoundUri == "CompoundCommand"

Value(kind) == [kind |-> kind]
Index(i) == [kind |-> "number", index |-> i]
ToAdded(i) == [kind |-> "reference", index |-> i]

(* new ModelServerCommand(type), or a custom subclass of it.               *)
Command(type) ==
    [eClass |-> CommandUri, type |-> type, indices |-> <<>>, dataValues |-> <<>>,
     objectValues |-> <<>>, objectsToAdd |-> <<>>, commands |-> <<>>]

CompoundCommand(commands) ==
    [Command("compound") EXCEPT !.eClass = CompoundUri, !.commands = commands]

(* The array guards hold of an empty array.                                *)
isNumberArray(values) == \A v \in Range(values) : v.kind = "number"
isModelServerObjectArray(values) == \A v \in Range(values) : v.kind \in {"object", "reference"}

(* ModelServerReferenceDescription inherits its guard from                 *)
(* ModelServerObject, which asks for no $ref.                              *)
isModelServerReferenceDescriptionArray(values) == isModelServerObjectArray(values)

RemoveCommand(toDelete) ==
    IF isNumberArray(toDelete)
    THEN [Command("remove") EXCEPT !.indices = toDelete]
    ELSE [Command("remove") EXCEPT !.objectValues = toDelete]

(* index is an index or none; "if (index)" takes 0 for none.               *)
AddCommand(toAdd, index) ==
    LET add == [Command("add") EXCEPT !.indices = IF index = <<Index(0)>> THEN <<>> ELSE index]
    IN  IF isModelServerObjectArray(toAdd)
        THEN [add EXCEPT !.objectsToAdd = toAdd, !.objectValues = [i \in DOMAIN toAdd |-> ToAdded(i)]]
        ELSE [add EXCEPT !.dataValues = toAdd]

SetCommand(changedValues) ==
    LET set == Command("set")
    IN  CASE isModelServerReferenceDescriptionArray(changedValues) ->
                [set EXCEPT !.objectValues = changedValues]
          [] ~isModelServerReferenceDescriptionArray(changedValues)
             /\ isModelServerObjectArray(changedValues) -> [set EXCEPT !.objectsToAdd = changedValues]
          [] OTHER -> [set EXCEPT !.dataValues = changedValues]

(* ModelServerCommand.is: by the eClass, which a compound command has not. *)
IsCommand(command) == command.eClass = CommandUri
----------------------------------------------------------------------------
(* What edit is given.  A command is an instance of its class as long as   *)
(* it has its prototype.  A patch is a sequence of operations.             *)
EditOf(form, command, operations) ==
    [form |-> form, instance |-> form = "command", command |-> command, operations |-> operations]

CommandEdit(command) == EditOf("command", command, <<>>)
PatchEdit(operations) == EditOf("patch", Command("none"), operations)
NoEdit == EditOf("none", Command("none"), <<>>)

(* ensureCommandPrototype.  Whatever it was, it becomes an instance of     *)
(* ModelServerCommand in the end; a compound command does not get here.    *)
EnsureCommandPrototype(edit) == [edit EXCEPT !.instance = TRUE]
----------------------------------------------------------------------------
(* What a command means to its caller: what was given to the constructor.  *)
(* Objects to add are new, those of references are in the model already.   *)
Meaning(does, indices, values, of) ==
    [does |-> does, indices |-> indices, values |-> values, of |-> of]
Nothing == Meaning("nothing", <<>>, <<>>, <<>>)

Meant(command, meaning) == [command |-> command, meaning |-> meaning]
Setting(values) == Meant(SetCommand(values), Meaning("set", <<>>, values, <<>>))
Adding(values, index) == Meant(AddCommand(values, index), Meaning("add", index, values, <<>>))
RemovingAt(indices) == Meant(RemoveCommand(indices), Meaning("remove", indices, <<>>, <<>>))
Removing(values) == Meant(RemoveCommand(values), Meaning("remove", <<>>, values, <<>>))
Custom(type) == Meant(Command(type), Meaning(type, <<>>, <<>>, <<>>))
Both(a, b) ==
    Meant(CompoundCommand(<<a.command, b.command>>),
          Meaning("compound", <<>>, <<>>, <<a.meaning, b.meaning>>))

(* What the server reads from the fields (external).                       *)
ReadOne(command) ==
    Meaning(command.type, command.indices,
            CASE command.objectsToAdd # <<>> -> [i \in DOMAIN command.objectsToAdd |-> Value("object")]
              [] command.objectsToAdd = <<>> /\ command.objectValues # <<>> ->
                    [i \in DOMAIN command.objectValues |-> Value("reference")]
              [] OTHER -> command.dataValues,
            <<>>)

Read(command) ==
    [ReadOne(command) EXCEPT !.of = [i \in DOMAIN command.commands |-> ReadOne(command.commands[i])]]
=============================================================================
