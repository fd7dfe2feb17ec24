------------------------------ MODULE RpcProxy ------------------------------
(***************************************************************************)
(* A call of a frontend on its way to the backend client, and the answer   *)
(* on its way back.  The transport (external) keeps data and loses what    *)
(* is no data: functions and the classes of objects.  URIs it makes plain  *)
(* objects, which TheiaModelServerJsonRpcProxyFactory turns into URIs      *)
(* again.                                                                  *)
(*                                                                         *)
(* A call has the arguments of all operations: second and third are what   *)
(* is at the place of a guard and of formats, body what is sent, uri the   *)
(* URI, which is an argument itself or in one.                             *)
(***************************************************************************)
EXTENDS Commands

Uri(text, instance, at) == [text |-> text, instance |-> instance, at |-> at]
NoUri == Uri("none", TRUE, "nowhere")

WithoutFunction(argument) == IF argument = "guard" THEN "none" ELSE argument

(* The transport: what it loses of the arguments ...                       *)
Sent(call) ==
    [call EXCEPT !.second = WithoutFunction(@), !.third = WithoutFunction(@),
                 !.uri.instance = FALSE, !.edit.instance = FALSE]

(* Mutant: only the arguments that are URIs.                               *)
ProcessArgumentsOutermost(call) ==
    [call EXCEPT !.uri.instance = call.uri.instance \/ call.uri.at = "argument"]

(* processArguments: arguments that are URIs, and the URIs in arguments    *)
(* that are arrays or objects, but no deeper.                              *)
ProcessArguments(call) ==
    [call EXCEPT !.uri.instance = call.uri.instance \/ call.uri.at \in {"argument", "array", "object"}]

Received(call) == ProcessArguments(Sent(call))

(* ... and of the answer: the function of an update result.                *)
Returned(outcome) ==
    IF outcome.kind = "resolved" /\ outcome.value.kind = "update"
    THEN [outcome EXCEPT !.value.patchable = FALSE]
    ELSE outcome
=============================================================================
