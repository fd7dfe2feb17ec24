-------------------------- MODULE MCNotifications --------------------------
(***************************************************************************)
(* Values for checking Notifications with TLC.                             *)
(***************************************************************************)
EXTENDS Notifications

CONSTANTS model, listener

(* One message of each kind besides updates, the ones without the data     *)
(* their type calls for, and the updates that are no patches or empty.     *)
MCOtherMessages == {
    Message("dirtyState", Data("boolean")),
    Message("dirtyState", Data("text")),
    Message("success", Data("text")),
    Message("keepAlive", Data("undefined")),
    Message("warning", Data("text")),
    Message("error", Data("object")),
    Message("validationResult", Data("diagnostic")),
    Message("validationResult", Data("object")),
    Message("incrementalUpdate", Data("patch")),
    Message("incrementalUpdate", Data("commandResult")),
    Message("incrementalUpdate", Data("text")),
    Message("fullUpdate", Data("text")),
    Message("fullUpdate", Data("undefined")),
    Message("toString", Data("object")),
    Message("close", Data("text")),
    Message("custom", Data("object"))}
============================================================================
