------------------------- MODULE MCWorkspaceSetup -------------------------
(***************************************************************************)
(* Values for checking WorkspaceSetup with TLC.                            *)
(***************************************************************************)
EXTENDS WorkspaceSetup

CONSTANTS root1, root2
===========================================================================
