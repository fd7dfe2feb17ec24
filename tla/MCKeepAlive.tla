----------------------------- MODULE MCKeepAlive -----------------------------
(***************************************************************************)
(* Values for checking KeepAlive with TLC.                                 *)
(***************************************************************************)
EXTENDS KeepAlive

CONSTANTS modelA, modelB, listener1, listener2

LOCAL INSTANCE TLC

(* Only listeners are interchangeable: one of the models is the kept one.  *)
Symmetry == Permutations({listener1, listener2})
==============================================================================
