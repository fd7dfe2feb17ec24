------------------------- MODULE MCClientSocketsV1 -------------------------
(***************************************************************************)
(* Values for checking ClientSocketsV1 with TLC.                           *)
(***************************************************************************)
EXTENDS ClientSocketsV1

CONSTANTS modelA, modelB, listener1, listener2

LOCAL INSTANCE TLC

(* Models and listeners are only compared for equality.  Used by the runs  *)
(* that check no liveness.                                                 *)
Symmetry == Permutations({modelA, modelB}) \union Permutations({listener1, listener2})
============================================================================
