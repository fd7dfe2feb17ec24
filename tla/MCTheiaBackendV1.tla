------------------------- MODULE MCTheiaBackendV1 -------------------------
(***************************************************************************)
(* Values for checking TheiaBackendV1 with TLC.                            *)
(***************************************************************************)
EXTENDS TheiaBackendV1

CONSTANTS modelA, modelB, listener1, listener2

LOCAL INSTANCE TLC

(* Models and frontends are only compared for equality.  Used by the runs  *)
(* that check no liveness.                                                 *)
Symmetry == Permutations({modelA, modelB}) \union Permutations({listener1, listener2})
============================================================================
