------------------------- MODULE MCTheiaBackendV2 -------------------------
(***************************************************************************)
(* Values for checking TheiaBackendV2 with TLC.                            *)
(***************************************************************************)
EXTENDS TheiaBackendV2

CONSTANTS modelA, modelB, listener1, listener2

LOCAL INSTANCE TLC

(* Models and frontends are only compared for equality.  Used by the runs  *)
(* that check no liveness.                                                 *)
Symmetry == Permutations({modelA, modelB}) \union Permutations({listener1, listener2})
============================================================================
