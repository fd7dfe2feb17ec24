------------------------ MODULE MCDiagnosticMarkers ------------------------
(***************************************************************************)
(* Values for checking DiagnosticMarkers with TLC.                         *)
(***************************************************************************)
EXTENDS DiagnosticMarkers

CONSTANTS elementA, elementB

MCSymmetry == Permutations({elementA, elementB})

(* A diagnostic that is OK comes from merging none.                        *)
MCLeafSeverities == {{"WARNING"}, {"ERROR"}, {"CANCEL"}}
============================================================================
