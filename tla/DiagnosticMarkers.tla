-------------------------- MODULE DiagnosticMarkers --------------------------
(***************************************************************************)
(* DiagnosticManager: it shows the leaves of the diagnostics of a model as *)
(* markers of Theia's problem manager (external), which keeps a list of    *)
(* markers for each model and owner; the owner is the element's id.        *)
(***************************************************************************)
EXTENDS Diagnostics

CONSTANT Models

VARIABLES
    markers,  \* the problem manager: the markers of each model and owner
    shown     \* ghost: the diagnostics last set for each model

vars == <<diagnosticVars, markers, shown>>

MarkerSeverities == {"Hint", "Information", "Warning", "Error"}
Markers == [of : Diagnostics, severity : MarkerSeverities]
Owners == Ids \union {RootId, NoId}
NoMarkers == [owner \in Owners |-> <<>>]

TypeOK ==
    /\ DiagnosticTypeOK
    /\ markers \in [Models -> [Owners -> Seq(Markers)]]
    /\ shown \in [Models -> Seq(Existing)]

Init ==
    /\ DiagnosticInit
    /\ markers = [m \in Models |-> NoMarkers]
    /\ shown = [m \in Models |-> <<>>]

----------------------------------------------------------------------------
(* emfToLangServerDiagnostic has no marker for a cancelled diagnostic.     *)
Convertible(d) == SeverityLabel(severity[d]) # "CANCEL"

emfToLangServerDiagnostic(d) ==
    [of |-> d,
     severity |-> CASE SeverityLabel(severity[d]) = "ERROR" -> "Error"
                    [] SeverityLabel(severity[d]) = "WARNING" -> "Warning"
                    [] SeverityLabel(severity[d]) = "INFO" -> "Information"
                    [] SeverityLabel(severity[d]) = "OK" -> "Hint"]

(* The converted diagnostics of each id, in the order of the leaves.       *)
ConvertedPerElementId(leaves) ==
    [owner \in Owners |->
        LET own == Filtered(leaves, { d \in ToSet(leaves) : id[d] = owner /\ Convertible(d) })
        IN  [i \in DOMAIN own |-> emfToLangServerDiagnostic(own[i])]]

(* Mutant: the old markers are not cleaned, only those of an id that has   *)
(* new ones are replaced.                                                  *)
SetDiagnosticLeavesNoClean(m, leaves) ==
    LET new == ConvertedPerElementId(leaves)
    IN  markers' = [markers EXCEPT ![m] =
                       [owner \in Owners |-> IF new[owner] = <<>> THEN @[owner] ELSE new[owner]]]

(* cleanAllMarkers, then setMarkers for each id.                           *)
SetDiagnosticLeaves(m, leaves) ==
    markers' = [markers EXCEPT ![m] = ConvertedPerElementId(leaves)]

SetDiagnostic(m, d) ==
    /\ SetDiagnosticLeaves(m, CollectLeaves[d])
    /\ shown' = [shown EXCEPT ![m] = <<d>>]
    /\ UNCHANGED diagnosticVars

SetDiagnostics(m, list) ==
    /\ SetDiagnosticLeaves(m, FlattenSeq([i \in DOMAIN list |-> CollectLeaves[list[i]]]))
    /\ shown' = [shown EXCEPT ![m] = list]
    /\ UNCHANGED diagnosticVars

Next ==
    \/ DiagnosticNext /\ UNCHANGED <<markers, shown>>
    \/ \E m \in Models :
        \/ \E d \in Existing : SetDiagnostic(m, d)
        \/ \E list \in Lists : SetDiagnostics(m, list)

Spec == Init /\ [][Next]_vars

----------------------------------------------------------------------------
(* The markers of a model stay those of the diagnostics last set for it:   *)
(* each problem that is not cancelled has one wherever it was reported,    *)
(* nothing of an older validation remains, and neither merging nor         *)
(* recomputing severities afterwards makes a marker stale, although the    *)
(* objects are shared.                                                     *)
Problems(m) == UNION { { leaf \in LeavesUnder(d) : Convertible(leaf) } : d \in ToSet(shown[m]) }
MarkersAreCurrent ==
    \A m \in Models :
        \A owner \in Owners :
            ToSet(markers[m][owner]) =
                { emfToLangServerDiagnostic(d) : d \in { p \in Problems(m) : id[p] = owner } }
============================================================================
