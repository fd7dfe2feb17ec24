---------------------------- MODULE Diagnostics ----------------------------
(***************************************************************************)
(* The Diagnostic objects of a client, results of validations, and what    *)
(* the functions of the Diagnostic namespace do to them.  The objects are  *)
(* shared: a merged diagnostic holds the ones it was made of, and          *)
(* recomputeSeverity changes an object in place, for all that hold it.     *)
(***************************************************************************)
EXTENDS Naturals, SequencesExt

CONSTANTS
    Ids,              \* the model elements that are validated
    RootId,           \* the id of the root element and of a merged diagnostic, "/"
    NoId,             \* the id of ok(), ""
    LeafSeverities,   \* the severities of the problems a server reports
    MaxDiagnostics,   \* BOUND: the number of objects
    MaxChildren       \* BOUND: how many are merged or reported together

ASSUME BoundsAssumption == MaxDiagnostics \in Nat /\ MaxChildren \in Nat

(* A severity is a bit mask: here the set of its bits, | is \union, and    *)
(* numbers are compared by the highest bit in which they differ.           *)
OK == {}
Flags == <<"INFO", "WARNING", "ERROR", "CANCEL">>
Severities == SUBSET ToSet(Flags)
Greater(a, b) ==
    \E i \in DOMAIN Flags :
        /\ Flags[i] \in a \ b
        /\ \A j \in (i + 1)..Len(Flags) : Flags[j] \in a <=> Flags[j] \in b

ASSUME LeafSeveritiesAssumption == LeafSeverities \subseteq Severities

VARIABLES
    objects,   \* how many objects there are
    severity,  \* of each object, as in its interface
    children,
    id

diagnosticVars == <<objects, severity, children, id>>

Diagnostics == 1..MaxDiagnostics
Existing == 1..objects
Lists == BoundedSeq(Existing, MaxChildren)

DiagnosticTypeOK ==
    /\ objects \in 0..MaxDiagnostics
    /\ severity \in [Diagnostics -> Severities]
    /\ \A d \in Diagnostics : children[d] \in Seq(1..(d - 1))
    /\ id \in [Diagnostics -> Ids \union {RootId, NoId}]

DiagnosticInit ==
    /\ objects = 0
    /\ severity = [d \in Diagnostics |-> OK]
    /\ children = [d \in Diagnostics |-> <<>>]
    /\ id = [d \in Diagnostics |-> NoId]

----------------------------------------------------------------------------
(* The functions that only look.                                           *)

(* The elements of list that are in set, in their order.  (SelectSeq has   *)
(* no definition that a proof could use.)                                  *)
Filtered(list, set) ==
    FlattenSeq([i \in DOMAIN list |-> IF list[i] \in set THEN <<list[i]>> ELSE <<>>])

SeverityLabel(s) ==
    CASE "CANCEL" \in s -> "CANCEL"
      [] "ERROR" \in s /\ "CANCEL" \notin s -> "ERROR"
      [] "WARNING" \in s /\ s \intersect {"CANCEL", "ERROR"} = {} -> "WARNING"
      [] s = {"INFO"} -> "INFO"
      [] s = OK -> "OK"

(* collectLeaves: the problems below d, in order, d itself if it is one.   *)
CollectLeaves ==
    LET leaves[d \in Diagnostics] ==
            IF children[d] # <<>>
            THEN FlattenSeq([i \in DOMAIN children[d] |-> leaves[children[d][i]]])
            ELSE IF severity[d] # OK THEN <<d>> ELSE <<>>
    IN  leaves

(* worstOf a list that is not empty: the first one no later one exceeds,   *)
(* where the search ends at a severity that is exactly CANCEL.             *)
Searched(list) ==
    LET stop == SelectInSeq(list, LAMBDA d : severity[d] = {"CANCEL"})
    IN  IF stop = 0 THEN list ELSE SubSeq(list, 1, stop)

(* Mutant: the last one instead of the worst.                              *)
WorstOfLast(list) == Last(Searched(list))

WorstOf(list) ==
    LET searched == Searched(list)
        worst[i \in 1..Len(searched)] ==
            IF i = 1 \/ Greater(severity[searched[i]], severity[worst[i - 1]])
            THEN searched[i] ELSE worst[i - 1]
    IN  worst[Len(searched)]

----------------------------------------------------------------------------
(* The steps.                                                              *)

(* Mutant: the new object is among its own children.                       *)
NewDiagnosticOfItself(s, list, element) ==
    /\ objects < MaxDiagnostics
    /\ objects' = objects + 1
    /\ severity' = [severity EXCEPT ![objects + 1] = s]
    /\ children' = [children EXCEPT ![objects + 1] = IF list = <<>> THEN list ELSE Append(list, objects + 1)]
    /\ id' = [id EXCEPT ![objects + 1] = element]

NewDiagnostic(s, list, element) ==
    /\ objects < MaxDiagnostics
    /\ objects' = objects + 1
    /\ severity' = [severity EXCEPT ![objects + 1] = s]
    /\ children' = [children EXCEPT ![objects + 1] = list]
    /\ id' = [id EXCEPT ![objects + 1] = element]

(* A problem in the answer of the server.                                  *)
Report(s, element) == NewDiagnostic(s, <<>>, element)

(* The diagnostic of the root element is composed of others and has the    *)
(* greatest severity of them, which EMF keeps up to date in adding them.   *)
ReportComposed(list) ==
    \E d \in ToSet(list) :
        /\ \A e \in ToSet(list) : ~Greater(severity[e], severity[d])
        /\ NewDiagnostic(severity[d], list, RootId)

(* merge: OK diagnostics are dropped, and only several problems need a new *)
(* object.  With none of them the result is ok().                          *)
Merge(list) ==
    LET nonOK == Filtered(list, { d \in ToSet(list) : severity[d] # OK })
    IN  CASE Len(nonOK) = 0 -> NewDiagnostic(OK, <<>>, NoId)
          [] Len(nonOK) = 1 -> UNCHANGED diagnosticVars
          [] OTHER -> NewDiagnostic(severity[WorstOf(list)], nonOK, RootId)

(* d and everything below it.                                              *)
Below ==
    LET below[d \in Diagnostics] ==
            {d} \union UNION { below[c] : c \in ToSet(children[d]) }
    IN  below

(* The severities below d, recomputed bottom up.                           *)
Recomputed ==
    LET new[d \in Diagnostics] ==
            IF children[d] = <<>> THEN severity[d]
                                  ELSE UNION { new[c] : c \in ToSet(children[d]) }
    IN  new

RecomputeSeverity(d) ==
    /\ severity' = [e \in Diagnostics |-> IF e \in Below[d] THEN Recomputed[e] ELSE severity[e]]
    /\ UNCHANGED <<objects, children, id>>

DiagnosticNext ==
    \/ \E s \in LeafSeverities, element \in Ids : Report(s, element)
    \/ \E list \in Lists : ReportComposed(list)
    \/ \E list \in Lists : Merge(list)
    \/ \E d \in Existing : RecomputeSeverity(d)

----------------------------------------------------------------------------
(* The severity of a diagnostic is never milder or worse than its worst    *)
(* leaf, as far as getSeverityLabel can tell: the severities that merge    *)
(* copies, the sums of recomputeSeverity, the changes it makes to shared   *)
(* objects and the early end of worstOf do not make a difference.          *)
LeavesUnder(d) == ToSet(CollectLeaves[d])
LabelIsWorstLeaf ==
    \A d \in Existing :
        LET all == UNION { severity[leaf] : leaf \in LeavesUnder(d) }
        IN  SeverityLabel(severity[d]) = SeverityLabel(all)
============================================================================
