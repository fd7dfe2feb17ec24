----------------------- MODULE DiagnosticMarkers_proofs ----------------------
(***************************************************************************)
(* Proofs about DiagnosticMarkers: the label of a diagnostic is that of    *)
(* its worst leaf, and the markers of a model stay those of the            *)
(* diagnostics last set for it.                                            *)
(*                                                                         *)
(* The argument has four parts.  Functions that are defined by recursion   *)
(* over natural numbers exist, and what holds of a number if it holds of   *)
(* all smaller ones holds of all (stated for sets, so that it can be cited *)
(* for any property).  The grade of a severity, 0 for OK to 4 for CANCEL,  *)
(* is all that its label shows; | and > respect it.  The leaves and the    *)
(* recomputed severity of a diagnostic depend on its tree only, and a step *)
(* leaves the trees of the objects that exist alone.  With this the        *)
(* invariant is that the grade of every severity is that of the            *)
(* recomputed one.                                                         *)
(***************************************************************************)
EXTENDS DiagnosticMarkers, SequenceTheorems, WellFoundedInduction, TLAPS

----------------------------------------------------------------------------
(* A set of natural numbers has a least element.                           *)
LEMMA Least ==
    ASSUME NEW S, S \subseteq Nat, S # {}
    PROVE  \E x \in S : \A y \in S : x <= y
<1>1. PICK x \in S : \A y \in S : ~(<<y, x>> \in OpToRel(<, Nat))
  BY NatLessThanWellFounded, WFMin, Zenon
<1>2. \A y \in S : ~(y < x)
  BY <1>1 DEF OpToRel
<1> QED BY <1>2

(* What holds of a number if it holds of all smaller ones holds of all.    *)
LEMMA FromSmaller ==
    ASSUME NEW n \in Nat, NEW S,
           \A d \in 1..n : (\A c \in 1..(d - 1) : c \in S) => d \in S
    PROVE  1..n \subseteq S
<1> DEFINE Others == { d \in 1..n : d \notin S }
<1> SUFFICES ASSUME Others # {} PROVE FALSE
  OBVIOUS
<1>1. Others \subseteq Nat
  OBVIOUS
<1>2. PICK d \in Others : \A c \in Others : d <= c
  <2> HIDE DEF Others
  <2> QED BY <1>1, Least
<1>3. \A c \in 1..(d - 1) : c \in S
  BY <1>2
<1> QED BY <1>2, <1>3

(* A recursion that only looks at smaller numbers defines a function.      *)
Recursion(n, T, F, step) ==
    /\ n \in Nat /\ T # {} /\ F = [1..n -> T]
    /\ \A d \in 1..n : \A f \in F : step[d][f] \in T
    /\ \A d \in 1..n : \A f, g \in F :
            (\A c \in 1..(d - 1) : f[c] = g[c]) => step[d][f] = step[d][g]

(* Such a recursion has a solution.                                        *)
LEMMA RecursionDefines ==
    ASSUME NEW n, NEW T, NEW F, NEW step, Recursion(n, T, F, step)
    PROVE  \E f \in F : \A d \in 1..n : f[d] = step[d][f]
<1> USE DEF Recursion
<1> DEFINE Right(f, k) == \A d \in 1..k : f[d] = step[d][f]
           S == { k \in 1..n : \E f \in F : Right(f, k) }
<1>1. ASSUME NEW k \in 1..n, \A c \in 1..(k - 1) : c \in S PROVE k \in S
  <2>1. PICK f \in F : Right(f, k - 1)
    <3>1. CASE k = 1
      <4>1. PICK t \in T : TRUE
        OBVIOUS
      <4>2. [d \in 1..n |-> t] \in F
        BY <4>1
      <4>3. \A f : Right(f, k - 1)
        BY <3>1
      <4> QED BY <4>2, <4>3
    <3>2. CASE k # 1
      <4>1. k - 1 \in 1..(k - 1)
        BY <3>2
      <4> QED BY <1>1, <4>1
    <3> QED BY <3>1, <3>2
  <2> DEFINE g == [f EXCEPT ![k] = step[k][f]]
  <2>2. g \in F /\ g[k] = step[k][f] /\ \A c \in 1..(k - 1) : g[c] = f[c]
    OBVIOUS
  <2> HIDE DEF g
  <2>3. ASSUME NEW d \in 1..k PROVE g[d] = step[d][g]
    <3>1. \A c \in 1..(d - 1) : g[c] = f[c]
      BY <2>2
    <3>2. step[d][g] = step[d][f]
      BY <2>2, <3>1
    <3>3. CASE d = k
      BY <2>2, <3>2, <3>3
    <3>4. CASE d # k
      BY <2>1, <2>2, <3>2, <3>4
    <3> QED BY <3>3, <3>4
  <2> QED BY <2>2, <2>3
<1> HIDE DEF S
<1>2. 1..n \subseteq S
  BY <1>1, FromSmaller
<1>3. CASE n = 0
  <2>1. [d \in 1..n |-> 0] \in F /\ 1..n = {}
    BY <1>3
  <2> QED BY <2>1
<1>4. CASE n # 0
  <2>1. n \in S
    BY <1>2, <1>4
  <2> QED BY <2>1 DEF S
<1> QED BY <1>3, <1>4

----------------------------------------------------------------------------
(* All elements of the lists in a list, in one list.                       *)
LEMMA Flattened ==
    ASSUME NEW S, NEW ss \in Seq(Seq(S))
    PROVE  /\ FlattenSeq(ss) \in Seq(S)
           /\ ToSet(FlattenSeq(ss)) = UNION { ToSet(ss[i]) : i \in DOMAIN ss }
<1> DEFINE n == Len(ss)
           Body(f, i) == IF i = 1 THEN ss[i] ELSE f[i - 1] \o ss[i]
           flatten == CHOOSE f : f = [i \in 1..n |-> Body(f, i)]
<1>1. CASE n = 0
  <2>1. ss = <<>> /\ FlattenSeq(ss) = ss /\ DOMAIN ss = {}
    BY <1>1 DEF FlattenSeq
  <2>2. ss \in Seq(S)
    BY <2>1
  <2> QED BY <2>1, <2>2 DEF ToSet
<1>2. CASE n # 0
  <2>1. n \in Nat \ {0} /\ \A i \in 1..n : ss[i] \in Seq(S)
    BY <1>2
  <2> DEFINE step == [i \in 1..n |-> [f \in [1..n -> Seq(S)] |-> Body(f, i)]]
  <2>2. Seq(S) # {}
    <3>1. <<>> \in Seq(S)
      OBVIOUS
    <3> QED BY <3>1
  <2>3. ASSUME NEW i \in 1..n, NEW f \in [1..n -> Seq(S)]
        PROVE  step[i][f] = Body(f, i) /\ step[i][f] \in Seq(S)
    <3>1. i # 1 => i - 1 \in 1..n
      BY <2>1
    <3>2. Body(f, i) \in Seq(S)
      <4>1. CASE i = 1
        BY <2>1, <4>1
      <4>2. CASE i # 1
        <5>1. f[i - 1] \in Seq(S) /\ ss[i] \in Seq(S)
          BY <2>1, <3>1, <4>2
        <5> QED BY <4>2, <5>1
      <4> QED BY <4>1, <4>2
    <3> QED BY <3>2
  <2>4. ASSUME NEW i \in 1..n, NEW f \in [1..n -> Seq(S)], NEW g \in [1..n -> Seq(S)],
               \A c \in 1..(i - 1) : f[c] = g[c]
        PROVE  step[i][f] = step[i][g]
    <3>1. i # 1 => i - 1 \in 1..(i - 1)
      OBVIOUS
    <3> QED BY <2>3, <2>4, <3>1
  <2>5. PICK f \in [1..n -> Seq(S)] : \A i \in 1..n : f[i] = step[i][f]
    <3>1. n \in Nat
      BY <2>1
    <3> DEFINE T == Seq(S)
               F == [1..n -> T]
    <3>2. \A i \in 1..n : \A h \in F : step[i][h] \in T
      BY <2>3
    <3>3. \A i \in 1..n : \A h, g \in F :
            (\A c \in 1..(i - 1) : h[c] = g[c]) => step[i][h] = step[i][g]
      BY <2>4
    <3>4. T # {} /\ F = [1..n -> T]
      BY <2>2
    <3>5. \E h \in F : \A i \in 1..n : h[i] = step[i][h]
      <4> HIDE DEF T, F, step, n
      <4>1. Recursion(n, T, F, step)
        BY <3>1, <3>2, <3>3, <3>4 DEF Recursion
      <4> QED BY <4>1, RecursionDefines
    <3> QED BY <3>5
  <2>6. f = [i \in 1..n |-> Body(f, i)]
    BY <2>3, <2>5
  <2>7. flatten = [i \in 1..n |-> Body(flatten, i)]
    <3> HIDE DEF Body
    <3> QED BY <2>6
  <2>8. FlattenSeq(ss) = flatten[n]
    BY <1>2 DEF FlattenSeq
  <2> HIDE DEF flatten, step
  <2> DEFINE Good(i) == /\ flatten[i] \in Seq(S)
                        /\ ToSet(flatten[i]) = UNION { ToSet(ss[j]) : j \in 1..i }
             G == { i \in 1..n : Good(i) }
  <2>9. ASSUME NEW i \in 1..n, \A c \in 1..(i - 1) : c \in G PROVE i \in G
    <3>1. flatten[i] = Body(flatten, i)
      BY <2>7
    <3>2. CASE i = 1
      <4>1. flatten[i] = ss[1] /\ 1..i = {1}
        BY <3>1, <3>2
      <4> QED BY <2>1, <3>2, <4>1
    <3>3. CASE i # 1
      <4>1. i - 1 \in 1..(i - 1) /\ 1..i = 1..(i - 1) \union {i}
        BY <3>3
      <4>2. Good(i - 1)
        BY <2>9, <4>1
      <4>3. flatten[i] = flatten[i - 1] \o ss[i]
        BY <3>1, <3>3
      <4>4. flatten[i] \in Seq(S)
        BY <2>1, <4>2, <4>3
      <4>5. ToSet(flatten[i]) = ToSet(flatten[i - 1]) \union ToSet(ss[i])
        <5> DEFINE a == flatten[i - 1]
                   b == ss[i]
        <5>1. a \in Seq(S) /\ b \in Seq(S)
          BY <2>1, <4>2
        <5> HIDE DEF a, b
        <5>2. ToSet(a \o b) = ToSet(a) \union ToSet(b)
          <6>1. /\ Len(a) \in Nat /\ Len(b) \in Nat /\ DOMAIN (a \o b) = 1..(Len(a) + Len(b))
                /\ DOMAIN a = 1..Len(a) /\ DOMAIN b = 1..Len(b)
                /\ \A k \in 1..Len(a) : (a \o b)[k] = a[k]
                /\ \A k \in 1..Len(b) : (a \o b)[Len(a) + k] = b[k]
            BY <5>1
          <6>2. ASSUME NEW k \in 1..(Len(a) + Len(b))
                PROVE  (a \o b)[k] \in ToSet(a) \union ToSet(b)
            <7>1. CASE k \in 1..Len(a)
              BY <6>1, <7>1 DEF ToSet
            <7>2. CASE k \notin 1..Len(a)
              <8>1. k - Len(a) \in 1..Len(b) /\ Len(a) + (k - Len(a)) = k
                BY <6>1, <7>2
              <8> QED BY <6>1, <8>1 DEF ToSet
            <7> QED BY <7>1, <7>2
          <6>3. ASSUME NEW k \in 1..Len(a) PROVE a[k] \in ToSet(a \o b)
            <7>1. k \in 1..(Len(a) + Len(b))
              BY <6>1
            <7> QED BY <6>1, <7>1 DEF ToSet
          <6>4. ASSUME NEW k \in 1..Len(b) PROVE b[k] \in ToSet(a \o b)
            <7>1. Len(a) + k \in 1..(Len(a) + Len(b))
              BY <6>1
            <7> QED BY <6>1, <7>1 DEF ToSet
          <6>5. ToSet(a \o b) \subseteq ToSet(a) \union ToSet(b)
            BY <6>1, <6>2 DEF ToSet
          <6>6. ToSet(a) \subseteq ToSet(a \o b) /\ ToSet(b) \subseteq ToSet(a \o b)
            BY <6>1, <6>3, <6>4 DEF ToSet
          <6> QED BY <6>5, <6>6
        <5> QED BY <4>3, <5>2 DEF a, b
      <4>6. UNION { ToSet(ss[j]) : j \in 1..i } =
                (UNION { ToSet(ss[j]) : j \in 1..(i - 1) }) \union ToSet(ss[i])
        BY <4>1
      <4> QED BY <4>2, <4>4, <4>5, <4>6
    <3> QED BY <3>2, <3>3
  <2>10. n \in G
    <3> HIDE DEF G
    <3>1. n \in Nat /\ n \in 1..n
      BY <2>1
    <3>2. 1..n \subseteq G
      <4> HIDE DEF n
      <4> QED BY <2>9, <3>1, FromSmaller
    <3> QED BY <3>1, <3>2
  <2>11. DOMAIN ss = 1..n
    OBVIOUS
  <2> QED BY <2>8, <2>10, <2>11
<1> QED BY <1>1, <1>2

(* Filtered keeps the elements of list that are in set, and no other.      *)
LEMMA FilteredList ==
    ASSUME NEW S, NEW list \in Seq(S), NEW set
    PROVE  /\ Filtered(list, set) \in Seq(S)
           /\ ToSet(Filtered(list, set)) = { x \in ToSet(list) : x \in set }
<1> DEFINE ss == [i \in DOMAIN list |-> IF list[i] \in set THEN <<list[i]>> ELSE <<>>]
<1>1. ss \in Seq(Seq(S)) /\ DOMAIN ss = DOMAIN list
  <2>1. DOMAIN list = 1..Len(list) /\ Len(list) \in Nat
    OBVIOUS
  <2>2. ASSUME NEW i \in 1..Len(list)
        PROVE  (IF list[i] \in set THEN <<list[i]>> ELSE <<>>) \in Seq(S)
    <3>1. list[i] \in S
      OBVIOUS
    <3> QED BY <3>1
  <2>3. ss \in [1..Len(list) -> Seq(S)]
    BY <2>1, <2>2
  <2> HIDE DEF ss
  <2> QED BY <2>1, <2>3
<1>2. ASSUME NEW i \in DOMAIN list
      PROVE  ToSet(ss[i]) = IF list[i] \in set THEN {list[i]} ELSE {}
  BY DEF ToSet
<1> HIDE DEF ss
<1>3. UNION { ToSet(ss[i]) : i \in DOMAIN ss } = { x \in ToSet(list) : x \in set }
  <2>1. ASSUME NEW x, NEW i \in DOMAIN ss, x \in ToSet(ss[i])
        PROVE  x \in ToSet(list) /\ x \in set
    BY <1>1, <1>2, <2>1 DEF ToSet
  <2>2. ASSUME NEW x \in ToSet(list), x \in set
        PROVE  \E i \in DOMAIN ss : x \in ToSet(ss[i])
    <3>1. PICK i \in DOMAIN list : list[i] = x
      BY DEF ToSet
    <3> QED BY <1>1, <1>2, <2>2, <3>1
  <2> QED BY <2>1, <2>2
<1> QED BY <1>1, <1>3, Flattened DEF Filtered, ss

----------------------------------------------------------------------------
(* Severities.  The label of a severity is that of its highest bit.        *)
Grade(s) ==
    CASE "CANCEL" \in s -> 4
      [] "ERROR" \in s /\ "CANCEL" \notin s -> 3
      [] "WARNING" \in s /\ s \intersect {"CANCEL", "ERROR"} = {} -> 2
      [] "INFO" \in s /\ s \intersect {"CANCEL", "ERROR", "WARNING"} = {} -> 1
      [] s \intersect {"CANCEL", "ERROR", "WARNING", "INFO"} = {} -> 0

(* Flags, spelled out.                                                     *)
LEMMA AllFlags ==
    /\ Len(Flags) = 4 /\ DOMAIN Flags = {1, 2, 3, 4}
    /\ Flags[1] = "INFO" /\ Flags[2] = "WARNING" /\ Flags[3] = "ERROR" /\ Flags[4] = "CANCEL"
    /\ ToSet(Flags) = {"INFO", "WARNING", "ERROR", "CANCEL"}
    /\ Severities = SUBSET {"INFO", "WARNING", "ERROR", "CANCEL"}
<1>1. /\ Len(Flags) = 4 /\ DOMAIN Flags = 1..4
      /\ Flags[1] = "INFO" /\ Flags[2] = "WARNING" /\ Flags[3] = "ERROR" /\ Flags[4] = "CANCEL"
  BY DEF Flags
<1>2. 1..4 = {1, 2, 3, 4}
  OBVIOUS
<1>3. ToSet(Flags) = {"INFO", "WARNING", "ERROR", "CANCEL"}
  BY <1>1, <1>2 DEF ToSet
<1> QED BY <1>1, <1>2, <1>3 DEF Severities

(* The grade of a severity, by the flags it has.                           *)
LEMMA Grades ==
    ASSUME NEW s \in Severities
    PROVE  /\ "CANCEL" \in s => Grade(s) = 4
           /\ "CANCEL" \notin s /\ "ERROR" \in s => Grade(s) = 3
           /\ "CANCEL" \notin s /\ "ERROR" \notin s /\ "WARNING" \in s => Grade(s) = 2
           /\ "CANCEL" \notin s /\ "ERROR" \notin s /\ "WARNING" \notin s /\ "INFO" \in s => Grade(s) = 1
           /\ s = OK <=> Grade(s) = 0
           /\ s # OK => "CANCEL" \in s \/ "ERROR" \in s \/ "WARNING" \in s \/ "INFO" \in s
           /\ Grade(s) \in 0..4
  BY AllFlags DEF Grade, OK

(* getSeverityLabel shows the grade of a severity.                         *)
LEMMA LabelOfGrade ==
    ASSUME NEW s \in Severities
    PROVE  SeverityLabel(s) = <<"OK", "INFO", "WARNING", "ERROR", "CANCEL">>[Grade(s) + 1]
  BY AllFlags, Grades DEF SeverityLabel, OK

(* Comparing masks as numbers never contradicts the order of the labels.   *)
LEMMA GreaterGrade ==
    ASSUME NEW a \in Severities, NEW b \in Severities
    PROVE  /\ Greater(a, b) => Grade(a) >= Grade(b)
           /\ ~Greater(a, b) => Grade(a) <= Grade(b)
<1>1. Greater(a, b) <=>
        \/ "CANCEL" \in a \ b
        \/ "ERROR" \in a \ b /\ ("CANCEL" \in a <=> "CANCEL" \in b)
        \/ "WARNING" \in a \ b /\ ("CANCEL" \in a <=> "CANCEL" \in b) /\ ("ERROR" \in a <=> "ERROR" \in b)
        \/ /\ "INFO" \in a \ b
           /\ ("CANCEL" \in a <=> "CANCEL" \in b) /\ ("ERROR" \in a <=> "ERROR" \in b)
           /\ ("WARNING" \in a <=> "WARNING" \in b)
  <2>1. (4 + 1)..4 = {} /\ (3 + 1)..4 = {4} /\ (2 + 1)..4 = {3, 4} /\ (1 + 1)..4 = {2, 3, 4}
    OBVIOUS
  <2> DEFINE G(i) == Flags[i] \in a \ b /\ \A j \in (i + 1)..4 : Flags[j] \in a <=> Flags[j] \in b
  <2>2. Greater(a, b) <=> G(1) \/ G(2) \/ G(3) \/ G(4)
    BY AllFlags DEF Greater
  <2>3. /\ G(4) <=> "CANCEL" \in a \ b
        /\ G(3) <=> "ERROR" \in a \ b /\ ("CANCEL" \in a <=> "CANCEL" \in b)
    BY <2>1, AllFlags
  <2>4. G(2) <=> "WARNING" \in a \ b /\ ("CANCEL" \in a <=> "CANCEL" \in b) /\ ("ERROR" \in a <=> "ERROR" \in b)
    BY <2>1, AllFlags
  <2>5. G(1) <=> /\ "INFO" \in a \ b
                 /\ ("CANCEL" \in a <=> "CANCEL" \in b) /\ ("ERROR" \in a <=> "ERROR" \in b)
                 /\ ("WARNING" \in a <=> "WARNING" \in b)
    BY <2>1, AllFlags
  <2> HIDE DEF G
  <2> QED BY <2>2, <2>3, <2>4, <2>5
<1>2. a = OK \/ "CANCEL" \in a \/ "ERROR" \in a \/ "WARNING" \in a \/ "INFO" \in a
  BY AllFlags DEF OK
<1>3. b = OK \/ "CANCEL" \in b \/ "ERROR" \in b \/ "WARNING" \in b \/ "INFO" \in b
  BY AllFlags DEF OK
<1> QED BY <1>1, <1>2, <1>3, Grades DEF OK

(* The worst severity of several and all their bits have one label.        *)
LEMMA UnionGrade ==
    ASSUME NEW U, U \subseteq Severities
    PROVE  /\ UNION U \in Severities
           /\ \A s \in U : Grade(s) <= Grade(UNION U)
           /\ Grade(UNION U) = 0 \/ \E s \in U : Grade(s) = Grade(UNION U)
<1>1. UNION U \in Severities
  BY AllFlags
<1>2. \A s \in U : s \in Severities
  OBVIOUS
<1>3. ASSUME NEW s \in U PROVE Grade(s) <= Grade(UNION U)
  <2>1. s \subseteq UNION U
    OBVIOUS
  <2> QED BY <1>1, <1>2, <2>1, Grades DEF OK
<1>4. ASSUME UNION U = OK PROVE Grade(UNION U) = 0
  BY <1>1, <1>4, Grades
<1>5. ASSUME UNION U # OK PROVE \E s \in U : Grade(s) = Grade(UNION U)
  <2>1. PICK flag \in {"CANCEL", "ERROR", "WARNING", "INFO"} :
            /\ flag \in UNION U
            /\ "CANCEL" \in UNION U => flag = "CANCEL"
            /\ "CANCEL" \notin UNION U /\ "ERROR" \in UNION U => flag = "ERROR"
            /\ "CANCEL" \notin UNION U /\ "ERROR" \notin UNION U /\ "WARNING" \in UNION U => flag = "WARNING"
    BY <1>1, <1>5, Grades
  <2>2. PICK s \in U : flag \in s
    BY <2>1
  <2>3. s \subseteq UNION U
    OBVIOUS
  <2>4. Grade(s) = Grade(UNION U)
    BY <1>1, <1>2, <2>1, <2>2, <2>3, Grades
  <2> QED BY <2>4
<1> QED BY <1>1, <1>3, <1>4, <1>5

----------------------------------------------------------------------------
(* worstOf looks at the whole list, or up to a severity that is exactly    *)
(* CANCEL.                                                                 *)
LEMMA SearchedPart ==
    ASSUME NEW S, NEW list \in Seq(S), list # <<>>, NEW s, s = Searched(list)
    PROVE  /\ s \in Seq(S) /\ Len(s) \in 1..Len(list) /\ \A i \in 1..Len(s) : s[i] = list[i]
           /\ Len(s) = Len(list) \/ severity[s[Len(s)]] = {"CANCEL"}
<1> DEFINE I == { i \in 1..Len(list) : severity[list[i]] = {"CANCEL"} }
           stop == SelectInSeq(list, LAMBDA d : severity[d] = {"CANCEL"})
<1>1. stop = IF I # {} THEN Min(I) ELSE 0
  BY DEF SelectInSeq
<1>2. Len(list) \in Nat \ {0} /\ I \subseteq 1..Len(list) /\ I \subseteq Nat
  OBVIOUS
<1>3. Searched(list) = IF stop = 0 THEN list ELSE SubSeq(list, 1, stop)
  BY DEF Searched
<1> HIDE DEF stop
<1>4. I # {} => Min(I) \in I
  <2> HIDE DEF I
  <2>1. I # {} => \E x \in I : \A y \in I : x <= y
    BY <1>2, Least
  <2> QED BY <2>1 DEF Min
<1>5. CASE I = {}
  <2>1. s = list
    BY <1>1, <1>3, <1>5
  <2> QED BY <1>2, <2>1
<1>6. CASE I # {}
  <2>1. stop \in I /\ stop \in 1..Len(list)
    BY <1>1, <1>2, <1>4, <1>6
  <2>2. s = SubSeq(list, 1, stop)
    BY <1>3, <2>1
  <2>3. \A i \in 1..stop : list[i] \in S
    BY <1>2, <2>1
  <2> HIDE DEF I
  <2>4. s \in Seq(S) /\ Len(s) = stop /\ \A i \in 1..stop : s[i] = list[i]
    BY <1>2, <2>1, <2>2, <2>3, SubSeqProperties
  <2>5. severity[list[stop]] = {"CANCEL"}
    BY <2>1 DEF I
  <2> QED BY <2>1, <2>4, <2>5
<1> QED BY <1>5, <1>6

(* worstOf returns an element of the list that none exceeds, wherever it   *)
(* stopped.                                                                *)
LEMMA WorstIsWorst ==
    ASSUME severity \in [Diagnostics -> Severities],
           NEW list \in Seq(Diagnostics), list # <<>>, NEW w, w = WorstOf(list)
    PROVE  /\ w \in ToSet(list)
           /\ \A e \in ToSet(list) : Grade(severity[e]) <= Grade(severity[w])
<1> DEFINE s == Searched(list)
           n == Len(s)
           Body(f, i) ==
                IF i = 1 \/ Greater(severity[s[i]], severity[f[i - 1]]) THEN s[i] ELSE f[i - 1]
           worst == CHOOSE f : f = [i \in 1..n |-> Body(f, i)]
<1>1. /\ s \in Seq(Diagnostics) /\ n \in 1..Len(list) /\ n \in Nat /\ \A i \in 1..n : s[i] = list[i]
      /\ n = Len(list) \/ severity[s[n]] = {"CANCEL"}
  <2>1. Len(list) \in Nat
    OBVIOUS
  <2> QED BY <2>1, SearchedPart
<1>2. w = worst[n]
  BY DEF WorstOf
<1> HIDE DEF s
<1>3. \A i \in 1..n : s[i] \in Diagnostics
  BY <1>1
<1>4. \E f : f = [i \in 1..n |-> Body(f, i)]
  <2> DEFINE F == [1..n -> Diagnostics]
             step == [i \in 1..n |-> [f \in F |-> Body(f, i)]]
  <2>1. ASSUME NEW i \in 1..n, NEW f \in F
        PROVE  step[i][f] = Body(f, i) /\ step[i][f] \in Diagnostics
    <3>1. i # 1 => i - 1 \in 1..n
      BY <1>1
    <3> QED BY <1>3, <3>1
  <2>2. ASSUME NEW i \in 1..n, NEW f \in F, NEW g \in F, \A c \in 1..(i - 1) : f[c] = g[c]
        PROVE  step[i][f] = step[i][g]
    <3>1. i # 1 => i - 1 \in 1..(i - 1)
      BY <1>1
    <3> QED BY <2>1, <2>2, <3>1
  <2>3. Diagnostics # {} /\ F = [1..n -> Diagnostics]
    BY <1>1, <1>3
  <2>4. PICK f \in F : \A i \in 1..n : f[i] = step[i][f]
    <3> HIDE DEF F, step, n
    <3>1. Recursion(n, Diagnostics, F, step)
      BY <1>1, <2>1, <2>2, <2>3 DEF Recursion
    <3> QED BY <3>1, RecursionDefines
  <2>5. f = [i \in 1..n |-> Body(f, i)]
    BY <2>1, <2>4
  <2> QED BY <2>5
<1>5. worst = [i \in 1..n |-> Body(worst, i)]
  <2> HIDE DEF Body
  <2> QED BY <1>4
<1> HIDE DEF worst
<1> DEFINE Good(i) == /\ worst[i] \in { s[j] : j \in 1..i }
                      /\ \A j \in 1..i : Grade(severity[s[j]]) <= Grade(severity[worst[i]])
           G == { i \in 1..n : Good(i) }
<1>6. \A i \in 1..n : Grade(severity[s[i]]) \in Nat
  BY <1>3, Grades
<1>7. ASSUME NEW i \in 1..n, \A c \in 1..(i - 1) : c \in G PROVE i \in G
  <2>1. worst[i] = Body(worst, i)
    BY <1>5
  <2>2. CASE i = 1
    <3>1. worst[i] = s[1] /\ 1..i = {1}
      BY <2>1, <2>2
    <3> QED BY <1>6, <2>2, <3>1
  <2>3. CASE i # 1
    <3>1. i - 1 \in 1..(i - 1) /\ 1..i = 1..(i - 1) \union {i} /\ i - 1 \in 1..n
      BY <1>1, <2>3
    <3>2. Good(i - 1)
      BY <1>7, <3>1
    <3>3. PICK k \in 1..(i - 1) : worst[i - 1] = s[k]
      BY <3>2
    <3>4. /\ k \in 1..n /\ s[k] \in Diagnostics /\ s[i] \in Diagnostics
          /\ severity[s[k]] \in Severities /\ severity[s[i]] \in Severities
      BY <1>1, <1>3
    <3>5. CASE Greater(severity[s[i]], severity[s[k]])
      <4>1. worst[i] = s[i] /\ Grade(severity[s[k]]) <= Grade(severity[s[i]])
        BY <2>1, <3>3, <3>4, <3>5, GreaterGrade, Grades
      <4>2. ASSUME NEW j \in 1..(i - 1) PROVE Grade(severity[s[j]]) <= Grade(severity[s[i]])
        <5>1. j \in 1..n /\ Grade(severity[s[j]]) <= Grade(severity[s[k]])
          BY <1>1, <3>2, <3>3
        <5>2. \A a, b, c \in Nat : a <= b /\ b <= c => a <= c
          OBVIOUS
        <5> QED BY <1>6, <3>4, <4>1, <5>1, <5>2
      <4> QED BY <1>6, <3>1, <4>1, <4>2
    <3>6. CASE ~Greater(severity[s[i]], severity[s[k]])
      <4>1. worst[i] = s[k] /\ Grade(severity[s[i]]) <= Grade(severity[s[k]])
        BY <2>1, <2>3, <3>3, <3>4, <3>6, GreaterGrade
      <4>2. \A j \in 1..(i - 1) : Grade(severity[s[j]]) <= Grade(severity[s[k]])
        BY <3>2, <3>3
      <4> QED BY <3>1, <4>1, <4>2
    <3> QED BY <3>5, <3>6
  <2> QED BY <2>2, <2>3
<1>8. Good(n)
  <2>1. n \in 1..n
    BY <1>1
  <2>2. 1..n \subseteq G
    <3> HIDE DEF G, n
    <3> QED BY <1>1, <1>7, FromSmaller
  <2> QED BY <2>1, <2>2
<1>9. w \in ToSet(list) /\ severity[w] \in Severities
  <2>1. PICK j \in 1..n : w = s[j]
    BY <1>2, <1>8
  <2>2. j \in DOMAIN list
    BY <1>1
  <2> QED BY <1>1, <1>3, <2>1, <2>2 DEF ToSet
<1>10. ASSUME NEW e \in ToSet(list) PROVE Grade(severity[e]) <= Grade(severity[w])
  <2>1. PICK j \in DOMAIN list : e = list[j]
    BY DEF ToSet
  <2>2. CASE n = Len(list)
    <3>1. j \in 1..n /\ e = s[j]
      BY <1>1, <2>1, <2>2
    <3> QED BY <1>2, <1>8, <3>1
  <2>3. CASE severity[s[n]] = {"CANCEL"}
    <3>1. Grade(severity[s[n]]) = 4
      <4>1. severity[s[n]] \in Severities /\ "CANCEL" \in severity[s[n]]
        <5>1. n \in 1..n
          BY <1>1
        <5> QED BY <1>3, <2>3, <5>1
      <4> QED BY <4>1, Grades
    <3>2. Grade(severity[w]) = 4
      <4>1. n \in 1..n
        BY <1>1
      <4>2. Grade(severity[s[n]]) <= Grade(severity[w]) /\ Grade(severity[w]) \in 0..4
        BY <1>2, <1>8, <1>9, <4>1, Grades
      <4> QED BY <3>1, <4>2
    <3>3. Grade(severity[e]) \in 0..4
      <4>1. e \in Diagnostics
        BY <2>1
      <4> QED BY <4>1, Grades
    <3> QED BY <3>2, <3>3
  <2> QED BY <1>1, <2>2, <2>3
<1> QED BY <1>9, <1>10

----------------------------------------------------------------------------
(* The trees.  A diagnostic only has older children: with this all that is *)
(* computed over trees is defined, for any children ch and severities sev. *)
Trees == { ch \in [Diagnostics -> Seq(Diagnostics)] :
                \A d \in Diagnostics : \A i \in DOMAIN ch[d] : ch[d][i] \in 1..(d - 1) }
Graded == [Diagnostics -> Severities]

(* The body of collectLeaves, and the function it defines.                 *)
LeavesBody(f, ch, sev, d) ==
    IF ch[d] # <<>>
    THEN FlattenSeq([i \in DOMAIN ch[d] |-> f[ch[d][i]]])
    ELSE IF sev[d] # OK THEN <<d>> ELSE <<>>
Leaves(ch, sev) == CHOOSE f : f = [d \in Diagnostics |-> LeavesBody(f, ch, sev, d)]

(* The same for the severities that recomputeSeverity sums up.             *)
AllBody(f, ch, sev, d) ==
    IF ch[d] = <<>> THEN sev[d] ELSE UNION { f[c] : c \in ToSet(ch[d]) }
All(ch, sev) == CHOOSE f : f = [d \in Diagnostics |-> AllBody(f, ch, sev, d)]

(* These are the functions of Diagnostics, for its children and            *)
(* severities.                                                             *)
LEMMA OverTrees ==
    /\ CollectLeaves = Leaves(children, severity)
    /\ Recomputed = All(children, severity)
<1>1. CollectLeaves = Leaves(children, severity)
  BY DEF CollectLeaves, Leaves, LeavesBody
<1>2. Recomputed = All(children, severity)
  BY DEF Recomputed, All, AllBody
<1> QED BY <1>1, <1>2

(* What a tree is, for the provers.                                        *)
LEMMA TreeFacts ==
    ASSUME NEW ch \in Trees, NEW d \in Diagnostics
    PROVE  /\ MaxDiagnostics \in Nat /\ Diagnostics = 1..MaxDiagnostics
           /\ ch[d] \in Seq(Diagnostics) /\ DOMAIN ch[d] = 1..Len(ch[d]) /\ Len(ch[d]) \in Nat
           /\ 1..(d - 1) \subseteq Diagnostics
           /\ \A i \in DOMAIN ch[d] : ch[d][i] \in 1..(d - 1)
           /\ ToSet(ch[d]) \subseteq 1..(d - 1)
  BY BoundsAssumption DEF Trees, Diagnostics, ToSet

(* collectLeaves ends in every tree: its function satisfies its equation.  *)
LEMMA LeavesDefined ==
    ASSUME NEW ch \in Trees, NEW sev \in Graded
    PROVE  Leaves(ch, sev) = [d \in Diagnostics |-> LeavesBody(Leaves(ch, sev), ch, sev, d)]
<1> DEFINE T == Seq(Diagnostics)
           F == [Diagnostics -> T]
           Body(f, d) == LeavesBody(f, ch, sev, d)
           step == [d \in Diagnostics |-> [f \in F |-> Body(f, d)]]
<1>1. ASSUME NEW d \in Diagnostics, NEW f \in F
      PROVE  step[d][f] = Body(f, d) /\ step[d][f] \in T
  <2>1. <<d>> \in T /\ <<>> \in T
    OBVIOUS
  <2> DEFINE ss == [i \in DOMAIN ch[d] |-> f[ch[d][i]]]
  <2>2. ss \in Seq(T)
    <3>1. DOMAIN ch[d] = 1..Len(ch[d]) /\ Len(ch[d]) \in Nat
      BY TreeFacts
    <3>2. \A i \in DOMAIN ch[d] : f[ch[d][i]] \in T
      BY TreeFacts
    <3> HIDE DEF T
    <3> QED BY <3>1, <3>2
  <2>3. FlattenSeq(ss) \in T
    <3> HIDE DEF ss
    <3> QED BY <2>2, Flattened
  <2> QED BY <2>1, <2>3 DEF LeavesBody
<1>2. ASSUME NEW d \in Diagnostics, NEW f \in F, NEW g \in F, \A c \in 1..(d - 1) : f[c] = g[c]
      PROVE  step[d][f] = step[d][g]
  <2>1. [i \in DOMAIN ch[d] |-> f[ch[d][i]]] = [i \in DOMAIN ch[d] |-> g[ch[d][i]]]
    BY <1>2, TreeFacts
  <2>2. Body(f, d) = Body(g, d)
    BY <2>1 DEF LeavesBody
  <2> QED BY <1>1, <2>2
<1>3. T # {}
  <2>1. <<>> \in T
    OBVIOUS
  <2> QED BY <2>1
<1>4. PICK f \in F : \A d \in Diagnostics : f[d] = step[d][f]
  <2>1. F = [1..MaxDiagnostics -> T] /\ Diagnostics = 1..MaxDiagnostics
    BY DEF Diagnostics
  <2> HIDE DEF T, F, step
  <2>2. Recursion(MaxDiagnostics, T, F, step)
    BY <1>1, <1>2, <1>3, <2>1, BoundsAssumption DEF Recursion
  <2> QED BY <2>1, <2>2, RecursionDefines
<1>5. f = [d \in Diagnostics |-> Body(f, d)]
  BY <1>1, <1>4
<1> HIDE DEF Body
<1>6. \E h : h = [d \in Diagnostics |-> Body(h, d)]
  BY <1>5
<1> QED BY <1>6 DEF Leaves, Body

(* So does the one of recomputeSeverity.                                   *)
LEMMA AllDefined ==
    ASSUME NEW ch \in Trees, NEW sev \in Graded
    PROVE  All(ch, sev) = [d \in Diagnostics |-> AllBody(All(ch, sev), ch, sev, d)]
<1> DEFINE T == Severities
           F == [Diagnostics -> T]
           Body(f, d) == AllBody(f, ch, sev, d)
           step == [d \in Diagnostics |-> [f \in F |-> Body(f, d)]]
<1>1. ASSUME NEW d \in Diagnostics, NEW f \in F
      PROVE  step[d][f] = Body(f, d) /\ step[d][f] \in T
  <2>1. sev[d] \in T
    BY DEF Graded
  <2> DEFINE U == { f[c] : c \in ToSet(ch[d]) }
  <2>2. U \subseteq T
    BY TreeFacts
  <2>3. UNION U \in T
    <3> HIDE DEF U
    <3> QED BY <2>2, UnionGrade
  <2> QED BY <2>1, <2>3 DEF AllBody
<1>2. ASSUME NEW d \in Diagnostics, NEW f \in F, NEW g \in F, \A c \in 1..(d - 1) : f[c] = g[c]
      PROVE  step[d][f] = step[d][g]
  <2>1. { f[c] : c \in ToSet(ch[d]) } = { g[c] : c \in ToSet(ch[d]) }
    <3>1. \A c \in ToSet(ch[d]) : f[c] = g[c]
      BY <1>2, TreeFacts
    <3> QED BY <3>1
  <2>2. Body(f, d) = Body(g, d)
    BY <2>1 DEF AllBody
  <2> QED BY <1>1, <2>2
<1>3. T # {}
  BY DEF Severities
<1>4. PICK f \in F : \A d \in Diagnostics : f[d] = step[d][f]
  <2>1. F = [1..MaxDiagnostics -> T] /\ Diagnostics = 1..MaxDiagnostics
    BY DEF Diagnostics
  <2> HIDE DEF T, F, step
  <2>2. Recursion(MaxDiagnostics, T, F, step)
    BY <1>1, <1>2, <1>3, <2>1, BoundsAssumption DEF Recursion
  <2> QED BY <2>1, <2>2, RecursionDefines
<1>5. f = [d \in Diagnostics |-> Body(f, d)]
  BY <1>1, <1>4
<1> HIDE DEF Body
<1>6. \E h : h = [d \in Diagnostics |-> Body(h, d)]
  BY <1>5
<1> QED BY <1>6 DEF All, Body

(* The leaves below d are diagnostics of problems without children.        *)
GoodLeaves(L, ch, sev, d) ==
    /\ L[d] \in Seq(Diagnostics)
    /\ ToSet(L[d]) \subseteq { l \in 1..d : ch[l] = <<>> /\ sev[l] # OK }
    /\ ch[d] # <<>> => ToSet(L[d]) = UNION { ToSet(L[c]) : c \in ToSet(ch[d]) }
    /\ ch[d] = <<>> => ToSet(L[d]) = IF sev[d] # OK THEN {d} ELSE {}

(* This holds of all diagnostics of a tree.                                *)
LEMMA LeavesBelow ==
    ASSUME NEW ch \in Trees, NEW sev \in Graded
    PROVE  \A d \in Diagnostics : GoodLeaves(Leaves(ch, sev), ch, sev, d)
<1> DEFINE L == Leaves(ch, sev)
            Problem(d) == { l \in 1..d : ch[l] = <<>> /\ sev[l] # OK }
           Good(d) ==
            /\ L[d] \in Seq(Diagnostics)
            /\ ToSet(L[d]) \subseteq Problem(d)
            /\ ch[d] # <<>> => ToSet(L[d]) = UNION { ToSet(L[c]) : c \in ToSet(ch[d]) }
            /\ ch[d] = <<>> => ToSet(L[d]) = IF sev[d] # OK THEN {d} ELSE {}
           G == { d \in Diagnostics : Good(d) }
<1>1. ASSUME NEW d \in Diagnostics, \A c \in 1..(d - 1) : c \in G PROVE d \in G
  <2>1. L[d] = LeavesBody(L, ch, sev, d)
    BY LeavesDefined
  <2> HIDE DEF L
  <2>2. d \in Nat \ {0}
    BY DEF Diagnostics
  <2>3. CASE ch[d] # <<>>
    <3> DEFINE ss == [i \in DOMAIN ch[d] |-> L[ch[d][i]]]
    <3>1. L[d] = FlattenSeq(ss)
      BY <2>1, <2>3 DEF LeavesBody
    <3>2. /\ DOMAIN ch[d] = 1..Len(ch[d]) /\ Len(ch[d]) \in Nat
          /\ \A i \in DOMAIN ch[d] : ch[d][i] \in 1..(d - 1)
      BY TreeFacts
    <3>3. \A i \in DOMAIN ch[d] : Good(ch[d][i])
      BY <1>1, <3>2
    <3>4. ss \in Seq(Seq(Diagnostics)) /\ DOMAIN ss = DOMAIN ch[d]
      <4>1. \A i \in 1..Len(ch[d]) : L[ch[d][i]] \in Seq(Diagnostics)
        BY <3>2, <3>3
      <4> QED BY <3>2, <4>1
    <3>5. /\ L[d] \in Seq(Diagnostics)
          /\ ToSet(L[d]) = UNION { ToSet(ss[i]) : i \in DOMAIN ss }
      <4> HIDE DEF ss
      <4> QED BY <3>1, <3>4, Flattened
    <3>6. UNION { ToSet(ss[i]) : i \in DOMAIN ss } = UNION { ToSet(L[c]) : c \in ToSet(ch[d]) }
      <4>1. \A i \in DOMAIN ch[d] : ss[i] = L[ch[d][i]]
        OBVIOUS
      <4>2. ASSUME NEW i \in DOMAIN ss PROVE \E c \in ToSet(ch[d]) : ToSet(ss[i]) = ToSet(L[c])
        <5>1. ch[d][i] \in ToSet(ch[d])
          BY <3>4 DEF ToSet
        <5>2. ss[i] = L[ch[d][i]]
          BY <3>4, <4>1
        <5> HIDE DEF ss
        <5> QED BY <5>1, <5>2
      <4>3. ASSUME NEW c \in ToSet(ch[d]) PROVE \E i \in DOMAIN ss : ToSet(ss[i]) = ToSet(L[c])
        <5>1. PICK i \in DOMAIN ch[d] : ch[d][i] = c
          BY DEF ToSet
        <5> QED BY <3>4, <4>1, <5>1
      <4> HIDE DEF ss
      <4> QED BY <4>2, <4>3
    <3>7. ASSUME NEW c \in ToSet(ch[d]) PROVE ToSet(L[c]) \subseteq Problem(d)
      <4>1. PICK i \in DOMAIN ch[d] : ch[d][i] = c
        BY DEF ToSet
      <4>2. c \in 1..(d - 1)
        BY <3>2, <4>1
      <4>3. ToSet(L[c]) \subseteq Problem(c)
        BY <3>3, <4>1
      <4>4. ASSUME NEW l \in 1..c PROVE l \in 1..d
        BY <2>2, <4>2
      <4>5. Problem(c) \subseteq Problem(d)
        BY <4>4
      <4> HIDE DEF Problem
      <4> QED BY <4>3, <4>5
    <3>8. ToSet(L[d]) \subseteq Problem(d)
      <4> HIDE DEF Problem, ss
      <4>1. ASSUME NEW l \in ToSet(L[d]) PROVE l \in Problem(d)
        <5>1. PICK c \in ToSet(ch[d]) : l \in ToSet(L[c])
          BY <3>5, <3>6
        <5> QED BY <3>7, <5>1
      <4> QED BY <4>1
    <3> HIDE DEF ss
    <3> QED BY <2>3, <3>5, <3>6, <3>8
  <2>4. CASE ch[d] = <<>>
    <3>1. L[d] = IF sev[d] # OK THEN <<d>> ELSE <<>>
      BY <2>1, <2>4 DEF LeavesBody
    <3>2. L[d] \in Seq(Diagnostics) /\ ToSet(L[d]) = IF sev[d] # OK THEN {d} ELSE {}
      BY <3>1 DEF ToSet
    <3> QED BY <2>2, <2>4, <3>2
  <2> QED BY <2>3, <2>4
<1>2. Diagnostics \subseteq G
  <2>1. Diagnostics = 1..MaxDiagnostics
    BY DEF Diagnostics
  <2> HIDE DEF G
  <2> QED BY <1>1, <2>1, BoundsAssumption, FromSmaller
<1>3. ASSUME NEW d \in Diagnostics PROVE GoodLeaves(L, ch, sev, d)
  <2>1. Good(d)
    BY <1>2
  <2> HIDE DEF L
  <2> QED BY <2>1 DEF GoodLeaves
<1> QED BY <1>3

(* The severity that recomputeSeverity computes for d is the sum of its    *)
(* leaves.                                                                 *)
GoodAll(A, L, sev, d) ==
    /\ A[d] \in Severities
    /\ A[d] = UNION { sev[l] : l \in ToSet(L[d]) }

(* What recomputeSeverity sums up are the severities of the leaves.        *)
LEMMA AllOfLeaves ==
    ASSUME NEW ch \in Trees, NEW sev \in Graded, NEW L, L = Leaves(ch, sev), NEW A, A = All(ch, sev)
    PROVE  \A d \in Diagnostics : GoodAll(A, L, sev, d)
<1>0. \A d \in Diagnostics : GoodLeaves(L, ch, sev, d)
  BY LeavesBelow
<1> DEFINE Good(d) == A[d] = UNION { sev[l] : l \in ToSet(L[d]) }
           G == { d \in Diagnostics : Good(d) }
<1>1. ASSUME NEW d \in Diagnostics, \A c \in 1..(d - 1) : c \in G PROVE d \in G
  <2>1. A[d] = AllBody(A, ch, sev, d)
    BY AllDefined
  <2>2. CASE ch[d] # <<>>
    <3>1. A[d] = UNION { A[c] : c \in ToSet(ch[d]) }
      BY <2>1, <2>2 DEF AllBody
    <3>2. \A c \in ToSet(ch[d]) : A[c] = UNION { sev[l] : l \in ToSet(L[c]) }
      BY <1>1, TreeFacts
    <3>3. ToSet(L[d]) = UNION { ToSet(L[c]) : c \in ToSet(ch[d]) }
      BY <1>0, <2>2 DEF GoodLeaves
    <3>4. \A x : x \in A[d] <=> \E c \in ToSet(ch[d]) : \E l \in ToSet(L[c]) : x \in sev[l]
      BY <3>1, <3>2
    <3>5. \A x : x \in UNION { sev[l] : l \in ToSet(L[d]) }
                    <=> \E c \in ToSet(ch[d]) : \E l \in ToSet(L[c]) : x \in sev[l]
      BY <3>3
    <3> QED BY <3>4, <3>5
  <2>3. CASE ch[d] = <<>>
    <3>1. A[d] = sev[d]
      BY <2>1, <2>3 DEF AllBody
    <3>2. ToSet(L[d]) = IF sev[d] # OK THEN {d} ELSE {}
      BY <1>0, <2>3 DEF GoodLeaves
    <3>3. UNION { sev[l] : l \in ToSet(L[d]) } = sev[d]
      <4>1. CASE sev[d] = OK
        BY <3>2, <4>1 DEF OK
      <4>2. CASE sev[d] # OK
        BY <3>2, <4>2
      <4> QED BY <4>1, <4>2
    <3> QED BY <3>1, <3>3
  <2> QED BY <2>2, <2>3
<1>2. Diagnostics \subseteq G
  <2>1. Diagnostics = 1..MaxDiagnostics
    BY DEF Diagnostics
  <2> HIDE DEF G
  <2> QED BY <1>1, <2>1, BoundsAssumption, FromSmaller
<1>3. ASSUME NEW d \in Diagnostics PROVE A[d] \in Severities
  <2> DEFINE U == { sev[l] : l \in ToSet(L[d]) }
  <2>1. A[d] = UNION U
    BY <1>2
  <2>2. U \subseteq Severities
    <3>1. ToSet(L[d]) \subseteq Diagnostics
      <4>1. L[d] \in Seq(Diagnostics)
        BY <1>0 DEF GoodLeaves
      <4> QED BY <4>1 DEF ToSet
    <3> QED BY <3>1 DEF Graded
  <2> HIDE DEF U
  <2> QED BY <2>1, <2>2, UnionGrade
<1> QED BY <1>2, <1>3 DEF GoodAll

(* Both depend on the trees and on the severities of the leaves only, and  *)
(* only on older diagnostics.                                              *)
LEMMA SameTrees ==
    ASSUME NEW ch \in Trees, NEW sev \in Graded, NEW ch2 \in Trees, NEW sev2 \in Graded,
           NEW k \in Nat, k <= MaxDiagnostics,
           \A d \in 1..k : ch2[d] = ch[d] /\ (ch[d] = <<>> => sev2[d] = sev[d]),
           NEW L, L = Leaves(ch, sev), NEW L2, L2 = Leaves(ch2, sev2),
           NEW A, A = All(ch, sev), NEW A2, A2 = All(ch2, sev2)
    PROVE  \A d \in 1..k : L2[d] = L[d] /\ A2[d] = A[d]
<1> DEFINE G == { d \in 1..k : L2[d] = L[d] }
<1>1. ASSUME NEW d \in 1..k, \A c \in 1..(d - 1) : c \in G PROVE d \in G
  <2>1. d \in Diagnostics /\ ch2[d] = ch[d] /\ (ch[d] = <<>> => sev2[d] = sev[d])
    BY BoundsAssumption DEF Diagnostics
  <2>2. L[d] = LeavesBody(L, ch, sev, d) /\ L2[d] = LeavesBody(L2, ch2, sev2, d)
    BY <2>1, LeavesDefined
  <2>3. \A i \in DOMAIN ch[d] : L2[ch[d][i]] = L[ch[d][i]]
    BY <1>1, <2>1, TreeFacts
  <2>4. [i \in DOMAIN ch2[d] |-> L2[ch2[d][i]]] = [i \in DOMAIN ch[d] |-> L[ch[d][i]]]
    BY <2>1, <2>3
  <2> QED BY <2>1, <2>2, <2>4 DEF LeavesBody
<1>2. 1..k \subseteq G
  <2> HIDE DEF G
  <2> QED BY <1>1, FromSmaller
<1>3. ASSUME NEW d \in 1..k PROVE A2[d] = A[d]
  <2>1. d \in Diagnostics /\ L2[d] = L[d]
    BY <1>2, BoundsAssumption DEF Diagnostics
  <2>2. \A l \in ToSet(L[d]) : l \in 1..d /\ ch[l] = <<>>
    <3>1. GoodLeaves(L, ch, sev, d)
      BY <2>1, LeavesBelow
    <3> QED BY <3>1 DEF GoodLeaves
  <2>3. \A l \in ToSet(L[d]) : sev2[l] = sev[l]
    BY <2>2
  <2>4. { sev2[l] : l \in ToSet(L2[d]) } = { sev[l] : l \in ToSet(L[d]) }
    BY <2>1, <2>3
  <2>5. GoodAll(A, L, sev, d) /\ GoodAll(A2, L2, sev2, d)
    BY <2>1, AllOfLeaves
  <2> QED BY <2>1, <2>4, <2>5 DEF GoodAll
<1> QED BY <1>2, <1>3

----------------------------------------------------------------------------
(* The inductive invariant.  That every severity has the grade of the      *)
(* recomputed one is stronger than LabelIsWorstLeaf in a step: it can be   *)
(* used for each child of a new diagnostic.                                *)
DiagnosticInv ==
    /\ objects \in 0..MaxDiagnostics
    /\ severity \in Graded
    /\ children \in Trees
    /\ id \in [Diagnostics -> Ids \union {RootId, NoId}]
    /\ \A d \in Existing : Grade(severity[d]) = Grade(All(children, severity)[d])

(* A step keeps the leaves of each diagnostic that existed, their          *)
(* severities and their ids.                                               *)
LeavesKept ==
    /\ objects' \in Nat /\ objects <= objects'
    /\ \A d \in Existing :
        /\ CollectLeaves'[d] = CollectLeaves[d]
        /\ \A l \in ToSet(CollectLeaves[d]) : severity'[l] = severity[l] /\ id'[l] = id[l]

(* The objects that exist, for the provers.                                *)
LEMMA ExistingFacts ==
    ASSUME DiagnosticInv
    PROVE  /\ objects \in Nat /\ objects <= MaxDiagnostics /\ MaxDiagnostics \in Nat
           /\ Existing \subseteq Diagnostics
           /\ severity \in [Diagnostics -> Severities]
           /\ \A d \in Existing : d \in Nat /\ d <= objects
  BY BoundsAssumption DEF DiagnosticInv, Existing, Diagnostics, Graded

(* The invariant includes the types ...                                    *)
LEMMA InvImpliesType == DiagnosticInv => DiagnosticTypeOK
<1> SUFFICES ASSUME DiagnosticInv PROVE DiagnosticTypeOK
  OBVIOUS
<1>1. ASSUME NEW d \in Diagnostics PROVE children[d] \in Seq(1..(d - 1))
  <2>1. /\ children[d] \in Seq(Diagnostics) /\ DOMAIN children[d] = 1..Len(children[d])
        /\ Len(children[d]) \in Nat
        /\ \A i \in DOMAIN children[d] : children[d][i] \in 1..(d - 1)
    BY TreeFacts DEF DiagnosticInv
  <2> DEFINE list == children[d]
             T == 1..(d - 1)
  <2>2. list \in Seq(Diagnostics) /\ \A i \in 1..Len(list) : list[i] \in T
    BY <2>1
  <2> HIDE DEF list, T
  <2>3. list \in Seq(T)
    BY <2>2
  <2> QED BY <2>3 DEF list, T
<1> QED BY <1>1 DEF DiagnosticInv, DiagnosticTypeOK, Graded

(* ... and the labels.                                                     *)
LEMMA InvImpliesLabels == DiagnosticInv => LabelIsWorstLeaf
<1> SUFFICES ASSUME DiagnosticInv, NEW d \in Existing
             PROVE  SeverityLabel(severity[d]) = SeverityLabel(UNION { severity[leaf] : leaf \in LeavesUnder(d) })
  BY Zenon DEF LabelIsWorstLeaf
<1> DEFINE all == UNION { severity[leaf] : leaf \in LeavesUnder(d) }
           L == Leaves(children, severity)
           A == All(children, severity)
<1>1. d \in Diagnostics
  BY ExistingFacts
<1>2. GoodAll(A, L, severity, d)
  BY <1>1, AllOfLeaves DEF DiagnosticInv
<1>3. LeavesUnder(d) = ToSet(L[d])
  BY OverTrees DEF LeavesUnder
<1>4. all = A[d] /\ all \in Severities
  BY <1>2, <1>3 DEF GoodAll
<1>5. severity[d] \in Severities /\ Grade(severity[d]) = Grade(all)
  BY <1>1, <1>4 DEF DiagnosticInv, Graded
<1>6. SeverityLabel(severity[d]) = SeverityLabel(all)
  <2> HIDE DEF all
  <2> QED BY <1>4, <1>5, LabelOfGrade
<1> QED BY <1>6

(* No diagnostic exists at first.                                          *)
LEMMA InitDiagnostics == DiagnosticInit => DiagnosticInv
<1> SUFFICES ASSUME DiagnosticInit PROVE DiagnosticInv
  OBVIOUS
<1>1. severity \in Graded /\ objects \in 0..MaxDiagnostics
  BY BoundsAssumption DEF DiagnosticInit, Graded, OK, Severities
<1>2. children \in Trees
  <2>1. \A d \in Diagnostics : children[d] = <<>> /\ DOMAIN children[d] = {}
    BY DEF DiagnosticInit
  <2>2. children \in [Diagnostics -> Seq(Diagnostics)]
    BY DEF DiagnosticInit
  <2> QED BY <2>1, <2>2 DEF Trees
<1>3. id \in [Diagnostics -> Ids \union {RootId, NoId}]
  BY DEF DiagnosticInit
<1>4. Existing = {}
  BY DEF DiagnosticInit, Existing
<1> QED BY <1>1, <1>2, <1>3, <1>4 DEF DiagnosticInv

(* A step that changes neither the children nor the id of an existing      *)
(* object, nor the severity of one without children, keeps all leaves and  *)
(* what would be recomputed.                                               *)
LEMMA KeepsLeaves ==
    ASSUME DiagnosticInv, children' \in Trees, severity' \in Graded,
           objects' \in Nat, objects <= objects',
           \A d \in Existing : children'[d] = children[d] /\ id'[d] = id[d]
                                /\ (children[d] = <<>> => severity'[d] = severity[d])
    PROVE  /\ LeavesKept
           /\ \A d \in Existing : All(children', severity')[d] = All(children, severity)[d]
<1> DEFINE L == Leaves(children, severity)
           L2 == Leaves(children', severity')
           A == All(children, severity)
           A2 == All(children', severity')
<1>1. children \in Trees /\ severity \in Graded
  BY DEF DiagnosticInv
<1>2. objects \in Nat /\ objects <= MaxDiagnostics /\ Existing = 1..objects
  BY ExistingFacts DEF Existing
<1>3. \A d \in 1..objects : L2[d] = L[d] /\ A2[d] = A[d]
  BY <1>1, <1>2, SameTrees
<1>4. CollectLeaves = L
  BY OverTrees
<1>5. CollectLeaves' = L2
  BY DEF CollectLeaves, Leaves, LeavesBody
<1>6. ASSUME NEW d \in Existing, NEW l \in ToSet(L[d])
      PROVE  severity'[l] = severity[l] /\ id'[l] = id[l]
  <2>1. d \in Diagnostics /\ d \in Nat /\ d <= objects
    BY ExistingFacts
  <2>2. GoodLeaves(L, children, severity, d)
    BY <1>1, <2>1, LeavesBelow
  <2>3. l \in 1..d /\ children[l] = <<>>
    <3> HIDE DEF L
    <3> QED BY <1>6, <2>2 DEF GoodLeaves
  <2>4. l \in Existing
    BY <1>2, <2>1, <2>3
  <2> QED BY <2>3, <2>4
<1> HIDE DEF L, L2, A, A2
<1>7. LeavesKept
  BY <1>2, <1>3, <1>4, <1>5, <1>6 DEF LeavesKept
<1> QED BY <1>2, <1>3, <1>7 DEF A, A2

(* A new object keeps the invariant if its severity has the grade of what  *)
(* would be recomputed for it.                                             *)
LEMMA NewKeeps ==
    ASSUME DiagnosticInv, NEW s \in Severities, NEW list \in Seq(Existing),
           NEW element \in Ids \union {RootId, NoId}, NewDiagnostic(s, list, element),
           list = <<>> \/ Grade(s) = Grade(UNION { All(children, severity)[c] : c \in ToSet(list) })
    PROVE  DiagnosticInv' /\ LeavesKept
<1> DEFINE A == All(children, severity)
           A2 == All(children', severity')
           new == objects + 1
<1>1. /\ objects \in Nat /\ new \in Nat /\ new <= MaxDiagnostics /\ objects' = new
      /\ objects <= MaxDiagnostics /\ MaxDiagnostics \in Nat
      /\ Existing = 1..objects /\ Diagnostics = 1..MaxDiagnostics
  BY ExistingFacts DEF NewDiagnostic, Existing, Diagnostics
<1>2. /\ new \in Diagnostics /\ new \notin Existing /\ Existing \subseteq Diagnostics
      /\ 1..(new - 1) = Existing
  BY <1>1
<1>3. /\ severity' = [severity EXCEPT ![new] = s]
      /\ children' = [children EXCEPT ![new] = list]
      /\ id' = [id EXCEPT ![new] = element]
  BY DEF NewDiagnostic
<1>4. /\ severity' \in Graded /\ severity'[new] = s
      /\ id' \in [Diagnostics -> Ids \union {RootId, NoId}]
      /\ \A d \in Existing : severity'[d] = severity[d] /\ id'[d] = id[d]
  <2>1. severity \in [Diagnostics -> Severities] /\ id \in [Diagnostics -> Ids \union {RootId, NoId}]
    BY DEF DiagnosticInv, Graded
  <2> HIDE DEF new
  <2> QED BY <1>2, <1>3, <2>1 DEF Graded
<1>5. /\ children' \in Trees /\ children'[new] = list
      /\ \A d \in Existing : children'[d] = children[d]
  <2>1. list \in Seq(Diagnostics)
    <3>1. DOMAIN list = 1..Len(list) /\ Len(list) \in Nat /\ \A i \in 1..Len(list) : list[i] \in Diagnostics
      BY <1>2
    <3> QED BY <3>1
  <2>2. children \in [Diagnostics -> Seq(Diagnostics)]
    BY DEF DiagnosticInv, Trees
  <2>3. \A i \in DOMAIN list : list[i] \in 1..(new - 1)
    <3>1. \A i \in DOMAIN list : list[i] \in Existing
      OBVIOUS
    <3> HIDE DEF new
    <3> QED BY <1>2, <3>1
  <2>4. children' \in [Diagnostics -> Seq(Diagnostics)]
    <3> DEFINE T == Seq(Diagnostics)
    <3> HIDE DEF T, new
    <3> QED BY <1>2, <1>3, <2>1, <2>2 DEF T
  <2>5. \A d \in Diagnostics : children'[d] = IF d = new THEN list ELSE children[d]
    <3> DEFINE T == Seq(Diagnostics)
    <3>1. children \in [Diagnostics -> T]
      BY <2>2
    <3> HIDE DEF T, new
    <3> QED BY <1>2, <1>3, <3>1
  <2>6. \A d \in Diagnostics : \A i \in DOMAIN children[d] : children[d][i] \in 1..(d - 1)
    BY DEF DiagnosticInv, Trees
  <2>7. \A d \in Diagnostics : \A i \in DOMAIN children'[d] : children'[d][i] \in 1..(d - 1)
    <3> HIDE DEF new
    <3> QED BY <2>3, <2>5, <2>6
  <2> HIDE DEF new
  <2> QED BY <1>2, <2>4, <2>5, <2>7 DEF Trees
<1>6. LeavesKept /\ \A d \in Existing : A2[d] = A[d]
  <2>1. objects' \in Nat /\ objects <= objects'
    BY <1>1
  <2> HIDE DEF new
  <2> QED BY <1>4, <1>5, <2>1, KeepsLeaves
<1>7. Grade(severity'[new]) = Grade(A2[new])
  <2>1. A2[new] = AllBody(A2, children', severity', new)
    BY <1>2, <1>4, <1>5, AllDefined
  <2> HIDE DEF new, A, A2
  <2>2. A2[new] = IF list = <<>> THEN s ELSE UNION { A2[c] : c \in ToSet(list) }
    BY <1>4, <1>5, <2>1 DEF AllBody
  <2>3. \A c \in ToSet(list) : A2[c] = A[c]
    <3>1. ToSet(list) \subseteq Existing
      BY DEF ToSet
    <3> QED BY <1>6, <3>1
  <2>4. { A2[c] : c \in ToSet(list) } = { A[c] : c \in ToSet(list) }
    BY <2>3
  <2> QED BY <1>4, <2>2, <2>4 DEF A
<1>8. ASSUME NEW d \in Existing' PROVE Grade(severity'[d]) = Grade(A2[d])
  <2>1. d \in Existing \/ d = new
    BY <1>1 DEF Existing
  <2>2. CASE d \in Existing
    <3>1. Grade(severity[d]) = Grade(A[d])
      BY <2>2 DEF DiagnosticInv
    <3> HIDE DEF A, A2, new
    <3> QED BY <1>4, <1>6, <2>2, <3>1
  <2> QED BY <1>7, <2>1, <2>2
<1>9. objects' \in 0..MaxDiagnostics
  BY <1>1
<1> HIDE DEF new
<1> QED BY <1>4, <1>5, <1>6, <1>8, <1>9 DEF DiagnosticInv

(* recomputeSeverity, whichever objects it visits, replaces severities by  *)
(* ones of the same grade.                                                 *)
LEMMA RecomputeKeeps ==
    ASSUME DiagnosticInv, NEW d \in Existing, RecomputeSeverity(d)
    PROVE  DiagnosticInv' /\ LeavesKept
<1> DEFINE A == All(children, severity)
           A2 == All(children', severity')
<1>1. objects' = objects /\ children' = children /\ id' = id
  BY DEF RecomputeSeverity
<1>2. /\ severity' \in [Diagnostics -> Severities]
      /\ \A e \in Diagnostics : severity'[e] = A[e] \/ severity'[e] = severity[e]
  <2>1. severity' = [e \in Diagnostics |-> IF e \in Below[d] THEN Recomputed[e] ELSE severity[e]]
    BY DEF RecomputeSeverity
  <2>2. Recomputed = A
    BY OverTrees
  <2>3. \A e \in Diagnostics : A[e] \in Severities
    BY AllOfLeaves DEF DiagnosticInv, GoodAll
  <2>4. severity \in [Diagnostics -> Severities]
    BY DEF DiagnosticInv, Graded
  <2> HIDE DEF A
  <2> QED BY <2>1, <2>2, <2>3, <2>4
<1>3. severity' \in Graded /\ children' \in Trees
  BY <1>1, <1>2 DEF DiagnosticInv, Graded
<1>4. ASSUME NEW e \in Existing, children[e] = <<>> PROVE severity'[e] = severity[e]
  <2>1. e \in Diagnostics
    BY ExistingFacts
  <2>2. A[e] = AllBody(A, children, severity, e)
    BY <2>1, AllDefined DEF DiagnosticInv
  <2> HIDE DEF A
  <2>3. A[e] = severity[e]
    BY <1>4, <2>2 DEF AllBody
  <2> QED BY <1>2, <2>1, <2>3
<1>5. LeavesKept /\ \A e \in Existing : A2[e] = A[e]
  <2>1. objects \in Nat /\ objects <= objects
    BY ExistingFacts
  <2> QED BY <1>1, <1>3, <1>4, <2>1, KeepsLeaves
<1>6. ASSUME NEW e \in Existing' PROVE Grade(severity'[e]) = Grade(A2[e])
  <2>1. e \in Existing /\ e \in Diagnostics
    BY <1>1, ExistingFacts DEF Existing
  <2>2. Grade(severity[e]) = Grade(A[e])
    BY <2>1 DEF DiagnosticInv
  <2> HIDE DEF A, A2
  <2> QED BY <1>2, <1>5, <2>1, <2>2
<1>7. objects' \in 0..MaxDiagnostics /\ id' \in [Diagnostics -> Ids \union {RootId, NoId}]
  BY <1>1 DEF DiagnosticInv
<1> QED BY <1>3, <1>5, <1>6, <1>7 DEF DiagnosticInv

----------------------------------------------------------------------------
(* The lists that are merged or reported hold existing objects.            *)
LEMMA ListFacts == \A list \in Lists : list \in Seq(Existing)
<1> SUFFICES ASSUME NEW list \in Lists PROVE list \in Seq(Existing)
  OBVIOUS
<1> DEFINE E == Existing
<1>1. PICK n \in 0..MaxChildren : list \in [1..n -> E]
  BY BoundsAssumption DEF Lists, BoundedSeq, SeqOf
<1> HIDE DEF E
<1>2. n \in Nat
  BY BoundsAssumption
<1>3. list \in Seq(E)
  BY <1>1, <1>2
<1> QED BY <1>3 DEF E

(* The worst of several severities has the grade of all that would be      *)
(* recomputed below them.                                                  *)
LEMMA WorstOfAll ==
    ASSUME DiagnosticInv, NEW X, X \subseteq Existing, NEW w \in X,
           \A e \in X : Grade(severity[e]) <= Grade(severity[w])
    PROVE  Grade(severity[w]) = Grade(UNION { All(children, severity)[c] : c \in X })
<1> DEFINE A == All(children, severity)
           U == { A[c] : c \in X }
<1>1. \A c \in X : A[c] \in Severities /\ severity[c] \in Severities /\ Grade(severity[c]) = Grade(A[c])
  <2>1. \A c \in X : c \in Diagnostics /\ c \in Existing
    BY ExistingFacts
  <2>2. \A c \in X : A[c] \in Severities
    BY <2>1, AllOfLeaves DEF DiagnosticInv, GoodAll
  <2> QED BY <2>1, <2>2 DEF DiagnosticInv, Graded
<1> HIDE DEF A
<1>2. U \subseteq Severities /\ A[w] \in U
  BY <1>1
<1>3. \A c \in X : Grade(A[c]) \in 0..4 /\ Grade(A[c]) <= Grade(A[w])
  BY <1>1, Grades
<1>4. \A s \in U : Grade(s) \in 0..4 /\ Grade(s) <= Grade(A[w])
  BY <1>3
<1> HIDE DEF U
<1>5. UNION U \in Severities /\ Grade(A[w]) <= Grade(UNION U)
  BY <1>2, UnionGrade
<1>6. Grade(UNION U) = 0 \/ \E s \in U : Grade(s) = Grade(UNION U)
  BY <1>2, UnionGrade
<1>7. Grade(UNION U) \in 0..4 /\ Grade(A[w]) \in 0..4
  BY <1>3, <1>5, Grades
<1>8. Grade(UNION U) = Grade(A[w])
  <2>1. CASE Grade(UNION U) = 0
    BY <1>5, <1>7, <2>1
  <2>2. CASE \E s \in U : Grade(s) = Grade(UNION U)
    <3>1. Grade(UNION U) <= Grade(A[w])
      BY <1>4, <2>2
    <3>2. \A a, b \in 0..4 : a <= b /\ b <= a => a = b
      OBVIOUS
    <3> QED BY <1>5, <1>7, <3>1, <3>2
  <2> QED BY <1>6, <2>1, <2>2
<1> QED BY <1>1, <1>8 DEF U, A

(* A composed diagnostic of the server has the worst severity of its       *)
(* children.                                                               *)
LEMMA ComposedKeeps ==
    ASSUME DiagnosticInv, NEW list \in Lists, ReportComposed(list)
    PROVE  DiagnosticInv' /\ LeavesKept
<1>1. PICK d \in ToSet(list) :
        /\ \A e \in ToSet(list) : ~Greater(severity[e], severity[d])
        /\ NewDiagnostic(severity[d], list, RootId)
  BY DEF ReportComposed
<1>2. list \in Seq(Existing) /\ ToSet(list) \subseteq Existing
  <2>1. list \in Seq(Existing)
    BY ListFacts
  <2> QED BY <2>1 DEF ToSet
<1>3. \A e \in ToSet(list) : severity[e] \in Severities
  BY <1>2, ExistingFacts
<1>4. \A e \in ToSet(list) : Grade(severity[e]) <= Grade(severity[d])
  BY <1>1, <1>3, GreaterGrade
<1>5. Grade(severity[d]) = Grade(UNION { All(children, severity)[c] : c \in ToSet(list) })
  BY <1>2, <1>4, WorstOfAll
<1> QED BY <1>1, <1>2, <1>3, <1>5, NewKeeps

(* So has one that merge makes: the worst of all diagnostics is also the   *)
(* worst of those that are not OK.                                         *)
LEMMA MergeKeeps ==
    ASSUME DiagnosticInv, NEW list \in Lists, Merge(list)
    PROVE  DiagnosticInv' /\ LeavesKept
<1> DEFINE nonOK == Filtered(list, { d \in ToSet(list) : severity[d] # OK })
           X == ToSet(nonOK)
           w == WorstOf(list)
<1>1. list \in Seq(Existing) /\ ToSet(list) \subseteq Existing
  <2>1. list \in Seq(Existing)
    BY ListFacts
  <2> QED BY <2>1 DEF ToSet
<1>2. nonOK \in Seq(Existing) /\ X = { d \in ToSet(list) : severity[d] # OK }
  <2> DEFINE problems == { d \in ToSet(list) : severity[d] # OK }
  <2>1. /\ Filtered(list, problems) \in Seq(Existing)
        /\ ToSet(Filtered(list, problems)) = { d \in ToSet(list) : d \in problems }
    <3> HIDE DEF problems
    <3> QED BY <1>1, FilteredList
  <2> QED BY <2>1
<1>3. Len(nonOK) \in Nat
  BY <1>2
<1>4. \/ Len(nonOK) = 0 /\ NewDiagnostic(OK, <<>>, NoId)
      \/ Len(nonOK) = 1 /\ UNCHANGED diagnosticVars
      \/ Len(nonOK) > 1 /\ NewDiagnostic(severity[w], nonOK, RootId)
  <2> HIDE DEF w
  <2>1. CASE Len(nonOK) = 0
    BY <2>1 DEF Merge
  <2>2. CASE Len(nonOK) = 1
    BY <2>2 DEF Merge
  <2>3. CASE Len(nonOK) # 0 /\ Len(nonOK) # 1
    <3>1. NewDiagnostic(severity[w], nonOK, RootId)
      BY <2>3 DEF Merge, w
    <3>2. Len(nonOK) > 1
      <4>1. \A n \in Nat : n # 0 /\ n # 1 => n > 1
        OBVIOUS
      <4> HIDE DEF nonOK
      <4> QED BY <1>3, <2>3, <4>1
    <3> HIDE DEF nonOK
    <3> QED BY <3>1, <3>2
  <2> QED BY <2>1, <2>2, <2>3
<1>5. CASE NewDiagnostic(OK, <<>>, NoId)
  <2>1. OK \in Severities /\ <<>> \in Seq(Existing) /\ NoId \in Ids \union {RootId, NoId}
    BY DEF OK, Severities
  <2> QED BY <1>5, <2>1, NewKeeps
<1>6. CASE UNCHANGED diagnosticVars
  <2>1. objects' = objects /\ severity' = severity /\ children' = children /\ id' = id
    BY <1>6 DEF diagnosticVars
  <2>2. DiagnosticInv'
    BY <2>1 DEF DiagnosticInv, Existing
  <2>3. LeavesKept
    BY <2>1, ExistingFacts DEF LeavesKept, CollectLeaves
  <2> QED BY <2>2, <2>3
<1>7. CASE Len(nonOK) > 1 /\ NewDiagnostic(severity[w], nonOK, RootId)
  <2> HIDE DEF nonOK, w
  <2>1. 1 \in DOMAIN nonOK /\ nonOK[1] \in X
    <3>1. 1 \in DOMAIN nonOK
      BY <1>2, <1>7
    <3> QED BY <3>1 DEF ToSet
  <2>2. nonOK[1] \in ToSet(list) /\ severity[nonOK[1]] # OK
    <3> HIDE DEF X
    <3> QED BY <1>2, <2>1
  <2>3. w \in ToSet(list) /\ \A e \in ToSet(list) : Grade(severity[e]) <= Grade(severity[w])
    <3>1. list # <<>>
      BY <2>2 DEF ToSet
    <3>2. list \in Seq(Diagnostics)
      <4>1. DOMAIN list = 1..Len(list) /\ Len(list) \in Nat /\ \A i \in 1..Len(list) : list[i] \in Existing
        BY <1>1
      <4>2. \A i \in 1..Len(list) : list[i] \in Diagnostics
        BY <4>1, ExistingFacts
      <4> QED BY <1>1, <4>1, <4>2
    <3> QED BY <3>1, <3>2, ExistingFacts, WorstIsWorst DEF w
  <2> HIDE DEF X
  <2>4. \A e \in ToSet(list) : severity[e] \in Severities
    BY <1>1, ExistingFacts
  <2>5. w \in X
    <3>1. Grade(severity[nonOK[1]]) \in 1..4
      BY <2>2, <2>4, Grades
    <3>2. Grade(severity[w]) \in 0..4 /\ Grade(severity[w]) # 0
      BY <2>2, <2>3, <2>4, <3>1, Grades
    <3>3. severity[w] # OK
      BY <2>3, <2>4, <3>2, Grades
    <3> QED BY <1>2, <2>3, <3>3
  <2>6. X \subseteq Existing /\ \A e \in X : Grade(severity[e]) <= Grade(severity[w])
    BY <1>1, <1>2, <2>3
  <2>7. Grade(severity[w]) = Grade(UNION { All(children, severity)[c] : c \in X })
    BY <2>5, <2>6, WorstOfAll
  <2> QED BY <1>2, <1>7, <2>3, <2>4, <2>7, NewKeeps DEF X
<1> QED BY <1>4, <1>5, <1>6, <1>7

(* Every step of the diagnostics keeps the invariant and the leaves.       *)
LEMMA DiagnosticStep ==
    DiagnosticInv /\ [DiagnosticNext]_diagnosticVars => DiagnosticInv' /\ LeavesKept
<1> SUFFICES ASSUME DiagnosticInv, [DiagnosticNext]_diagnosticVars
             PROVE  DiagnosticInv' /\ LeavesKept
  OBVIOUS
<1>1. ASSUME NEW s \in LeafSeverities, NEW element \in Ids, Report(s, element)
      PROVE  DiagnosticInv' /\ LeavesKept
  <2>1. /\ s \in Severities /\ <<>> \in Seq(Existing) /\ element \in Ids \union {RootId, NoId}
        /\ NewDiagnostic(s, <<>>, element)
    BY <1>1, LeafSeveritiesAssumption DEF Report
  <2> QED BY <2>1, NewKeeps
<1>2. ASSUME NEW list \in Lists, ReportComposed(list) PROVE DiagnosticInv' /\ LeavesKept
  BY <1>2, ComposedKeeps
<1>3. ASSUME NEW list \in Lists, Merge(list) PROVE DiagnosticInv' /\ LeavesKept
  BY <1>3, MergeKeeps
<1>4. ASSUME NEW d \in Existing, RecomputeSeverity(d) PROVE DiagnosticInv' /\ LeavesKept
  BY <1>4, RecomputeKeeps
<1>5. CASE UNCHANGED diagnosticVars
  <2>1. objects' = objects /\ severity' = severity /\ children' = children /\ id' = id
    BY <1>5 DEF diagnosticVars
  <2>2. DiagnosticInv'
    BY <2>1 DEF DiagnosticInv, Existing
  <2>3. LeavesKept
    BY <2>1, ExistingFacts DEF LeavesKept, CollectLeaves
  <2> QED BY <2>2, <2>3
<1> QED BY <1>1, <1>2, <1>3, <1>4, <1>5 DEF DiagnosticNext

----------------------------------------------------------------------------
(* The markers.                                                            *)
MarkerOf(sev, d) ==
    [of |-> d,
     severity |-> CASE SeverityLabel(sev[d]) = "ERROR" -> "Error"
                    [] SeverityLabel(sev[d]) = "WARNING" -> "Warning"
                    [] SeverityLabel(sev[d]) = "INFO" -> "Information"
                    [] SeverityLabel(sev[d]) = "OK" -> "Hint"]

(* The markers of the leaves that have one for an owner.                   *)
Shown(sev, ids, owner, leaves) ==
    { MarkerOf(sev, l) : l \in { p \in leaves : SeverityLabel(sev[p]) # "CANCEL" /\ ids[p] = owner } }

(* The leaves below a list of diagnostics.                                 *)
LeavesOf(L, list) == UNION { ToSet(L[d]) : d \in ToSet(list) }

(* The markers marks are those of the diagnostics list.                    *)
Current(marks, L, sev, ids, list) ==
    \A m \in Models : \A owner \in Owners :
        ToSet(marks[m][owner]) = Shown(sev, ids, owner, LeavesOf(L, list[m]))

(* With the variables of the specification this is MarkersAreCurrent.      *)
LEMMA CurrentIsCurrent ==
    MarkersAreCurrent <=> Current(markers, CollectLeaves, severity, id, shown)
<1>1. ASSUME NEW m \in Models, NEW owner \in Owners
      PROVE  { emfToLangServerDiagnostic(d) : d \in { p \in Problems(m) : id[p] = owner } }
                = Shown(severity, id, owner, LeavesOf(CollectLeaves, shown[m]))
  <2>1. { p \in Problems(m) : id[p] = owner }
            = { p \in LeavesOf(CollectLeaves, shown[m]) :
                    SeverityLabel(severity[p]) # "CANCEL" /\ id[p] = owner }
    BY DEF Problems, LeavesOf, LeavesUnder, Convertible
  <2>2. \A d : emfToLangServerDiagnostic(d) = MarkerOf(severity, d)
    BY DEF emfToLangServerDiagnostic, MarkerOf
  <2> QED BY <2>1, <2>2 DEF Shown
<1> QED BY <1>1 DEF MarkersAreCurrent, Current

(* convertDiagnosticsPerElementId makes the markers of the leaves it is    *)
(* given.                                                                  *)
LEMMA Converted ==
    ASSUME severity \in Graded, NEW leaves \in Seq(Diagnostics), NEW owner \in Owners
    PROVE  /\ ConvertedPerElementId(leaves)[owner] \in Seq(Markers)
           /\ ToSet(ConvertedPerElementId(leaves)[owner]) = Shown(severity, id, owner, ToSet(leaves))
<1> DEFINE P == { d \in ToSet(leaves) : id[d] = owner /\ Convertible(d) }
           own == Filtered(leaves, P)
           C == [i \in DOMAIN own |-> emfToLangServerDiagnostic(own[i])]
<1>1. ConvertedPerElementId(leaves)[owner] = C
  BY DEF ConvertedPerElementId
<1>2. own \in Seq(Diagnostics) /\ ToSet(own) = P
  <2>1. own \in Seq(Diagnostics) /\ ToSet(own) = { d \in ToSet(leaves) : d \in P }
    <3> HIDE DEF P
    <3> QED BY FilteredList
  <2> QED BY <2>1
<1>3. \A d : emfToLangServerDiagnostic(d) = MarkerOf(severity, d)
  BY DEF emfToLangServerDiagnostic, MarkerOf
<1>4. ASSUME NEW d \in P PROVE MarkerOf(severity, d) \in Markers
  <2>1. d \in Diagnostics
    BY <1>2 DEF ToSet
  <2>2. severity[d] \in Severities
    BY <2>1 DEF Graded
  <2>3. SeverityLabel(severity[d]) \in {"OK", "INFO", "WARNING", "ERROR"}
    <3>1. SeverityLabel(severity[d]) \in {"OK", "INFO", "WARNING", "ERROR", "CANCEL"}
      BY <2>2, LabelOfGrade, Grades
    <3> QED BY <3>1 DEF Convertible
  <2> HIDE DEF P
  <2> QED BY <2>1, <2>3 DEF MarkerOf, Markers, MarkerSeverities
<1> HIDE DEF own
<1>5. C \in Seq(Markers)
  <2>1. DOMAIN own = 1..Len(own) /\ Len(own) \in Nat
    BY <1>2
  <2>2. \A i \in DOMAIN own : own[i] \in P
    BY <1>2 DEF ToSet
  <2>3. \A i \in DOMAIN own : emfToLangServerDiagnostic(own[i]) \in Markers
    BY <1>3, <1>4, <2>2
  <2> QED BY <2>1, <2>3
<1>6. ToSet(C) = { MarkerOf(severity, d) : d \in P }
  <2>1. ToSet(C) = { emfToLangServerDiagnostic(own[i]) : i \in DOMAIN own }
    BY DEF ToSet
  <2>2. ToSet(own) = { own[i] : i \in DOMAIN own }
    BY DEF ToSet
  <2> HIDE DEF C, P
  <2> QED BY <1>2, <1>3, <2>1, <2>2
<1>7. Shown(severity, id, owner, ToSet(leaves)) = { MarkerOf(severity, d) : d \in P }
  BY DEF Shown, Convertible
<1> HIDE DEF C, P
<1> QED BY <1>1, <1>5, <1>6, <1>7

(* The inductive invariant of DiagnosticMarkers.                           *)
MarkersInv ==
    /\ DiagnosticInv
    /\ markers \in [Models -> [Owners -> Seq(Markers)]]
    /\ shown \in [Models -> Seq(Existing)]
    /\ Current(markers, CollectLeaves, severity, id, shown)

(* No marker is shown at first.                                            *)
LEMMA InitMarkers == Init => MarkersInv
<1> SUFFICES ASSUME Init PROVE MarkersInv
  OBVIOUS
<1>1. DiagnosticInv
  BY InitDiagnostics DEF Init
<1>2. markers \in [Models -> [Owners -> Seq(Markers)]]
  <2>1. <<>> \in Seq(Markers)
    OBVIOUS
  <2>2. NoMarkers \in [Owners -> Seq(Markers)]
    BY <2>1 DEF NoMarkers
  <2> QED BY <2>2 DEF Init
<1>3. shown \in [Models -> Seq(Existing)]
  BY DEF Init
<1>4. Current(markers, CollectLeaves, severity, id, shown)
  <2> SUFFICES ASSUME NEW m \in Models, NEW owner \in Owners
               PROVE  ToSet(markers[m][owner]) = Shown(severity, id, owner, LeavesOf(CollectLeaves, shown[m]))
    BY DEF Current
  <2>1. markers[m][owner] = <<>> /\ shown[m] = <<>>
    BY DEF Init, NoMarkers
  <2>2. ToSet(markers[m][owner]) = {} /\ ToSet(shown[m]) = {}
    BY <2>1 DEF ToSet
  <2>3. LeavesOf(CollectLeaves, shown[m]) = {}
    BY <2>2 DEF LeavesOf
  <2> QED BY <2>2, <2>3 DEF Shown
<1> QED BY <1>1, <1>2, <1>3, <1>4 DEF MarkersInv

(* The leaves of an existing diagnostic are a list of diagnostics.         *)
LEMMA LeavesOfExisting ==
    ASSUME DiagnosticInv, NEW d \in Existing
    PROVE  CollectLeaves[d] \in Seq(Diagnostics)
<1>1. d \in Diagnostics
  BY ExistingFacts
<1>2. GoodLeaves(CollectLeaves, children, severity, d)
  BY <1>1, OverTrees, LeavesBelow DEF DiagnosticInv
<1> QED BY <1>2 DEF GoodLeaves

(* A change of the diagnostics does not change what is to be shown.        *)
LEMMA StillCurrent ==
    ASSUME MarkersInv, DiagnosticInv', LeavesKept, UNCHANGED <<markers, shown>>
    PROVE  MarkersInv'
<1>1. markers' = markers /\ shown' = shown
  OBVIOUS
<1>2. shown' \in [Models -> Seq(Existing')]
  <2>1. \A e \in Existing : e \in Existing'
    BY DEF LeavesKept, Existing, MarkersInv, DiagnosticInv
  <2>2. ASSUME NEW m \in Models PROVE shown[m] \in Seq(Existing')
    <3> DEFINE list == shown[m]
               E == Existing
               E2 == Existing'
    <3>1. list \in Seq(E) /\ \A e \in E : e \in E2
      BY <2>1 DEF MarkersInv
    <3> HIDE DEF list, E, E2
    <3>2. list \in Seq(E2)
      <4>1. DOMAIN list = 1..Len(list) /\ Len(list) \in Nat /\ \A i \in 1..Len(list) : list[i] \in E
        BY <3>1
      <4> QED BY <3>1, <4>1
    <3> QED BY <3>2 DEF list, E2
  <2> DEFINE T == Seq(Existing)
             T2 == Seq(Existing')
  <2>3. shown \in [Models -> T] /\ \A m \in Models : shown[m] \in T2
    BY <2>2 DEF MarkersInv
  <2> HIDE DEF T, T2
  <2>4. shown \in [Models -> T2]
    BY <2>3
  <2> QED BY <1>1, <2>4 DEF T2
<1>3. ASSUME NEW m \in Models, NEW owner \in Owners
      PROVE  ToSet(markers'[m][owner]) = Shown(severity', id', owner, LeavesOf(CollectLeaves', shown'[m]))
  <2> DEFINE X == LeavesOf(CollectLeaves, shown[m])
  <2>1. ToSet(shown[m]) \subseteq Existing
    <3>1. shown[m] \in Seq(Existing)
      BY DEF MarkersInv
    <3> QED BY <3>1 DEF ToSet
  <2>2. ASSUME NEW d \in ToSet(shown[m])
        PROVE  /\ CollectLeaves'[d] = CollectLeaves[d]
               /\ \A l \in ToSet(CollectLeaves[d]) : severity'[l] = severity[l] /\ id'[l] = id[l]
    BY <2>1 DEF LeavesKept
  <2>3. LeavesOf(CollectLeaves', shown'[m]) = X
    <3>1. \A d \in ToSet(shown[m]) : ToSet(CollectLeaves'[d]) = ToSet(CollectLeaves[d])
      BY <2>2
    <3> QED BY <1>1, <3>1 DEF LeavesOf
  <2>4. \A l \in X : severity'[l] = severity[l] /\ id'[l] = id[l]
    BY <2>2 DEF LeavesOf
  <2> HIDE DEF X
  <2>5. \A l \in X : MarkerOf(severity', l) = MarkerOf(severity, l)
    BY <2>4 DEF MarkerOf
  <2>6. { p \in X : SeverityLabel(severity'[p]) # "CANCEL" /\ id'[p] = owner }
            = { p \in X : SeverityLabel(severity[p]) # "CANCEL" /\ id[p] = owner }
    BY <2>4
  <2>7. Shown(severity', id', owner, X) = Shown(severity, id, owner, X)
    BY <2>5, <2>6 DEF Shown
  <2>8. ToSet(markers[m][owner]) = Shown(severity, id, owner, X)
    BY DEF MarkersInv, Current, X
  <2> QED BY <1>1, <2>3, <2>7, <2>8
<1>4. Current(markers', CollectLeaves', severity', id', shown')
  BY <1>3 DEF Current
<1>5. markers' \in [Models -> [Owners -> Seq(Markers)]]
  BY <1>1 DEF MarkersInv
<1> QED BY <1>2, <1>4, <1>5 DEF MarkersInv

(* Setting the diagnostics of a model.                                     *)
LEMMA SetsMarkers ==
    ASSUME MarkersInv, NEW m \in Models, NEW list \in Seq(Existing),
           NEW leaves \in Seq(Diagnostics), ToSet(leaves) = LeavesOf(CollectLeaves, list),
           SetDiagnosticLeaves(m, leaves), shown' = [shown EXCEPT ![m] = list],
           UNCHANGED diagnosticVars
    PROVE  MarkersInv'
<1> DEFINE C == ConvertedPerElementId(leaves)
<1>1. objects' = objects /\ severity' = severity /\ children' = children /\ id' = id
  BY DEF diagnosticVars
<1>2. Existing' = Existing /\ DiagnosticInv' /\ CollectLeaves' = CollectLeaves
  BY <1>1 DEF DiagnosticInv, Existing, CollectLeaves, MarkersInv
<1>3. \A owner \in Owners :
        /\ C[owner] \in Seq(Markers)
        /\ ToSet(C[owner]) = Shown(severity, id, owner, LeavesOf(CollectLeaves, list))
  BY Converted DEF MarkersInv, DiagnosticInv
<1>4. C \in [Owners -> Seq(Markers)]
  <2>1. C = [owner \in Owners |-> C[owner]]
    BY DEF ConvertedPerElementId
  <2> HIDE DEF C
  <2> QED BY <1>3, <2>1
<1>5. markers' = [markers EXCEPT ![m] = C]
  BY DEF SetDiagnosticLeaves
<1> HIDE DEF C
<1>6. /\ markers' \in [Models -> [Owners -> Seq(Markers)]]
      /\ \A k \in Models : markers'[k] = IF k = m THEN C ELSE markers[k]
  <2> DEFINE T == [Owners -> Seq(Markers)]
  <2>1. markers \in [Models -> T] /\ C \in T
    BY <1>4 DEF MarkersInv
  <2> HIDE DEF T
  <2>2. /\ markers' \in [Models -> T]
        /\ \A k \in Models : markers'[k] = IF k = m THEN C ELSE markers[k]
    BY <1>5, <2>1
  <2> QED BY <2>2 DEF T
<1>7. /\ shown' \in [Models -> Seq(Existing)]
      /\ \A k \in Models : shown'[k] = IF k = m THEN list ELSE shown[k]
  <2> DEFINE T == Seq(Existing)
  <2>1. shown \in [Models -> T] /\ list \in T
    BY DEF MarkersInv
  <2> HIDE DEF T
  <2>2. /\ shown' \in [Models -> T]
        /\ \A k \in Models : shown'[k] = IF k = m THEN list ELSE shown[k]
    BY <2>1
  <2> QED BY <2>2 DEF T
<1>8. ASSUME NEW k \in Models, NEW owner \in Owners
      PROVE  ToSet(markers'[k][owner]) = Shown(severity, id, owner, LeavesOf(CollectLeaves, shown'[k]))
  <2>1. CASE k = m
    BY <1>3, <1>6, <1>7, <2>1
  <2>2. CASE k # m
    <3>1. markers'[k] = markers[k] /\ shown'[k] = shown[k]
      BY <1>6, <1>7, <2>2
    <3>2. ToSet(markers[k][owner]) = Shown(severity, id, owner, LeavesOf(CollectLeaves, shown[k]))
      BY DEF MarkersInv, Current
    <3> QED BY <3>1, <3>2
  <2> QED BY <2>1, <2>2
<1>9. Current(markers', CollectLeaves', severity', id', shown')
  BY <1>1, <1>2, <1>8 DEF Current
<1> QED BY <1>2, <1>6, <1>7, <1>9 DEF MarkersInv

(* setDiagnostic.                                                          *)
LEMMA SetOneKeeps ==
    ASSUME MarkersInv, NEW m \in Models, NEW d \in Existing, SetDiagnostic(m, d)
    PROVE  MarkersInv'
<1> DEFINE leaves == CollectLeaves[d]
<1>1. leaves \in Seq(Diagnostics)
  BY LeavesOfExisting DEF MarkersInv
<1>2. <<d>> \in Seq(Existing) /\ ToSet(<<d>>) = {d}
  BY DEF ToSet
<1>3. ToSet(leaves) = LeavesOf(CollectLeaves, <<d>>)
  BY <1>2 DEF LeavesOf
<1>4. /\ SetDiagnosticLeaves(m, leaves)
      /\ shown' = [shown EXCEPT ![m] = <<d>>]
      /\ UNCHANGED diagnosticVars
  BY DEF SetDiagnostic
<1> HIDE DEF leaves
<1> QED BY <1>1, <1>2, <1>3, <1>4, SetsMarkers

(* setDiagnostics.                                                         *)
LEMMA SetManyKeeps ==
    ASSUME MarkersInv, NEW m \in Models, NEW list \in Lists, SetDiagnostics(m, list)
    PROVE  MarkersInv'
<1> DEFINE ss == [i \in DOMAIN list |-> CollectLeaves[list[i]]]
           leaves == FlattenSeq(ss)
<1>1. /\ list \in Seq(Existing) /\ DOMAIN list = 1..Len(list) /\ Len(list) \in Nat
      /\ \A i \in 1..Len(list) : list[i] \in Existing
  <2>1. list \in Seq(Existing)
    BY ListFacts
  <2> QED BY <2>1
<1>2. ss \in Seq(Seq(Diagnostics)) /\ DOMAIN ss = DOMAIN list
  <2> DEFINE T == Seq(Diagnostics)
  <2>1. \A i \in 1..Len(list) : CollectLeaves[list[i]] \in T
    BY <1>1, LeavesOfExisting DEF MarkersInv
  <2> HIDE DEF T
  <2>2. ss \in Seq(T) /\ DOMAIN ss = DOMAIN list
    BY <1>1, <2>1
  <2> QED BY <2>2 DEF T
<1>3. \A i \in DOMAIN list : ss[i] = CollectLeaves[list[i]]
  OBVIOUS
<1>4. /\ SetDiagnosticLeaves(m, leaves)
      /\ shown' = [shown EXCEPT ![m] = list]
      /\ UNCHANGED diagnosticVars
  BY DEF SetDiagnostics
<1> HIDE DEF ss
<1>5. leaves \in Seq(Diagnostics) /\ ToSet(leaves) = UNION { ToSet(ss[i]) : i \in DOMAIN ss }
  BY <1>2, Flattened
<1>6. UNION { ToSet(ss[i]) : i \in DOMAIN ss } = LeavesOf(CollectLeaves, list)
  <2>1. ASSUME NEW x, NEW i \in DOMAIN ss, x \in ToSet(ss[i])
        PROVE  x \in LeavesOf(CollectLeaves, list)
    <3>1. list[i] \in ToSet(list)
      BY <1>2 DEF ToSet
    <3>2. x \in ToSet(CollectLeaves[list[i]])
      BY <1>2, <1>3, <2>1
    <3> QED BY <3>1, <3>2 DEF LeavesOf
  <2>2. ASSUME NEW x \in LeavesOf(CollectLeaves, list) PROVE \E i \in DOMAIN ss : x \in ToSet(ss[i])
    <3>1. PICK d \in ToSet(list) : x \in ToSet(CollectLeaves[d])
      BY DEF LeavesOf
    <3>2. PICK i \in DOMAIN list : list[i] = d
      BY DEF ToSet
    <3> QED BY <1>2, <1>3, <3>1, <3>2
  <2> QED BY <2>1, <2>2
<1> HIDE DEF leaves
<1> QED BY <1>1, <1>4, <1>5, <1>6, SetsMarkers

(* Every step keeps the invariant: a step of the diagnostics because it    *)
(* keeps the leaves, a step of the manager because it replaces all markers *)
(* of the model.                                                           *)
LEMMA StepMarkers == MarkersInv /\ [Next]_vars => MarkersInv'
<1> SUFFICES ASSUME MarkersInv, [Next]_vars PROVE MarkersInv'
  OBVIOUS
<1>1. CASE DiagnosticNext /\ UNCHANGED <<markers, shown>>
  BY <1>1, DiagnosticStep, StillCurrent DEF MarkersInv
<1>2. ASSUME NEW m \in Models, NEW d \in Existing, SetDiagnostic(m, d) PROVE MarkersInv'
  BY <1>2, SetOneKeeps
<1>3. ASSUME NEW m \in Models, NEW list \in Lists, SetDiagnostics(m, list) PROVE MarkersInv'
  BY <1>3, SetManyKeeps
<1>4. CASE UNCHANGED vars
  <2>1. UNCHANGED diagnosticVars /\ UNCHANGED <<markers, shown>>
    BY <1>4 DEF vars
  <2> QED BY <2>1, DiagnosticStep, StillCurrent DEF MarkersInv
<1> QED BY <1>1, <1>2, <1>3, <1>4 DEF Next

(* So it holds in every reachable state ...                                *)
LEMMA MarkersInvariant == Spec => []MarkersInv
<1> QED BY InitMarkers, StepMarkers, PTL DEF Spec

(* ... and with it what the runs check.                                    *)
LEMMA InvImpliesMarkers == MarkersInv => TypeOK /\ LabelIsWorstLeaf /\ MarkersAreCurrent
<1> SUFFICES ASSUME MarkersInv PROVE TypeOK /\ LabelIsWorstLeaf /\ MarkersAreCurrent
  OBVIOUS
<1>1. TypeOK
  BY InvImpliesType DEF MarkersInv, TypeOK
<1>2. LabelIsWorstLeaf
  BY InvImpliesLabels DEF MarkersInv
<1>3. MarkersAreCurrent
  BY CurrentIsCurrent DEF MarkersInv
<1> QED BY <1>1, <1>2, <1>3

(* The variables keep their types; in particular the children of a         *)
(* diagnostic are older than it, so that no tree has a cycle.              *)
THEOREM MarkersTypeCorrect == Spec => []TypeOK
<1> QED BY MarkersInvariant, InvImpliesMarkers, PTL

(* The label of a diagnostic is that of its worst leaf, after any sequence *)
(* of merges and recomputed severities of shared objects.                  *)
THEOREM LabelsCorrect == Spec => []LabelIsWorstLeaf
<1> QED BY MarkersInvariant, InvImpliesMarkers, PTL

(* The problem manager shows the problems of the diagnostics last set for  *)
(* a model, all of them and nothing else.                                  *)
THEOREM MarkersCurrent == Spec => []MarkersAreCurrent
<1> QED BY MarkersInvariant, InvImpliesMarkers, PTL
==============================================================================
