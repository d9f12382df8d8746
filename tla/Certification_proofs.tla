-------------------------- MODULE Certification_proofs --------------------------
(***************************************************************************)
(* Proofs about the certification report.  What a lane holds is a function *)
(* of what its runner printed, and no later step touches it; so the        *)
(* properties follow from what collectLane makes of an output that was cut *)
(* off somewhere, and from what settling duplicates makes of the rows.     *)
(***************************************************************************)
EXTENDS Certification, SequenceTheorems, FiniteSetTheorems, FunctionTheorems, TLAPS

-----------------------------------------------------------------------------
(* Sums and tallies *)

(* The sum of the sizes of disjoint sets is the size of their union: a     *)
(* bijection onto each of them makes one onto their union.                 *)
LEMMA SumOfSizes ==
  ASSUME NEW I, NEW sets, NEW parts,
         parts = [x \in I |-> Cardinality(sets[x])],
         IsFiniteSet(UNION {sets[x] : x \in I}),
         \A x, y \in I : \A e \in sets[x] : e \in sets[y] => x = y
  PROVE  SumOver(parts) = Cardinality(UNION {sets[x] : x \in I})
<1> DEFINE slots == [x \in I |-> 1..parts[x]]
           b == [x \in I |-> CHOOSE f : f \in Bijection(slots[x], sets[x])]
           U == UNION {sets[x] : x \in I}
           P == UNION {{x} \X slots[x] : x \in I}
           g == [p \in P |-> b[p[1]][p[2]]]
<1>1. ASSUME NEW x \in I
      PROVE  b[x] \in Bijection(slots[x], sets[x])
  <2>1. sets[x] \in SUBSET U
    OBVIOUS
  <2>2. IsFiniteSet(sets[x])
    BY <2>1, FS_Subset
  <2>3. ExistsBijection(1..Cardinality(sets[x]), sets[x])
    BY <2>2, FS_CardinalityType
  <2>4. slots[x] = 1..Cardinality(sets[x])
    OBVIOUS
  <2>5. \E f : f \in Bijection(slots[x], sets[x])
    BY <2>3, <2>4 DEF ExistsBijection
  <2>6. QED
    BY <2>5
<1>2. SumOver(parts) = Cardinality(P)
  BY DEF SumOver
<1> HIDE DEF slots, b
<1>3. ASSUME NEW x \in I
      PROVE  /\ \A i \in slots[x] : b[x][i] \in sets[x]
             /\ \A i, j \in slots[x] : b[x][i] = b[x][j] => i = j
             /\ \A e \in sets[x] : \E i \in slots[x] : b[x][i] = e
  BY <1>1 DEF Bijection, Injection, Surjection, IsInjective
<1>4. ASSUME NEW p \in P
      PROVE  \E x \in I : \E i \in slots[x] : p = <<x, i>>
  OBVIOUS
<1>5. ASSUME NEW x \in I, NEW i \in slots[x]
      PROVE  <<x, i>> \in P /\ g[<<x, i>>] = b[x][i]
  OBVIOUS
<1> HIDE DEF P
<1>6. g \in [P -> U]
  <2>1. ASSUME NEW p \in P PROVE b[p[1]][p[2]] \in U
    BY <1>3, <1>4
  <2>2. QED
    BY <2>1
<1> HIDE DEF g
<1>7. \A p, q \in P : g[p] = g[q] => p = q
  <2> SUFFICES ASSUME NEW p \in P, NEW q \in P, g[p] = g[q] PROVE p = q
    OBVIOUS
  <2>1. PICK x \in I : \E i \in slots[x] : p = <<x, i>>
    BY <1>4
  <2>2. PICK i \in slots[x] : p = <<x, i>>
    BY <2>1
  <2>3. PICK y \in I : \E j \in slots[y] : q = <<y, j>>
    BY <1>4
  <2>4. PICK j \in slots[y] : q = <<y, j>>
    BY <2>3
  <2>5. b[x][i] = b[y][j]
    BY <2>2, <2>4, <1>5
  <2>6. x = y
    BY <2>5, <1>3
  <2>7. QED
    BY <2>2, <2>4, <2>5, <2>6, <1>3
<1>8. \A e \in U : \E p \in P : g[p] = e
  <2> SUFFICES ASSUME NEW x \in I, NEW e \in sets[x] PROVE \E p \in P : g[p] = e
    OBVIOUS
  <2>1. PICK i \in slots[x] : b[x][i] = e
    BY <1>3
  <2>2. QED
    BY <2>1, <1>5
<1>9. IsFiniteSet(U)
  OBVIOUS
<1> HIDE DEF U
<1>10. g \in Bijection(P, U)
  BY <1>6, <1>7, <1>8, Fun_IsBij
<1>11. ExistsBijection(P, U)
  BY <1>10 DEF ExistsBijection
<1>12. QED
  BY <1>2, <1>9, <1>11, Fun_ExistsBijSymmetric, FS_Bijection DEF U

Results == {"PASS", "FAIL", "NOT-TESTED"}

LEMMA TalliesBalance ==
  ASSUME NEW rows, IsFiniteSet(rows), \A row \in rows : row.result \in Results
  PROVE  Balanced(Tally(rows))
<1> DEFINE A == {row \in rows : row.result = "PASS"}
           B == {row \in rows : row.result = "FAIL"}
           C == {row \in rows : row.result = "NOT-TESTED"}
<1>1. A \in SUBSET rows /\ B \in SUBSET rows /\ C \in SUBSET rows
  OBVIOUS
<1>2. rows = A \cup B \cup C /\ A \cap B = {} /\ (A \cup B) \cap C = {}
  BY DEF Results
<1> HIDE DEF A, B, C
<1>3. IsFiniteSet(A) /\ IsFiniteSet(B) /\ IsFiniteSet(C)
  BY <1>1, FS_Subset
<1>4. Cardinality({}) = 0
  BY FS_EmptySet
<1>5. IsFiniteSet(A \cup B) /\ Cardinality(A \cup B) = Cardinality(A) + Cardinality(B) - 0
  BY <1>2, <1>3, <1>4, FS_Union
<1>6. Cardinality(rows) = Cardinality(A \cup B) + Cardinality(C) - 0
  BY <1>2, <1>3, <1>4, <1>5, FS_Union
<1>7. Cardinality(A) \in Nat /\ Cardinality(B) \in Nat /\ Cardinality(C) \in Nat
  BY <1>3, FS_CardinalityType
<1>8. Cardinality(rows) = Cardinality(A) + Cardinality(B) + Cardinality(C)
  BY <1>5, <1>6, <1>7
<1>9. QED
  BY <1>8 DEF Balanced, Tally, A, B, C

(* The values of a function on a finite set are finitely many. *)
LEMMA ImageFinite ==
  ASSUME NEW S, IsFiniteSet(S), NEW f
  PROVE  IsFiniteSet({f[x] : x \in S})
<1> DEFINE g == [x \in S |-> f[x]]
<1>1. g \in Surjection(S, {f[x] : x \in S})
  BY DEF Surjection
<1>2. QED
  BY <1>1, FS_Surjection

(* A set of numbers has a least one. *)
LEMMA LeastOf ==
  ASSUME NEW T, T \subseteq Nat, T /= {}
  PROVE  Min(T) \in T
<1> DEFINE R == StrictSubsetOrdering(Nat)
           Initials == {0..n : n \in T}
<1>1. Initials \subseteq FiniteSubsetsOf(Nat) /\ Initials /= {}
  <2>1. \A n \in T : 0..n \subseteq Nat /\ IsFiniteSet(0..n)
    BY FS_Interval
  <2>2. QED
    BY <2>1 DEF FiniteSubsetsOf
<1>2. IsWellFoundedOn(R, FiniteSubsetsOf(Nat))
  BY FS_StrictSubsetOrderingWellFounded
<1>3. \A x, y \in T : y < x => <<0..y, 0..x>> \in R
  <2> SUFFICES ASSUME NEW x \in T, NEW y \in T, y < x PROVE <<0..y, 0..x>> \in R
    OBVIOUS
  <2>1. 0..y \subseteq 0..x /\ x \in 0..x /\ x \notin 0..y /\ 0..x \subseteq Nat
    OBVIOUS
  <2>2. QED
    BY <2>1 DEF StrictSubsetOrdering
<1> HIDE DEF R, Initials
<1>4. PICK I \in Initials : \A J \in Initials : <<J, I>> \notin R
  BY <1>1, <1>2, WFMin
<1>5. PICK x \in T : I = 0..x
  BY DEF Initials
<1>6. \A y \in T : 0..y \in Initials
  BY DEF Initials
<1>7. \A y \in T : ~(y < x)
  BY <1>3, <1>4, <1>5, <1>6
<1>8. \A y \in T : x <= y
  BY <1>7
<1>9. QED
  BY <1>8 DEF Min

-----------------------------------------------------------------------------
(* What a runner prints *)

SuiteOk(suite) ==
    /\ suite.tests \in Seq([name : Names, fate : Fates])
    /\ suite.printed \in Seq(CountLines)
    /\ suite.dies \in BOOLEAN

(* The points are the tests, and the file itself if the process dies. *)
LEMMA PointsAre ==
  ASSUME NEW suite, SuiteOk(suite)
  PROVE  /\ Len(suite.tests) \in Nat /\ DOMAIN suite.tests = 1..Len(suite.tests)
         /\ Len(Points(suite)) = Len(suite.tests) + (IF suite.dies THEN 1 ELSE 0)
         /\ \A i \in 1..Len(suite.tests) :
               /\ Points(suite)[i] = suite.tests[i]
               /\ suite.tests[i] \in [name : Names, fate : Fates]
         /\ suite.dies => Points(suite)[Len(Points(suite))] = [name |-> "file", fate |-> "exit"]
<1> DEFINE T == [name : Names \cup {"file"}, fate : Fates \cup {"exit"}]
           last == [name |-> "file", fate |-> "exit"]
<1>1. suite.tests \in Seq(T) /\ last \in T
  <2>1. suite.tests \in Seq([name : Names, fate : Fates]) /\ [name : Names, fate : Fates] \subseteq T
    BY DEF SuiteOk
  <2> HIDE DEF T
  <2>2. suite.tests \in Seq(T)
    BY <2>1, SeqMonotonic
  <2>3. QED
    BY <2>2 DEF T
<1>0. /\ Len(suite.tests) \in Nat /\ DOMAIN suite.tests = 1..Len(suite.tests)
      /\ \A i \in 1..Len(suite.tests) : suite.tests[i] \in [name : Names, fate : Fates]
  <2> DEFINE ts == suite.tests
             S == [name : Names, fate : Fates]
  <2>1. ts \in Seq(S)
    BY DEF SuiteOk
  <2> HIDE DEF ts, S
  <2>2. Len(ts) \in Nat /\ DOMAIN ts = 1..Len(ts) /\ ts \in [1..Len(ts) -> S]
    BY <2>1, LenProperties
  <2>3. QED
    BY <2>2 DEF ts, S
<1> HIDE DEF T, last
<1>2. /\ Len(Append(suite.tests, last)) = Len(suite.tests) + 1
      /\ \A i \in 1..Len(suite.tests) : Append(suite.tests, last)[i] = suite.tests[i]
      /\ Append(suite.tests, last)[Len(suite.tests) + 1] = last
  BY <1>1, AppendProperties
<1>3. QED
  <2>1. CASE suite.dies
    BY <1>0, <1>2, <2>1 DEF Points, last
  <2>2. CASE ~suite.dies
    BY <1>0, <2>2 DEF Points
  <2>3. QED
    BY <2>1, <2>2 DEF SuiteOk

LEMMA PointAt ==
  ASSUME NEW suite, SuiteOk(suite)
  PROVE  /\ \A i \in DOMAIN suite.tests :
               /\ i \in 1..Len(Points(suite)) /\ Points(suite)[i] = suite.tests[i]
               /\ suite.tests[i].name \in Names
         /\ \A j \in 1..Len(Points(suite)) :
               Points(suite)[j].name \in Names => j \in DOMAIN suite.tests
<1> DEFINE ts == suite.tests
           n == Len(Points(suite))
           m == Len(suite.tests)
           pts == Points(suite)
           dies == suite.dies
<1>1. /\ m \in Nat /\ DOMAIN ts = 1..m
      /\ \A i \in 1..m : pts[i] = ts[i] /\ ts[i] \in [name : Names, fate : Fates]
      /\ n = m + (IF dies THEN 1 ELSE 0)
  BY PointsAre
<1>2. dies => pts[n].name = "file"
  <2>1. dies => pts[n] = [name |-> "file", fate |-> "exit"]
    BY PointsAre
  <2> HIDE DEF dies, pts, n
  <2>2. QED
    BY <2>1
<1> HIDE DEF ts, n, m, pts, dies
<1>3. ASSUME NEW i \in DOMAIN ts
      PROVE  i \in 1..n /\ pts[i] = ts[i] /\ ts[i].name \in Names
  <2>1. i \in 1..m
    BY <1>1
  <2>2. ts[i] \in [name : Names, fate : Fates] /\ pts[i] = ts[i]
    BY <1>1, <2>1
  <2>3. i \in 1..n
    BY <1>1, <2>1
  <2>4. QED
    BY <2>2, <2>3
<1>4. ASSUME NEW j \in 1..n, pts[j].name \in Names
      PROVE  j \in DOMAIN ts
  <2>1. CASE dies
    <3>1. j /= n
      BY <1>2, <1>4, <2>1, SuiteAssumption
    <3>2. QED
      BY <1>1, <2>1, <3>1
  <2>2. CASE ~dies
    BY <1>1, <2>2
  <2>3. QED
    BY <2>1, <2>2
<1>5. QED
  BY <1>3, <1>4 DEF ts, n, pts

(* Where the lines of a run are: first what the tests print themselves,    *)
(* then two lines for every point, then the plan and the counters.         *)
Before(suite) == Len(suite.printed)
Plan(suite) == Before(suite) + 2 * Len(Points(suite)) + 1

LEMMA OutputIs ==
  ASSUME NEW suite, SuiteOk(suite)
  PROVE  /\ Before(suite) \in Nat /\ Len(Points(suite)) \in Nat
         /\ Len(Output(suite)) = Plan(suite) + 6
         /\ \A p \in 1..Before(suite) : Output(suite)[p].kind = "count"
         /\ \A i \in 1..Len(Points(suite)) :
               /\ Output(suite)[Before(suite) + 2 * i - 1] = TestLine(Points(suite)[i])
               /\ Output(suite)[Before(suite) + 2 * i] = DetailLine(Points(suite)[i])
         /\ Output(suite)[Plan(suite)] = [kind |-> "plan", value |-> Len(Points(suite))]
         /\ \A p \in Plan(suite) + 1..Plan(suite) + 6 : Output(suite)[p].kind = "count"
<1> DEFINE n == Len(Points(suite))
           k == Len(suite.printed)
           a == suite.printed
           b == PointLines(suite)
           c == Totals(suite)
           L == {a[i] : i \in 1..k} \cup {b[i] : i \in 1..2 * n} \cup {c[i] : i \in 1..7}
<1>1. n \in Nat /\ k \in Nat
  BY PointsAre DEF SuiteOk
<1>2. a \in Seq(CountLines) /\ \A p \in 1..k : a[p].kind = "count"
  <2>1. a \in Seq(CountLines)
    BY DEF SuiteOk
  <2> HIDE DEF a
  <2>2. \A p \in 1..Len(a) : a[p] \in CountLines
    BY <2>1, ElementOfSeq
  <2>3. QED
    BY <2>1, <2>2 DEF a, CountLines
<1>3. a \in Seq({a[i] : i \in 1..k})
  BY <1>2
<1>4. b \in Seq({b[i] : i \in 1..2 * n}) /\ Len(b) = 2 * n
  BY <1>1 DEF PointLines
<1>5. c \in Seq({c[i] : i \in 1..7}) /\ Len(c) = 7
  BY DEF Totals
<1>6. c[1] = [kind |-> "plan", value |-> n] /\ \A j \in 2..7 : c[j].kind = "count"
  BY DEF Totals, Counted
<1>7. ASSUME NEW i \in 1..n
      PROVE  b[2 * i - 1] = TestLine(Points(suite)[i]) /\ b[2 * i] = DetailLine(Points(suite)[i])
  <2>1. /\ 2 * i - 1 \in 1..2 * n /\ 2 * i \in 1..2 * n
        /\ (2 * i - 1) % 2 = 1 /\ (2 * i) % 2 = 0
        /\ (2 * i - 1 + 1) \div 2 = i /\ (2 * i) \div 2 = i
    BY <1>1
  <2>2. QED
    BY <2>1 DEF PointLines
<1> HIDE DEF n, k, a, b, c
<1>8. a \in Seq(L) /\ b \in Seq(L) /\ c \in Seq(L)
  <2>1. {a[i] : i \in 1..k} \subseteq L /\ {b[i] : i \in 1..2 * n} \subseteq L
        /\ {c[i] : i \in 1..7} \subseteq L
    OBVIOUS
  <2> HIDE DEF L
  <2>2. QED
    BY <2>1, <1>3, <1>4, <1>5, SeqMonotonic
<1> HIDE DEF L
<1>9. Len(a) = k
  BY DEF a, k
<1>a. Len(a) + Len(b) = k + 2 * n
  BY <1>4, <1>9
<1>10. /\ a \o b \in Seq(L) /\ Len(a \o b) = k + 2 * n
       /\ \A i \in 1..k + 2 * n : (a \o b)[i] = IF i <= k THEN a[i] ELSE b[i - k]
  BY <1>8, <1>9, <1>a, ConcatProperties
<1>b. Len(a \o b) + Len(c) = k + 2 * n + 7
  BY <1>5, <1>10
<1>11. /\ Len(a \o b \o c) = k + 2 * n + 7
       /\ \A i \in 1..k + 2 * n + 7 :
             (a \o b \o c)[i] = IF i <= k + 2 * n THEN (a \o b)[i] ELSE c[i - (k + 2 * n)]
  BY <1>8, <1>10, <1>b, ConcatProperties
<1>12. Output(suite) = a \o b \o c
  BY DEF Output, a, b, c
<1>13. Before(suite) = k /\ Len(Points(suite)) = n /\ Plan(suite) = k + 2 * n + 1
  BY DEF Before, Plan, k, n
<1> DEFINE o == a \o b \o c
<1> HIDE DEF o
<1>14. /\ Len(o) = k + 2 * n + 7
       /\ \A i \in 1..k : o[i] = a[i]
       /\ \A i \in k + 1..k + 2 * n : o[i] = b[i - k]
       /\ \A i \in k + 2 * n + 1..k + 2 * n + 7 : o[i] = c[i - (k + 2 * n)]
  <2> DEFINE m == k + 2 * n
             ab == a \o b
  <2>1. m \in Nat /\ k <= m
    BY <1>1
  <2>2. /\ \A i \in 1..m : ab[i] = IF i <= k THEN a[i] ELSE b[i - k]
        /\ \A i \in 1..m + 7 : o[i] = IF i <= m THEN ab[i] ELSE c[i - m]
        /\ Len(o) = m + 7
    BY <1>10, <1>11 DEF o
  <2> HIDE DEF m, ab
  <2>3. /\ \A i \in 1..k : o[i] = a[i]
        /\ \A i \in k + 1..m : o[i] = b[i - k]
        /\ \A i \in m + 1..m + 7 : o[i] = c[i - m]
    BY <1>1, <2>1, <2>2
  <2>4. QED
    BY <2>2, <2>3 DEF m
<1>15. \A p \in 1..k : o[p].kind = "count"
  BY <1>2, <1>14
<1>16. \A i \in 1..n : o[k + 2 * i - 1] = b[2 * i - 1] /\ o[k + 2 * i] = b[2 * i]
  <2> SUFFICES ASSUME NEW i \in 1..n
               PROVE  o[k + 2 * i - 1] = b[2 * i - 1] /\ o[k + 2 * i] = b[2 * i]
    OBVIOUS
  <2>1. /\ k + 2 * i - 1 \in k + 1..k + 2 * n /\ (k + 2 * i - 1) - k = 2 * i - 1
        /\ k + 2 * i \in k + 1..k + 2 * n /\ (k + 2 * i) - k = 2 * i
    BY <1>1
  <2>2. QED
    BY <2>1, <1>14
<1>17. o[k + 2 * n + 1] = c[1]
  BY <1>1, <1>14
<1>18. \A p \in k + 2 * n + 2..k + 2 * n + 7 : o[p].kind = "count"
  BY <1>1, <1>6, <1>14
<1>19. Output(suite) = o
  BY <1>12 DEF o
<1>20. k + 2 * n + 1 + 6 = k + 2 * n + 7 /\ k + 2 * n + 1 + 1 = k + 2 * n + 2
  BY <1>1
<1>21. QED
  BY <1>1, <1>6, <1>7, <1>13, <1>14, <1>15, <1>16, <1>17, <1>18, <1>19, <1>20

-----------------------------------------------------------------------------
(* What of it was seen *)

Cut(suite, seen, stream) ==
    /\ SuiteOk(suite) /\ seen \in 0..Len(Output(suite))
    /\ stream = SubSeq(Output(suite), 1, seen)

LEMMA CutIs ==
  ASSUME NEW suite, NEW seen, NEW stream, Cut(suite, seen, stream)
  PROVE  /\ seen \in Nat /\ seen <= Plan(suite) + 6
         /\ DOMAIN stream = 1..seen
         /\ \A p \in 1..seen : stream[p] = Output(suite)[p]
<1> DEFINE o == Output(suite)
           S == {o[i] : i \in 1..seen}
<1>0. SuiteOk(suite)
  BY DEF Cut
<1>1. Len(o) \in Nat /\ Len(o) = Plan(suite) + 6
  <2>1. Before(suite) \in Nat /\ Len(Points(suite)) \in Nat /\ Len(o) = Plan(suite) + 6
    BY <1>0, OutputIs
  <2>2. QED
    BY <2>1 DEF Plan
<1>2. seen \in Nat /\ seen <= Len(o)
  BY <1>1 DEF Cut
<1>3. \A i \in 1..seen : o[i] \in S
  OBVIOUS
<1>4. stream = SubSeq(o, 1, seen)
  BY DEF Cut
<1> HIDE DEF o, S
<1>5. /\ SubSeq(o, 1, seen) \in Seq(S)
      /\ Len(SubSeq(o, 1, seen)) = IF 1 <= seen THEN seen - 1 + 1 ELSE 0
      /\ \A i \in 1..seen - 1 + 1 : SubSeq(o, 1, seen)[i] = o[1 + i - 1]
  BY <1>2, <1>3, SubSeqProperties
<1>6. Len(stream) = seen /\ DOMAIN stream = 1..seen
  <2>1. DOMAIN stream = 1..Len(stream)
    BY <1>4, <1>5, LenProperties
  <2>2. QED
    BY <2>1, <1>2, <1>4, <1>5
<1>7. \A i \in 1..seen : stream[i] = o[i]
  <2> SUFFICES ASSUME NEW i \in 1..seen PROVE stream[i] = o[i]
    OBVIOUS
  <2>1. 1 + i - 1 = i /\ i \in 1..seen - 1 + 1
    BY <1>2
  <2>2. QED
    BY <2>1, <1>4, <1>5
<1>8. QED
  BY <1>1, <1>2, <1>6, <1>7 DEF o

(* Every line but a counter belongs to a point, or is the plan. *)
LEMMA LineIs ==
  ASSUME NEW suite, NEW seen, NEW stream, Cut(suite, seen, stream), NEW p \in DOMAIN stream
  PROVE  \/ stream[p].kind = "count"
         \/ stream[p].kind = "plan" /\ p = Plan(suite) /\ stream[p].value = Len(Points(suite))
         \/ \E i \in 1..Len(Points(suite)) :
               \/ p = Before(suite) + 2 * i - 1 /\ stream[p] = TestLine(Points(suite)[i])
               \/ p = Before(suite) + 2 * i /\ stream[p] = DetailLine(Points(suite)[i])
<1> DEFINE n == Len(Points(suite))
           k == Before(suite)
           m == Plan(suite)
           o == Output(suite)
<1>0. SuiteOk(suite)
  BY DEF Cut
<1>1. p \in 1..m + 6 /\ stream[p] = o[p]
  <2>0. seen \in Nat /\ seen <= m + 6 /\ DOMAIN stream = 1..seen /\ \A i \in 1..seen : stream[i] = o[i]
    BY CutIs
  <2>1. p \in 1..seen /\ stream[p] = o[p]
    BY <2>0
  <2>2. m \in Nat
    <3>1. Before(suite) \in Nat /\ Len(Points(suite)) \in Nat
      BY <1>0, OutputIs
    <3>2. QED
      BY <3>1 DEF Plan
  <2> HIDE DEF m
  <2>3. QED
    BY <2>0, <2>1, <2>2
<1>2. k \in Nat /\ n \in Nat /\ m = k + 2 * n + 1
  BY <1>0, OutputIs DEF Plan
<1>3. /\ \A i \in 1..k : o[i].kind = "count"
      /\ \A i \in 1..n : o[k + 2 * i - 1] = TestLine(Points(suite)[i])
      /\ \A i \in 1..n : o[k + 2 * i] = DetailLine(Points(suite)[i])
      /\ o[m] = [kind |-> "plan", value |-> n]
      /\ \A i \in m + 1..m + 6 : o[i].kind = "count"
  BY <1>0, OutputIs
<1> HIDE DEF n, k, m, o
<1>4. CASE p <= k
  BY <1>1, <1>2, <1>3, <1>4
<1>5. CASE p > k /\ p < m
  <2>1. PICK i \in Nat : p - k + 1 = 2 * i \/ p - k + 1 = 2 * i + 1
    <3> DEFINE d == p - k + 1
    <3>1. d \in Nat
      BY <1>1, <1>2, <1>5
    <3> HIDE DEF d
    <3>2. d \div 2 \in Nat /\ (d = 2 * (d \div 2) \/ d = 2 * (d \div 2) + 1)
      BY <3>1
    <3>3. QED
      BY <3>2 DEF d
  <2>2. i \in 1..n /\ (p = k + 2 * i - 1 \/ p = k + 2 * i)
    BY <1>1, <1>2, <1>5, <2>1
  <2>3. QED
    BY <2>2, <1>1, <1>3 DEF n, k
<1>6. CASE p = m
  BY <1>1, <1>3, <1>6 DEF n, m
<1>7. CASE p > m
  <2>1. p \in m + 1..m + 6
    BY <1>1, <1>2, <1>7
  <2>2. QED
    BY <2>1, <1>1, <1>3
<1>8. QED
  BY <1>1, <1>2, <1>4, <1>5, <1>6, <1>7

LEMMA TestLinesAt ==
  ASSUME NEW suite, NEW seen, NEW stream, Cut(suite, seen, stream)
  PROVE  /\ \A p \in PositionsOf("test", stream) :
               \E i \in 1..Len(Points(suite)) :
                  p = Before(suite) + 2 * i - 1 /\ stream[p] = TestLine(Points(suite)[i])
         /\ \A i \in 1..Len(Points(suite)) : Before(suite) + 2 * i - 1 <= seen =>
               Before(suite) + 2 * i - 1 \in PositionsOf("test", stream)
<1>1. ASSUME NEW p \in PositionsOf("test", stream)
      PROVE  \E i \in 1..Len(Points(suite)) :
                p = Before(suite) + 2 * i - 1 /\ stream[p] = TestLine(Points(suite)[i])
  <2>1. p \in DOMAIN stream /\ stream[p].kind = "test"
    BY DEF PositionsOf
  <2>2. PICK i \in 1..Len(Points(suite)) :
           \/ p = Before(suite) + 2 * i - 1 /\ stream[p] = TestLine(Points(suite)[i])
           \/ p = Before(suite) + 2 * i /\ stream[p] = DetailLine(Points(suite)[i])
    BY <2>1, LineIs
  <2>3. DetailLine(Points(suite)[i]).kind /= "test"
    BY DEF DetailLine
  <2>4. QED
    BY <2>1, <2>2, <2>3
<1>2. ASSUME NEW i \in 1..Len(Points(suite)), Before(suite) + 2 * i - 1 <= seen
      PROVE  Before(suite) + 2 * i - 1 \in PositionsOf("test", stream)
  <2>0. SuiteOk(suite)
    BY DEF Cut
  <2>1. Before(suite) + 2 * i - 1 \in 1..seen
    <3>1. Before(suite) \in Nat /\ Len(Points(suite)) \in Nat /\ seen \in Nat
      BY <2>0, CutIs, OutputIs
    <3>2. QED
      BY <1>2, <3>1
  <2>2. DOMAIN stream = 1..seen /\ \A p \in 1..seen : stream[p] = Output(suite)[p]
    BY CutIs
  <2>3. Output(suite)[Before(suite) + 2 * i - 1] = TestLine(Points(suite)[i])
    BY <2>0, OutputIs
  <2>4. stream[Before(suite) + 2 * i - 1].kind = "test"
    BY <2>1, <2>2, <2>3 DEF TestLine
  <2>5. QED
    BY <2>1, <2>2, <2>4 DEF PositionsOf
<1>3. QED
  BY <1>1, <1>2

LEMMA DetailsAt ==
  ASSUME NEW suite, NEW seen, NEW stream, Cut(suite, seen, stream)
  PROVE  /\ \A q \in PositionsOf("timedOut", stream) :
               \E i \in 1..Len(Points(suite)) :
                  q = Before(suite) + 2 * i /\ Points(suite)[i].fate = "timeout"
         /\ \A q \in PositionsOf("exitCode", stream) :
               \E i \in 1..Len(Points(suite)) :
                  q = Before(suite) + 2 * i /\ Points(suite)[i].fate = "exit"
         /\ \A i \in 1..Len(Points(suite)) :
               Points(suite)[i].fate = "exit" /\ Before(suite) + 2 * i <= seen =>
                  PositionsOf("exitCode", stream) /= {}
<1>2. ASSUME NEW q \in PositionsOf("timedOut", stream)
      PROVE  \E i \in 1..Len(Points(suite)) :
                q = Before(suite) + 2 * i /\ Points(suite)[i].fate = "timeout"
  <2>1. q \in DOMAIN stream /\ stream[q].kind = "timedOut"
    BY DEF PositionsOf
  <2>2. PICK i \in 1..Len(Points(suite)) :
           \/ q = Before(suite) + 2 * i - 1 /\ stream[q] = TestLine(Points(suite)[i])
           \/ q = Before(suite) + 2 * i /\ stream[q] = DetailLine(Points(suite)[i])
    BY <2>1, LineIs
  <2>3. TestLine(Points(suite)[i]).kind = "test"
    BY DEF TestLine
  <2>4. DetailLine(Points(suite)[i]).kind = "timedOut" => Points(suite)[i].fate = "timeout"
    BY DEF DetailLine
  <2>5. QED
    BY <2>1, <2>2, <2>3, <2>4
<1>3. ASSUME NEW q \in PositionsOf("exitCode", stream)
      PROVE  \E i \in 1..Len(Points(suite)) :
                q = Before(suite) + 2 * i /\ Points(suite)[i].fate = "exit"
  <2>1. q \in DOMAIN stream /\ stream[q].kind = "exitCode"
    BY DEF PositionsOf
  <2>2. PICK i \in 1..Len(Points(suite)) :
           \/ q = Before(suite) + 2 * i - 1 /\ stream[q] = TestLine(Points(suite)[i])
           \/ q = Before(suite) + 2 * i /\ stream[q] = DetailLine(Points(suite)[i])
    BY <2>1, LineIs
  <2>3. TestLine(Points(suite)[i]).kind = "test"
    BY DEF TestLine
  <2>4. DetailLine(Points(suite)[i]).kind = "exitCode" => Points(suite)[i].fate = "exit"
    BY DEF DetailLine
  <2>5. QED
    BY <2>1, <2>2, <2>3, <2>4
<1>4. ASSUME NEW i \in 1..Len(Points(suite)), Points(suite)[i].fate = "exit",
             Before(suite) + 2 * i <= seen
      PROVE  PositionsOf("exitCode", stream) /= {}
  <2>0. SuiteOk(suite)
    BY DEF Cut
  <2>1. Before(suite) + 2 * i \in 1..seen
    <3>1. Before(suite) \in Nat /\ Len(Points(suite)) \in Nat /\ seen \in Nat
      BY <2>0, CutIs, OutputIs
    <3>2. QED
      BY <1>4, <3>1
  <2>2. DOMAIN stream = 1..seen /\ \A p \in 1..seen : stream[p] = Output(suite)[p]
    BY CutIs
  <2>3. Output(suite)[Before(suite) + 2 * i] = DetailLine(Points(suite)[i])
    BY <2>0, OutputIs
  <2>4. stream[Before(suite) + 2 * i].kind = "exitCode"
    BY <1>4, <2>1, <2>2, <2>3 DEF DetailLine
  <2>5. QED
    BY <2>1, <2>2, <2>4 DEF PositionsOf
<1>5. QED
  BY <1>2, <1>3, <1>4

-----------------------------------------------------------------------------
(* What collectLane makes of it *)

LEMMA NothingWrong ==
  ASSUME NEW stream, NEW declared, NEW exit, CollapseCode(stream, declared, exit) = Null
  PROVE  \A i \in 1..5 : ~Problem(CollapsePriority[i], stream, declared, exit)
<1> DEFINE problems == {i \in DOMAIN CollapsePriority :
                           Problem(CollapsePriority[i], stream, declared, exit)}
<1>1. DOMAIN CollapsePriority = 1..5
  BY DEF CollapsePriority
<1>2. SUFFICES ASSUME problems /= {} PROVE FALSE
  BY <1>1
<1>3. CollapsePriority[Min(problems)] = Null
  BY <1>2 DEF CollapseCode
<1>4. problems \subseteq 1..5
  BY <1>1
<1> HIDE DEF problems
<1>5. Min(problems) \in 1..5
  <2>1. problems \subseteq Nat
    BY <1>4
  <2>2. Min(problems) \in problems
    BY <1>2, <2>1, LeastOf
  <2>3. QED
    BY <1>4, <2>2
<1> DEFINE m == Min(problems)
<1> HIDE DEF m
<1>6. m \in 1..5 /\ CollapsePriority[m] = Null
  BY <1>3, <1>5 DEF m
<1>7. CollapsePriority[m] \in
         {"LANE_OUTPUT_EMPTY", "LANE_MALFORMED_OUTPUT", "LANE_COUNT_MISMATCH",
          "LANE_UNCOLLECTABLE", "LANE_EMPTY"}
  BY <1>6 DEF CollapsePriority
<1>8. QED
  BY <1>6, <1>7, NullAssumption

(* A lane that is not collapsed comes of a run that was seen up to its     *)
(* plan, did not die and had the declared number of tests.                 *)
LEMMA CleanRun ==
  ASSUME NEW suite, NEW seen, NEW stream, Cut(suite, seen, stream),
         NEW declared, NEW exit, CollapseCode(stream, declared, exit) = Null
  PROVE  /\ Plan(suite) <= seen /\ ~suite.dies
         /\ Len(suite.tests) = declared /\ Len(Points(suite)) = declared
<1>0. SuiteOk(suite)
  BY DEF Cut
<1>1. /\ ~Problem("LANE_MALFORMED_OUTPUT", stream, declared, exit)
      /\ ~Problem("LANE_COUNT_MISMATCH", stream, declared, exit)
  BY NothingWrong DEF CollapsePriority
<1>2. /\ WellFormed(stream) /\ PositionsOf("exitCode", stream) = {}
      /\ Summary(stream, "tests") = declared
  BY <1>1 DEF Problem
<1>3. PICK p \in PositionsOf("plan", stream) : stream[p].value = declared
  BY <1>2 DEF WellFormed
<1>4. p \in DOMAIN stream /\ stream[p].kind = "plan"
  BY DEF PositionsOf
<1>5. p = Plan(suite) /\ stream[p].value = Len(Points(suite))
  <2>1. ASSUME NEW i \in 1..Len(Points(suite))
        PROVE  stream[p] /= TestLine(Points(suite)[i]) /\ stream[p] /= DetailLine(Points(suite)[i])
    BY <1>4 DEF TestLine, DetailLine
  <2>2. QED
    BY <1>4, <2>1, LineIs
<1>6. Plan(suite) <= seen /\ seen \in Nat
  <2>1. DOMAIN stream = 1..seen /\ seen \in Nat
    BY CutIs
  <2>2. QED
    BY <1>4, <1>5, <2>1
<1>7. ~suite.dies
  <2> SUFFICES ASSUME suite.dies PROVE FALSE
    OBVIOUS
  <2> DEFINE n == Len(Points(suite))
  <2>0. /\ Len(suite.tests) \in Nat /\ n = Len(suite.tests) + (IF suite.dies THEN 1 ELSE 0)
        /\ Points(suite)[n] = [name |-> "file", fate |-> "exit"]
    BY <1>0, PointsAre
  <2>1. n = Len(suite.tests) + 1 /\ Points(suite)[n].fate = "exit" /\ Len(suite.tests) \in Nat
    BY <2>0
  <2>2. Before(suite) \in Nat
    BY <1>0, OutputIs
  <2>3. n \in 1..n /\ Before(suite) + 2 * n <= seen
    BY <1>6, <2>1, <2>2 DEF Plan
  <2>4. PositionsOf("exitCode", stream) /= {}
    BY <2>1, <2>3, DetailsAt
  <2>5. QED
    BY <1>2, <2>4
<1>8. Len(Points(suite)) = Len(suite.tests) /\ Len(suite.tests) = declared
  BY <1>3, <1>5, <1>7 DEF Points
<1>9. QED
  BY <1>6, <1>7, <1>8

IsRow(row) == {"testId", "result", "reasonCode"} \subseteq DOMAIN row

(* Every row of a test is of that test; a PASS is one that reads like one. *)
LEMMA RowIs ==
  ASSUME NEW outcome, NEW lane
  PROVE  /\ \E result, code : RowFor(outcome, lane) =
               Row(lane.file, outcome.name, lane.category, result, code)
         /\ IsRow(RowFor(outcome, lane))
         /\ RowFor(outcome, lane).testId = <<lane.file, outcome.name>>
         /\ RowFor(outcome, lane).result \in Results
         /\ RowFor(outcome, lane).result = "PASS" =>
               /\ outcome.directive = Null /\ outcome.ok
               /\ RowFor(outcome, lane).reasonCode /= Null
         /\ /\ outcome.directive = Null /\ ~outcome.ok
            /\ ~outcome.fileLevel /\ ~outcome.timedOut
            => RowFor(outcome, lane).result = "FAIL"
<1>1. CASE outcome.directive /= Null
  BY <1>1 DEF RowFor, Row, Results, IsRow
<1>2. CASE outcome.directive = Null /\ outcome.fileLevel
  BY <1>2 DEF RowFor, Row, Results, IsRow
<1>3. CASE outcome.directive = Null /\ ~outcome.fileLevel /\ outcome.timedOut
  BY <1>3 DEF RowFor, Row, Results, IsRow
<1>4. CASE outcome.directive = Null /\ ~outcome.fileLevel /\ ~outcome.timedOut
  BY <1>4, NullAssumption DEF RowFor, Row, Results, IsRow
<1>5. QED
  BY <1>1, <1>2, <1>3, <1>4

(* The only test that reads like a pass is one that passed. *)
LEMMA PassedLine ==
  ASSUME NEW point, TestLine(point).ok, TestLine(point).directive = Null
  PROVE  point.fate = "ok"
BY NullAssumption DEF TestLine

(* A failure reads like nothing else: no detail of another point is taken  *)
(* for its own.                                                            *)
LEMMA FailedLine ==
  ASSUME NEW suite, NEW seen, NEW stream, Cut(suite, seen, stream), NEW lane,
         NEW i \in 1..Len(Points(suite)), Points(suite)[i].fate = "fail",
         Before(suite) + 2 * i - 1 <= seen
  PROVE  RowFor(Outcome(stream, Before(suite) + 2 * i - 1), lane).result = "FAIL"
<1> DEFINE n == Len(Points(suite))
           k == Before(suite)
           p == k + 2 * i - 1
<1>0. SuiteOk(suite)
  BY DEF Cut
<1>1. k \in Nat /\ n \in Nat /\ seen \in Nat /\ DOMAIN stream = 1..seen
  BY <1>0, CutIs, OutputIs
<1>2. ASSUME NEW j \in 1..n, k + 2 * j \in 1..seen, p < k + 2 * j,
             \A t \in PositionsOf("test", stream) : t <= p \/ t > k + 2 * j
      PROVE  i = j
  <2>1. k + 2 * j - 1 <= seen
    <3> HIDE DEF k, n
    <3>1. QED
      BY <1>1, <1>2
  <2>2. k + 2 * j - 1 \in PositionsOf("test", stream)
    BY <2>1, TestLinesAt
  <2>3. k + 2 * j - 1 <= k + 2 * i - 1 \/ k + 2 * j - 1 > k + 2 * j
    BY <1>2, <2>2
  <2>4. k + 2 * i - 1 < k + 2 * j
    BY <1>2
  <2> HIDE DEF k, n
  <2>5. k \in Nat /\ i \in 1..n /\ j \in 1..n /\ n \in Nat
    BY <1>1 DEF n
  <2>6. QED
    BY <2>3, <2>4, <2>5
<1>3. ASSUME NEW kind \in {"exitCode", "timedOut"}
      PROVE  ~HasDetail(stream, p, kind)
  <2> SUFFICES ASSUME HasDetail(stream, p, kind) PROVE FALSE
    OBVIOUS
  <2>1. PICK q \in PositionsOf(kind, stream) :
           p < q /\ \A t \in PositionsOf("test", stream) : t <= p \/ t > q
    BY DEF HasDetail
  <2>2. PICK j \in 1..n : q = k + 2 * j /\ Points(suite)[j].fate \in {"exit", "timeout"}
    <3>1. CASE kind = "exitCode"
      BY <3>1, DetailsAt
    <3>2. CASE kind = "timedOut"
      BY <3>2, DetailsAt
    <3>3. QED
      BY <3>1, <3>2
  <2>3. q \in 1..seen
    BY <1>1 DEF PositionsOf
  <2>4. i = j
    BY <1>2, <2>1, <2>2, <2>3
  <2>5. QED
    BY <2>2, <2>4
<1>4. p \in 1..seen
  BY <1>1
<1>5. stream[p] = TestLine(Points(suite)[i])
  <2>1. Output(suite)[p] = TestLine(Points(suite)[i])
    BY <1>0, OutputIs
  <2>2. \A q \in 1..seen : stream[q] = Output(suite)[q]
    BY CutIs
  <2>3. QED
    BY <1>4, <2>1, <2>2
<1> HIDE DEF p
<1>6. stream[p].directive = Null /\ ~stream[p].ok
  <2> DEFINE point == Points(suite)[i]
  <2>1. point.fate = "fail"
    OBVIOUS
  <2> HIDE DEF point
  <2>2. TestLine(point).directive = Null /\ ~TestLine(point).ok
    BY <2>1 DEF TestLine
  <2>3. QED
    BY <1>5, <2>2 DEF point
<1>7. /\ Outcome(stream, p).directive = Null /\ ~Outcome(stream, p).ok
      /\ ~Outcome(stream, p).fileLevel /\ ~Outcome(stream, p).timedOut
  BY <1>3, <1>6 DEF Outcome
<1>8. QED
  BY <1>7, RowIs DEF p, k

(* A row that is withheld is the same row, without its verdict. *)
LEMMA WithheldIs ==
  ASSUME NEW outcome, NEW lane
  PROVE  LET row == RowFor(outcome, lane) IN
         /\ IsRow(Withheld(row)) /\ Withheld(row).testId = row.testId
         /\ Withheld(row).result \in Results \ {"PASS"}
         /\ row.result = "FAIL" => Withheld(row).result = "FAIL"
<1> DEFINE row == RowFor(outcome, lane)
<1>1. PICK result, code : row = Row(lane.file, outcome.name, lane.category, result, code)
  BY RowIs
<1>2. row.result \in Results /\ IsRow(row)
  BY RowIs
<1> HIDE DEF row
<1>3. CASE row.result = "PASS"
  <2>1. Withheld(row) = [row EXCEPT !.result = "NOT-TESTED",
                                    !.reasonCode = "LANE_COLLAPSE_PASS_WITHHELD"]
    BY <1>3 DEF Withheld
  <2>2. /\ Withheld(row).testId = row.testId /\ Withheld(row).result = "NOT-TESTED"
        /\ IsRow(Withheld(row))
    BY <1>1, <2>1 DEF Row, IsRow
  <2>3. QED
    BY <1>3, <2>2 DEF Results, row
<1>4. CASE row.result /= "PASS"
  BY <1>2, <1>4 DEF Withheld, row
<1>5. QED
  BY <1>3, <1>4

LEMMA CollectIs ==
  ASSUME NEW stream, NEW entry, NEW exit
  PROVE  LET lane == Collect(entry, stream, exit)
             code == CollapseCode(stream, entry.declared, exit)
         IN  \/ /\ PositionsOf("test", stream) = {}
                /\ lane = CollapsedLane(entry.file, entry.category, code)
             \/ /\ PositionsOf("test", stream) /= {}
                /\ lane.laneId = entry.file
                /\ DOMAIN lane.rows = PositionsOf("test", stream)
                /\ \A p \in PositionsOf("test", stream) :
                      lane.rows[p] = IF code = Null THEN RowFor(Outcome(stream, p), entry)
                                     ELSE Withheld(RowFor(Outcome(stream, p), entry))
<1> DEFINE code == CollapseCode(stream, entry.declared, exit)
           P == PositionsOf("test", stream)
           lane == Collect(entry, stream, exit)
           rows == [p \in P |-> RowFor(Outcome(stream, p), entry)]
<1>1. DOMAIN Outcomes(stream) = P /\ \A p \in P : Outcomes(stream)[p] = Outcome(stream, p)
  BY DEF Outcomes
<1>2. rows = [p \in DOMAIN Outcomes(stream) |-> RowFor(Outcomes(stream)[p], entry)]
  BY <1>1
<1>3. DOMAIN rows = P /\ \A p \in P : rows[p] = RowFor(Outcome(stream, p), entry)
  OBVIOUS
<1>4. lane = IF code = Null THEN Lane(entry.file, rows, Null)
             ELSE IF DOMAIN rows = {} THEN CollapsedLane(entry.file, entry.category, code)
             ELSE Lane(entry.file, [p \in DOMAIN rows |-> Withheld(rows[p])], code)
  BY <1>2 DEF Collect
<1>5. code = Null => P /= {}
  <2> SUFFICES ASSUME code = Null PROVE P /= {}
    OBVIOUS
  <2>1. ~Problem(CollapsePriority[5], stream, entry.declared, exit)
    BY NothingWrong
  <2>2. ~Problem("LANE_EMPTY", stream, entry.declared, exit)
    BY <2>1 DEF CollapsePriority
  <2>3. QED
    BY <2>2, <1>1 DEF Problem
<1> HIDE DEF rows, lane, code, P
<1>6. CASE code = Null
  <2>1. lane.laneId = entry.file /\ lane.rows = rows
    BY <1>4, <1>6 DEF Lane
  <2>2. QED
    BY <2>1, <1>3, <1>5, <1>6 DEF lane, code, P
<1>7. CASE code /= Null /\ P = {}
  <2>1. lane = CollapsedLane(entry.file, entry.category, code)
    BY <1>3, <1>4, <1>7
  <2>2. QED
    BY <2>1, <1>7 DEF lane, code, P
<1>8. CASE code /= Null /\ P /= {}
  <2>1. lane = Lane(entry.file, [p \in P |-> Withheld(rows[p])], code)
    BY <1>3, <1>4, <1>8
  <2>2. lane.laneId = entry.file /\ lane.rows = [p \in P |-> Withheld(rows[p])]
    BY <2>1 DEF Lane
  <2>3. DOMAIN lane.rows = P
        /\ \A p \in P : lane.rows[p] = Withheld(RowFor(Outcome(stream, p), entry))
    BY <2>2, <1>3
  <2>4. QED
    BY <2>2, <2>3, <1>8 DEF lane, code, P
<1>9. QED
  BY <1>6, <1>7, <1>8

(* What is true of every lane: it has rows, each of its own file, with a   *)
(* verdict.                                                                *)
LaneGood(lane, file) ==
    /\ lane.laneId = file
    /\ IsFiniteSet(DOMAIN lane.rows) /\ DOMAIN lane.rows /= {} /\ DOMAIN lane.rows \subseteq Nat
    /\ \A r \in DOMAIN lane.rows :
          /\ IsRow(lane.rows[r]) /\ lane.rows[r].testId[1] = file
          /\ lane.rows[r].result \in Results
          /\ lane.rows[r].result = "PASS" => lane.rows[r].reasonCode /= Null

LEMMA CollapsedIs ==
  ASSUME NEW file, NEW category, NEW code
  PROVE  /\ LaneGood(CollapsedLane(file, category, code), file)
         /\ \A r \in DOMAIN CollapsedLane(file, category, code).rows :
               CollapsedLane(file, category, code).rows[r].result = "NOT-TESTED"
<1> DEFINE row == Row(file, "lane", category, "NOT-TESTED", code)
           rows == CollapsedLane(file, category, code).rows
<1>1. CollapsedLane(file, category, code).laneId = file /\ rows = <<row>>
  BY DEF CollapsedLane, Lane
<1>2. row.testId[1] = file /\ row.result = "NOT-TESTED" /\ IsRow(row)
  BY DEF Row, IsRow
<1> HIDE DEF row, rows
<1>3. DOMAIN rows = {1} /\ rows[1] = row
  BY <1>1
<1>4. IsFiniteSet({1})
  BY FS_Singleton
<1>5. QED
  BY <1>1, <1>2, <1>3, <1>4 DEF LaneGood, Results, rows

LEMMA CollectGood ==
  ASSUME NEW suite, NEW seen, NEW stream, Cut(suite, seen, stream), NEW entry, NEW exit
  PROVE  LaneGood(Collect(entry, stream, exit), entry.file)
<1> DEFINE P == PositionsOf("test", stream)
           lane == Collect(entry, stream, exit)
           code == CollapseCode(stream, entry.declared, exit)
<1>1. CASE P = {}
  BY <1>1, CollectIs, CollapsedIs
<1>2. CASE P /= {}
  <2>1. /\ lane.laneId = entry.file /\ DOMAIN lane.rows = P
        /\ \A p \in P : lane.rows[p] = IF code = Null THEN RowFor(Outcome(stream, p), entry)
                                       ELSE Withheld(RowFor(Outcome(stream, p), entry))
    BY <1>2, CollectIs
  <2>2. P \subseteq 1..seen /\ seen \in Nat
    <3>1. DOMAIN stream = 1..seen /\ seen \in Nat
      BY CutIs
    <3>2. QED
      BY <3>1 DEF PositionsOf
  <2>3. IsFiniteSet(P) /\ P \subseteq Nat
    BY <2>2, FS_Interval, FS_Subset
  <2>4. ASSUME NEW p \in P
        PROVE  /\ IsRow(lane.rows[p]) /\ lane.rows[p].testId[1] = entry.file
               /\ lane.rows[p].result \in Results
               /\ lane.rows[p].result = "PASS" => lane.rows[p].reasonCode /= Null
    <3> DEFINE row == RowFor(Outcome(stream, p), entry)
    <3>1. row.testId[1] = entry.file /\ IsRow(row)
      BY RowIs
    <3>2. row.result \in Results /\ (row.result = "PASS" => row.reasonCode /= Null)
      BY RowIs
    <3>3. /\ Withheld(row).testId = row.testId /\ Withheld(row).result \in Results \ {"PASS"}
          /\ IsRow(Withheld(row))
      BY WithheldIs
    <3>4. lane.rows[p] = row \/ lane.rows[p] = Withheld(row)
      BY <2>1
    <3> HIDE DEF row, lane
    <3>5. QED
      BY <3>1, <3>2, <3>3, <3>4
  <2> HIDE DEF lane, P, code
  <2>5. LaneGood(lane, entry.file)
    BY <1>2, <2>1, <2>3, <2>4 DEF LaneGood
  <2>6. QED
    BY <2>5 DEF lane
<1>3. QED
  BY <1>1, <1>2

(* A PASS row that no other row of its lane shares the id of is of the     *)
(* only test of that name, which passed in a run that was seen to its end  *)
(* and had all of the declared tests.                                      *)
LEMMA PassTested ==
  ASSUME NEW suite, NEW seen, NEW stream, Cut(suite, seen, stream), NEW entry, NEW exit,
         NEW r \in DOMAIN Collect(entry, stream, exit).rows,
         Collect(entry, stream, exit).rows[r].result = "PASS",
         \A q \in DOMAIN Collect(entry, stream, exit).rows :
            Collect(entry, stream, exit).rows[q].testId
               = Collect(entry, stream, exit).rows[r].testId => q = r
  PROVE  /\ Len(suite.tests) = entry.declared /\ ~suite.dies
         /\ \E i \in DOMAIN suite.tests :
               /\ suite.tests[i].fate = "ok"
               /\ \A j \in DOMAIN suite.tests :
                     suite.tests[j].name = Collect(entry, stream, exit).rows[r].testId[2] <=> j = i
<1> DEFINE P == PositionsOf("test", stream)
           lane == Collect(entry, stream, exit)
           code == CollapseCode(stream, entry.declared, exit)
           k == Before(suite)
           n == Len(Points(suite))
<1>0. SuiteOk(suite)
  BY DEF Cut
<1>1. DOMAIN lane.rows = P
      /\ \A p \in P : lane.rows[p] = IF code = Null THEN RowFor(Outcome(stream, p), entry)
                                     ELSE Withheld(RowFor(Outcome(stream, p), entry))
  <2>1. P /= {}
    <3> SUFFICES ASSUME P = {} PROVE FALSE
      OBVIOUS
    <3>1. lane = CollapsedLane(entry.file, entry.category, code)
      BY CollectIs
    <3>2. lane.rows[r].result = "NOT-TESTED"
      BY <3>1, CollapsedIs
    <3>3. QED
      BY <3>2
  <2>2. QED
    BY <2>1, CollectIs
<1>2. code = Null /\ r \in P
  <2>1. \A p \in P : Withheld(RowFor(Outcome(stream, p), entry)).result /= "PASS"
    BY WithheldIs
  <2>2. QED
    BY <1>1, <2>1
<1>3. \A p \in P : lane.rows[p] = RowFor(Outcome(stream, p), entry)
  BY <1>1, <1>2
<1>4. /\ Plan(suite) <= seen /\ ~suite.dies
      /\ Len(suite.tests) = entry.declared /\ n = Len(suite.tests)
  BY <1>2, CleanRun
<1>5. /\ k \in Nat /\ n \in Nat /\ seen \in Nat /\ DOMAIN stream = 1..seen
      /\ \A p \in 1..seen : stream[p] = Output(suite)[p]
  <2>1. k \in Nat /\ n \in Nat
    BY <1>0, OutputIs
  <2>2. /\ seen \in Nat /\ DOMAIN stream = 1..seen
        /\ \A p \in 1..seen : stream[p] = Output(suite)[p]
    BY CutIs
  <2>3. QED
    BY <2>1, <2>2
<1>6. ASSUME NEW j \in 1..n
      PROVE  /\ k + 2 * j - 1 \in P
             /\ lane.rows[k + 2 * j - 1].testId = <<entry.file, suite.tests[j].name>>
             /\ stream[k + 2 * j - 1] = TestLine(suite.tests[j])
  <2>1. k + 2 * j - 1 <= seen
    <3>1. Plan(suite) = k + 2 * n + 1
      BY DEF Plan
    <3> HIDE DEF k, n
    <3>2. QED
      BY <3>1, <1>4, <1>5
  <2>2. k + 2 * j - 1 \in P
    BY <2>1, TestLinesAt
  <2>3. stream[k + 2 * j - 1] = Output(suite)[k + 2 * j - 1]
    BY <1>5, <2>2 DEF PositionsOf
  <2>4. Output(suite)[k + 2 * j - 1] = TestLine(Points(suite)[j])
    BY <1>0, OutputIs
  <2>5. Points(suite)[j] = suite.tests[j]
    BY <1>4 DEF Points
  <2>6. Outcome(stream, k + 2 * j - 1).name = suite.tests[j].name
    BY <2>3, <2>4, <2>5 DEF Outcome, TestLine
  <2>7. lane.rows[k + 2 * j - 1].testId = <<entry.file, Outcome(stream, k + 2 * j - 1).name>>
    BY <1>3, <2>2, RowIs
  <2>8. QED
    BY <2>2, <2>3, <2>4, <2>5, <2>6, <2>7
<1>7. PICK i \in 1..n : r = k + 2 * i - 1
  BY <1>2, TestLinesAt
<1>8. suite.tests[i].fate = "ok"
  <2>1. RowFor(Outcome(stream, r), entry).result = "PASS"
    BY <1>2, <1>3
  <2>2. Outcome(stream, r).directive = Null /\ Outcome(stream, r).ok
    BY <2>1, RowIs
  <2>3. stream[r].directive = Null /\ stream[r].ok
    BY <2>2 DEF Outcome
  <2>4. QED
    BY <2>3, <1>6, <1>7, PassedLine
<1>9. DOMAIN suite.tests = 1..n
  BY <1>0, <1>4, PointsAre
<1>10. ASSUME NEW j \in 1..n, suite.tests[j].name = lane.rows[r].testId[2]
       PROVE  j = i
  <2> DEFINE at == k + 2 * j - 1
  <2>0. lane.rows[r].testId = <<entry.file, suite.tests[i].name>>
    BY <1>6, <1>7
  <2>1. lane.rows[at].testId = <<entry.file, suite.tests[j].name>> /\ at \in P
    BY <1>6
  <2> HIDE DEF at
  <2>2. lane.rows[at].testId = lane.rows[r].testId
    BY <1>10, <2>0, <2>1
  <2>3. at = r
    BY <1>1, <2>1, <2>2
  <2> HIDE DEF k, n
  <2>4. QED
    BY <2>3, <1>5, <1>7 DEF at
<1>11. suite.tests[i].name = lane.rows[r].testId[2]
  BY <1>6, <1>7
<1>12. QED
  BY <1>4, <1>8, <1>9, <1>10, <1>11

FailedAlone(suite, i) ==
    /\ i \in DOMAIN suite.tests /\ suite.tests[i].fate = "fail"
    /\ \A j \in DOMAIN suite.tests : suite.tests[j].name = suite.tests[i].name => j = i

ShownAt(lane, p, id) ==
    /\ p \in DOMAIN lane.rows /\ lane.rows[p].result = "FAIL" /\ lane.rows[p].testId = id
    /\ \A q \in DOMAIN lane.rows : lane.rows[q].testId = id => q = p

(* A failure that was printed is a FAIL row, and the only one of its id if *)
(* no other test has its name.                                             *)
LEMMA FailureShown ==
  ASSUME NEW suite, NEW seen, NEW stream, Cut(suite, seen, stream), NEW entry, NEW exit,
         NEW i, FailedAlone(suite, i),
         NEW p \in PositionsOf("test", stream), stream[p].name = suite.tests[i].name
  PROVE  ShownAt(Collect(entry, stream, exit), p, <<entry.file, suite.tests[i].name>>)
<1> DEFINE P == PositionsOf("test", stream)
           lane == Collect(entry, stream, exit)
           rows == lane.rows
           k == Before(suite)
           n == Len(Points(suite))
<1>0. SuiteOk(suite)
  BY DEF Cut
<1>a. /\ i \in DOMAIN suite.tests /\ suite.tests[i].fate = "fail"
      /\ \A j \in DOMAIN suite.tests : suite.tests[j].name = suite.tests[i].name => j = i
  BY DEF FailedAlone
<1>1. DOMAIN rows = P
      /\ \A q \in P : \/ rows[q] = RowFor(Outcome(stream, q), entry)
                      \/ rows[q] = Withheld(RowFor(Outcome(stream, q), entry))
  BY CollectIs
<1>2. ASSUME NEW q \in P
      PROVE  rows[q].testId = <<entry.file, stream[q].name>>
  <2>1. RowFor(Outcome(stream, q), entry).testId = <<entry.file, stream[q].name>>
    BY RowIs DEF Outcome
  <2>2. Withheld(RowFor(Outcome(stream, q), entry)).testId
           = RowFor(Outcome(stream, q), entry).testId
    BY WithheldIs
  <2>3. QED
    BY <1>1, <2>1, <2>2
<1>3. ASSUME NEW q \in P, stream[q].name = suite.tests[i].name
      PROVE  q = k + 2 * i - 1
  <2>1. PICK j \in 1..n : q = k + 2 * j - 1 /\ stream[q] = TestLine(Points(suite)[j])
    BY TestLinesAt
  <2>2. Points(suite)[j].name = suite.tests[i].name
    BY <1>3, <2>1 DEF TestLine
  <2>3. suite.tests[i].name \in Names
    BY <1>0, <1>a, PointAt
  <2>4. j \in DOMAIN suite.tests /\ Points(suite)[j] = suite.tests[j]
    BY <1>0, <2>2, <2>3, PointAt
  <2>6. j = i
    BY <1>a, <2>2, <2>4
  <2>7. QED
    BY <2>1, <2>6
<1>4. i \in 1..n /\ Points(suite)[i].fate = "fail"
  BY <1>0, <1>a, PointAt
<1>5. p = k + 2 * i - 1 /\ p <= seen
  <2>1. p = k + 2 * i - 1
    BY <1>3
  <2>2. DOMAIN stream = 1..seen
    BY CutIs
  <2>3. QED
    BY <2>1, <2>2, CutIs DEF PositionsOf
<1>6. rows[p].result = "FAIL"
  <2>1. RowFor(Outcome(stream, p), entry).result = "FAIL"
    BY <1>4, <1>5, FailedLine
  <2>2. Withheld(RowFor(Outcome(stream, p), entry)).result = "FAIL"
    BY <2>1, WithheldIs
  <2>3. QED
    BY <1>1, <2>1, <2>2
<1>7. \A q \in P : rows[q].testId = rows[p].testId => q = p
  BY <1>2, <1>3, <1>5
<1>8. rows[p].testId = <<entry.file, suite.tests[i].name>>
  BY <1>2
<1>9. QED
  BY <1>1, <1>6, <1>7, <1>8 DEF ShownAt

-----------------------------------------------------------------------------
(* The lanes collected, the inductive invariant *)

(* A lane is what its place in the manifest, the files on disk and the     *)
(* output of its runner make of it.                                        *)
FromManifest(collected, run, entry, files) ==
    /\ collected.declared = entry.declared
    /\ \/ /\ entry.file \in files
          /\ \E suite \in SuitesOf[entry.file] : \E seen \in 0..Len(Output(suite)) :
                \E exit \in Exits(suite, seen) :
                   LET stream == SubSeq(Output(suite), 1, seen)
                   IN  /\ run = [suite |-> suite, stream |-> stream]
                       /\ collected.lane = Collect(entry, stream, exit)
       \/ /\ entry.file = "matrix" /\ run \in MatrixRuns
          /\ collected.lane = MatrixResult(run, entry)
       \/ /\ entry.file \notin files \cup {"matrix"}
          /\ collected.lane = CollapsedLane(entry.file, entry.category, "LANE_MISSING")

Swept(collected, files) ==
    \E file \in files \ Declared :
       collected.lane = CollapsedLane(file, "UNDECLARED", "LANE_UNDECLARED")

LaneTrue(collected, run, l, files) ==
    IF l <= Len(Manifest) THEN FromManifest(collected, run, Manifest[l], files)
    ELSE Swept(collected, files)

LanesTrue ==
    /\ tree \in Trees
    /\ lanes \in Seq({lanes[l] : l \in DOMAIN lanes})
    /\ runs \in Seq({runs[l] : l \in DOMAIN runs})
    /\ Len(runs) = Len(lanes)
    /\ \A l \in 1..Len(lanes) : LaneTrue(lanes[l], runs[l], l, tree)

LanesApart ==
    \A l, m \in 1..Len(lanes) :
        l > Len(Manifest) /\ lanes[l].lane.laneId = lanes[m].lane.laneId => l = m

(* The report is of the lanes as they are, and no file was left out.       *)
ReportTrue ==
    /\ pc = "LANES" => report = Null
    /\ report /= Null =>
           /\ report = Assembled
           /\ Len(lanes) >= Len(Manifest)
           /\ \A file \in tree \ Declared : \E l \in DOMAIN lanes : lanes[l].lane.laneId = file

IInv == LanesTrue /\ LanesApart /\ ReportTrue

(* Appending to a sequence, of whatever elements it has.                   *)
LEMMA AppendIs ==
  ASSUME NEW s, NEW e, s \in Seq({s[i] : i \in DOMAIN s})
  PROVE  LET t == Append(s, e) IN
         /\ Len(s) \in Nat /\ DOMAIN s = 1..Len(s)
         /\ Len(t) = Len(s) + 1 /\ DOMAIN t = 1..Len(s) + 1
         /\ t \in Seq({t[i] : i \in DOMAIN t})
         /\ \A i \in 1..Len(s) : t[i] = s[i]
         /\ t[Len(s) + 1] = e
<1> DEFINE S == {s[i] : i \in DOMAIN s}
           t == Append(s, e)
           T == {t[i] : i \in DOMAIN t}
           X == S \cup {e}
<1>1. s \in Seq(S) /\ S \subseteq X /\ e \in X
  OBVIOUS
<1> HIDE DEF S, X
<1>2. s \in Seq(X)
  BY <1>1, SeqMonotonic
<1>3. /\ t \in Seq(X) /\ Len(t) = Len(s) + 1
      /\ \A i \in 1..Len(s) : t[i] = s[i]
      /\ t[Len(s) + 1] = e
  BY <1>1, <1>2, AppendProperties
<1>4. Len(s) \in Nat /\ DOMAIN s = 1..Len(s) /\ DOMAIN t = 1..Len(t)
  BY <1>2, <1>3, LenProperties
<1> HIDE DEF t
<1>5. t = [i \in 1..Len(t) |-> t[i]]
  BY <1>3, LenProperties
<1>6. Len(t) \in Nat /\ \A i \in 1..Len(t) : t[i] \in T
  BY <1>3, <1>4
<1>7. t \in Seq(T)
  <2> HIDE DEF T
  <2>1. t \in [1..Len(t) -> T]
    BY <1>5, <1>6
  <2>2. QED
    BY <2>1, <1>6
<1>8. QED
  BY <1>3, <1>4, <1>7 DEF t

(* What the matrix may hand over makes a lane of its own.                  *)
LEMMA MatrixIs ==
  ASSUME NEW raw \in MatrixRuns, NEW entry \in Entries, entry.file = "matrix"
  PROVE  LET lane == MatrixResult(raw, entry) IN
         /\ LaneGood(lane, "matrix")
         /\ \A r \in DOMAIN lane.rows : lane.rows[r].result = "PASS" =>
               /\ Len(raw) = entry.declared /\ DOMAIN raw = DOMAIN lane.rows
               /\ raw[r].shape = "PASS"
               /\ \A i \in DOMAIN raw : lane.rows[i].testId = <<"matrix", raw[i].name>>
<1> DEFINE lane == MatrixResult(raw, entry)
           coerced == [i \in DOMAIN raw |-> Coerce(raw[i])]
<1>1. \/ \E code : lane = CollapsedLane("matrix", entry.category, code)
      \/ /\ raw /= Null /\ Len(raw) = entry.declared
         /\ \A i \in DOMAIN raw : Coerce(raw[i]) /= Null
         /\ lane = Lane("matrix", coerced, Null)
  BY DEF MatrixResult
<1>2. CASE \E code : lane = CollapsedLane("matrix", entry.category, code)
  <2>1. PICK code : lane = CollapsedLane("matrix", entry.category, code)
    BY <1>2
  <2> HIDE DEF lane
  <2>2. LaneGood(lane, "matrix") /\ \A r \in DOMAIN lane.rows : lane.rows[r].result = "NOT-TESTED"
    BY <2>1, CollapsedIs
  <2>3. QED
    BY <2>2 DEF lane
<1>3. CASE /\ raw /= Null /\ Len(raw) = entry.declared
           /\ \A i \in DOMAIN raw : Coerce(raw[i]) /= Null
           /\ lane = Lane("matrix", coerced, Null)
  <2>1. lane.laneId = "matrix" /\ lane.rows = coerced
    BY <1>3 DEF Lane
  <2>2. raw \in Seq({raw[i] : i \in DOMAIN raw})
    BY <1>3, SuiteAssumption
  <2>3. entry.declared \in Nat \ {0}
    BY ManifestAssumption
  <2>4. DOMAIN raw = 1..entry.declared
    <3> DEFINE X == {raw[i] : i \in DOMAIN raw}
    <3> HIDE DEF X
    <3>1. raw \in Seq(X)
      BY <2>2 DEF X
    <3>2. DOMAIN raw = 1..Len(raw)
      BY <3>1, LenProperties
    <3>3. QED
      BY <3>2, <1>3
  <2>5. IsFiniteSet(DOMAIN raw) /\ DOMAIN raw /= {} /\ DOMAIN raw \subseteq Nat
    <3> DEFINE n == entry.declared
    <3> HIDE DEF n
    <3>1. n \in Nat \ {0} /\ DOMAIN raw = 1..n
      BY <2>3, <2>4 DEF n
    <3>2. IsFiniteSet(1..n)
      BY <3>1, FS_Interval
    <3>3. 1 \in 1..n /\ 1..n \subseteq Nat
      BY <3>1
    <3>4. QED
      BY <3>1, <3>2, <3>3
  <2>6. ASSUME NEW i \in DOMAIN raw
        PROVE  /\ IsRow(coerced[i])
               /\ coerced[i].testId = <<"matrix", raw[i].name>> /\ coerced[i].testId[1] = "matrix"
               /\ coerced[i].result \in Results
               /\ coerced[i].result = "PASS" => coerced[i].reasonCode /= Null /\ raw[i].shape = "PASS"
    <3> DEFINE one == raw[i]
    <3>1. coerced[i] = Coerce(one) /\ Coerce(one) /= Null
      BY <1>3
    <3> HIDE DEF one, coerced
    <3>2. one.shape /= "UNKNOWN_FIELD"
      BY <3>1 DEF Coerce
    <3>3. CASE one.shape = "PASS"
      <4>1. Coerce(one) = Row("matrix", one.name, one.category, "PASS", "CODE")
        BY <3>3 DEF Coerce
      <4>2. QED
        BY <3>1, <3>3, <4>1, NullAssumption DEF Row, Results, IsRow, one
    <3>4. CASE one.shape = "FAIL"
      <4>1. Coerce(one) = Row("matrix", one.name, one.category, "FAIL", "CODE")
        BY <3>4 DEF Coerce
      <4>2. QED
        BY <3>1, <3>4, <4>1 DEF Row, Results, IsRow, one
    <3>5. CASE one.shape \notin {"PASS", "FAIL"}
      <4>1. Coerce(one) = Row("matrix", one.name, one.category, "NOT-TESTED", one.shape)
        BY <3>2, <3>5 DEF Coerce
      <4>2. QED
        BY <3>1, <3>5, <4>1 DEF Row, Results, IsRow, one
    <3>6. QED
      BY <3>3, <3>4, <3>5
  <2>7. DOMAIN coerced = DOMAIN raw
    OBVIOUS
  <2> HIDE DEF lane, coerced
  <2>8. LaneGood(lane, "matrix")
    BY <2>1, <2>5, <2>6, <2>7 DEF LaneGood
  <2>9. QED
    BY <1>3, <2>1, <2>6, <2>7, <2>8 DEF lane
<1>4. QED
  BY <1>1, <1>2, <1>3

(* A run of a declared file is a run of one of its suites, cut somewhere.  *)
LEMMA RunIsCut ==
  ASSUME NEW files \in Trees, NEW entry \in Entries, entry.file \in files,
         NEW suite \in SuitesOf[entry.file], NEW seen \in 0..Len(Output(suite))
  PROVE  Cut(suite, seen, SubSeq(Output(suite), 1, seen))
<1>1. entry.file \in Declared \ {"matrix"}
  BY ManifestAssumption DEF Declared
<1>2. SuiteOk(suite)
  BY <1>1, SuiteAssumption DEF SuiteOk
<1>3. QED
  BY <1>2 DEF Cut

(* The number of lanes, and what every lane is.                            *)
LEMMA LaneIs ==
  ASSUME LanesTrue
  PROVE  /\ DOMAIN lanes = 1..Len(lanes) /\ Len(lanes) \in Nat /\ Len(Manifest) \in Nat
         /\ DOMAIN Manifest = 1..Len(Manifest)
         /\ \A l \in DOMAIN lanes :
               /\ LaneGood(lanes[l].lane, lanes[l].lane.laneId)
               /\ l <= Len(Manifest) =>
                     lanes[l].lane.laneId = Manifest[l].file /\ Manifest[l] \in Entries
               /\ l > Len(Manifest) => lanes[l].lane.laneId \in tree \ Declared
<1>1. DOMAIN lanes = 1..Len(lanes) /\ Len(lanes) \in Nat
  BY AppendIs DEF LanesTrue
<1>2. DOMAIN Manifest = 1..Len(Manifest) /\ Len(Manifest) \in Nat
  BY ManifestAssumption, LenProperties
<1>3. ASSUME NEW l \in DOMAIN lanes, l <= Len(Manifest)
      PROVE  /\ LaneGood(lanes[l].lane, Manifest[l].file)
             /\ lanes[l].lane.laneId = Manifest[l].file /\ Manifest[l] \in Entries
  <2> DEFINE entry == Manifest[l]
             lane == lanes[l].lane
  <2>1. l \in DOMAIN Manifest
    BY <1>1, <1>2, <1>3
  <2>2. entry \in Entries
    BY <2>1 DEF Entries
  <2>3. FromManifest(lanes[l], runs[l], entry, tree) /\ tree \in Trees
    BY <1>1, <1>3 DEF LanesTrue, LaneTrue
  <2> HIDE DEF entry, lane
  <2>4. LaneGood(lane, entry.file)
    <3>1. CASE entry.file \in tree /\ \E suite \in SuitesOf[entry.file] : \E seen \in 0..Len(Output(suite)) :
                  \E exit \in Exits(suite, seen) :
                     lane = Collect(entry, SubSeq(Output(suite), 1, seen), exit)
      <4>1. PICK suite \in SuitesOf[entry.file] : \E seen \in 0..Len(Output(suite)) :
                  \E exit \in Exits(suite, seen) :
                     lane = Collect(entry, SubSeq(Output(suite), 1, seen), exit)
        BY <3>1
      <4>2. PICK seen \in 0..Len(Output(suite)) : \E exit \in Exits(suite, seen) :
                     lane = Collect(entry, SubSeq(Output(suite), 1, seen), exit)
        BY <4>1
      <4>3. Cut(suite, seen, SubSeq(Output(suite), 1, seen))
        BY <2>2, <2>3, <3>1, RunIsCut
      <4>4. QED
        BY <4>2, <4>3, CollectGood
    <3>2. CASE entry.file = "matrix" /\ runs[l] \in MatrixRuns /\ lane = MatrixResult(runs[l], entry)
      BY <2>2, <3>2, MatrixIs
    <3>3. CASE lane = CollapsedLane(entry.file, entry.category, "LANE_MISSING")
      BY <3>3, CollapsedIs
    <3>4. QED
      BY <2>3, <3>1, <3>2, <3>3 DEF FromManifest, lane
  <2>5. QED
    BY <2>2, <2>4 DEF LaneGood, entry, lane
<1>4. ASSUME NEW l \in DOMAIN lanes, l > Len(Manifest)
      PROVE  LaneGood(lanes[l].lane, lanes[l].lane.laneId) /\ lanes[l].lane.laneId \in tree \ Declared
  <2>1. Swept(lanes[l], tree)
    BY <1>1, <1>2, <1>4 DEF LanesTrue, LaneTrue
  <2>2. PICK file \in tree \ Declared :
           lanes[l].lane = CollapsedLane(file, "UNDECLARED", "LANE_UNDECLARED")
    BY <2>1 DEF Swept
  <2>3. LaneGood(lanes[l].lane, file)
    BY <2>2, CollapsedIs
  <2>4. QED
    BY <2>2, <2>3 DEF LaneGood
<1>5. ASSUME NEW l \in DOMAIN lanes
      PROVE  l <= Len(Manifest) \/ l > Len(Manifest)
  BY <1>1, <1>2
<1>6. QED
  BY <1>1, <1>2, <1>3, <1>4, <1>5

(* Every step appends a lane that is true, or leaves the lanes alone.      *)
LEMMA EmitKeeps ==
  ASSUME LanesTrue, LanesApart, pc = "LANES", report = Null,
         NEW lane, NEW declared, NEW run, Emit(lane, declared, run),
         LaneTrue([lane |-> lane, declared |-> declared], run, Len(lanes) + 1, tree),
         Len(lanes) + 1 > Len(Manifest) =>
            \A l \in DOMAIN lanes : lanes[l].lane.laneId /= lane.laneId
  PROVE  LanesTrue' /\ LanesApart'
<1> DEFINE n == Len(lanes)
           new == [lane |-> lane, declared |-> declared]
<1>1. PICK ls : ls = Append(lanes, new)
  OBVIOUS
<1>2. PICK rs : rs = Append(runs, run)
  OBVIOUS
<1>3. lanes' = ls /\ runs' = rs /\ tree' = tree
  BY <1>1, <1>2 DEF Emit
<1>4. /\ n \in Nat /\ DOMAIN lanes = 1..n
      /\ Len(ls) = n + 1 /\ DOMAIN ls = 1..n + 1
      /\ ls \in Seq({ls[i] : i \in DOMAIN ls})
      /\ \A i \in 1..n : ls[i] = lanes[i]
      /\ ls[n + 1] = new
  <2>1. lanes \in Seq({lanes[l] : l \in DOMAIN lanes})
    BY DEF LanesTrue
  <2> HIDE DEF new
  <2>2. QED
    BY <1>1, <2>1, AppendIs
<1>5. /\ Len(rs) = n + 1
      /\ rs \in Seq({rs[i] : i \in DOMAIN rs})
      /\ \A i \in 1..n : rs[i] = runs[i]
      /\ rs[n + 1] = run
  <2>1. runs \in Seq({runs[l] : l \in DOMAIN runs}) /\ Len(runs) = n
    BY DEF LanesTrue
  <2> HIDE DEF n
  <2>2. QED
    BY <1>2, <2>1, AppendIs
<1>6. ASSUME NEW l \in 1..n + 1
      PROVE  LaneTrue(ls[l], rs[l], l, tree)
  <2>1. CASE l = n + 1
    BY <2>1, <1>4, <1>5
  <2>2. CASE l \in 1..n
    BY <2>2, <1>4, <1>5 DEF LanesTrue
  <2>3. QED
    BY <2>1, <2>2, <1>4
<1>7. LanesTrue'
  <2>1. LanesTrue' = (/\ tree \in Trees
                      /\ ls \in Seq({ls[l] : l \in DOMAIN ls})
                      /\ rs \in Seq({rs[l] : l \in DOMAIN rs})
                      /\ Len(rs) = Len(ls)
                      /\ \A l \in 1..Len(ls) : LaneTrue(ls[l], rs[l], l, tree))
    BY <1>3 DEF LanesTrue
  <2>2. tree \in Trees
    BY DEF LanesTrue
  <2> HIDE DEF n
  <2>3. QED
    BY <2>1, <2>2, <1>4, <1>5, <1>6
<1>8. LanesApart'
  <2> SUFFICES ASSUME NEW l \in 1..n + 1, NEW m \in 1..n + 1, l > Len(Manifest),
                      ls[l].lane.laneId = ls[m].lane.laneId
               PROVE  l = m
    BY <1>3, <1>4 DEF LanesApart
  <2>0. Len(Manifest) \in Nat
    BY LaneIs
  <2>1. new.lane.laneId = lane.laneId
    OBVIOUS
  <2> HIDE DEF n, new
  <2>2. CASE l = n + 1 /\ m \in 1..n
    <3>1. \A i \in 1..n : lanes[i].lane.laneId /= lane.laneId
      BY <1>4, <2>2 DEF n
    <3>2. QED
      BY <1>4, <2>1, <2>2, <3>1
  <2>3. CASE l \in 1..n /\ m = n + 1
    <3>1. n + 1 > Len(Manifest)
      BY <1>4, <2>0, <2>3
    <3>2. \A i \in 1..n : lanes[i].lane.laneId /= lane.laneId
      BY <1>4, <3>1 DEF n
    <3>3. QED
      BY <1>4, <2>1, <2>3, <3>2
  <2>4. CASE l \in 1..n /\ m \in 1..n
    BY <1>4, <2>4 DEF LanesApart, n
  <2>5. CASE l = n + 1 /\ m = n + 1
    BY <2>5
  <2>6. QED
    BY <1>4, <2>2, <2>3, <2>4, <2>5
<1>9. QED
  BY <1>7, <1>8

LEMMA Unmoved ==
  ASSUME tree' = tree, lanes' = lanes, runs' = runs
  PROVE  /\ LanesTrue => LanesTrue'
         /\ LanesApart => LanesApart'
         /\ Assembled' = Assembled
<1>1. LanesTrue => LanesTrue'
  BY DEF LanesTrue
<1>2. LanesApart => LanesApart'
  BY DEF LanesApart
<1>3. Assembled' = Assembled
  <2>1. Attributed' = Attributed
    BY DEF Attributed
  <2>2. ASSUME NEW at PROVE EntryAt(at)' = EntryAt(at)
    BY DEF EntryAt
  <2>3. TestIds' = TestIds
    BY <2>1, <2>2 DEF TestIds
  <2>4. ASSUME NEW id PROVE OfTest(id)' = OfTest(id)
    BY <2>1, <2>2 DEF OfTest
  <2>5. ASSUME NEW id PROVE FirstRow(id)' = FirstRow(id)
    BY <2>2, <2>4 DEF FirstRow
  <2>6. ASSUME NEW id PROVE Settled(id)' = Settled(id)
    BY <2>2, <2>4, <2>5 DEF Settled
  <2>7. Resolved' = Resolved
    BY <2>3, <2>6 DEF Resolved
  <2>8. QED
    BY <2>7 DEF Assembled, LaneTally
<1>4. QED
  BY <1>1, <1>2, <1>3

(* The invariant is inductive. *)
THEOREM LanesStayTrue == CertificationSpec => []IInv
<1>1. CertificationInit => IInv
  <2> SUFFICES ASSUME CertificationInit PROVE IInv
    OBVIOUS
  <2>1. lanes = <<>> /\ runs = <<>> /\ tree \in Trees /\ report = Null
    BY DEF CertificationInit
  <2>2. <<>> \in Seq({}) /\ DOMAIN <<>> = {} /\ Len(<<>>) = 0
    OBVIOUS
  <2>3. {lanes[l] : l \in DOMAIN lanes} = {} /\ {runs[l] : l \in DOMAIN runs} = {}
    BY <2>1, <2>2
  <2>4. QED
    BY <2>1, <2>2, <2>3 DEF IInv, LanesTrue, LanesApart, ReportTrue
<1>2. IInv /\ [CertificationNext]_certificationVars => IInv'
  <2> SUFFICES ASSUME IInv, [CertificationNext]_certificationVars PROVE IInv'
    OBVIOUS
  <2>0. /\ LanesTrue /\ LanesApart /\ ReportTrue
        /\ Len(lanes) \in Nat /\ Len(Manifest) \in Nat
        /\ DOMAIN Manifest = 1..Len(Manifest)
    BY LaneIs DEF IInv
  <2>1. ASSUME NEW lane, NEW declared, NEW run, Emit(lane, declared, run), pc = "LANES",
               LanesTrue' /\ LanesApart'
        PROVE  IInv'
    <3>1. report = Null /\ report' = report /\ pc' = pc
      BY <2>0, <2>1 DEF ReportTrue, Emit
    <3>2. QED
      BY <2>1, <3>1 DEF IInv, ReportTrue
  <2>2. ASSUME MoreLanes
        PROVE  /\ pc = "LANES" /\ report = Null /\ NextEntry = Manifest[Len(lanes) + 1]
               /\ Len(lanes) + 1 <= Len(Manifest)
               /\ NextEntry \in Entries
    <3>1. pc = "LANES" /\ Len(lanes) + 1 <= Len(Manifest) /\ Len(lanes) + 1 \in DOMAIN Manifest
      BY <2>0, <2>2 DEF MoreLanes
    <3>2. QED
      BY <2>0, <3>1 DEF ReportTrue, NextEntry, Entries
  <2>3. ASSUME MoreLanes, NEW lane, NEW run, Emit(lane, NextEntry.declared, run),
               FromManifest([lane |-> lane, declared |-> NextEntry.declared], run, NextEntry, tree)
        PROVE  IInv'
    <3>1. LaneTrue([lane |-> lane, declared |-> NextEntry.declared], run, Len(lanes) + 1, tree)
      BY <2>2, <2>3 DEF LaneTrue
    <3>2. ~(Len(lanes) + 1 > Len(Manifest))
      BY <2>0, <2>2, <2>3
    <3> DEFINE declared == NextEntry.declared
    <3> HIDE DEF declared
    <3>3. Emit(lane, declared, run)
          /\ LaneTrue([lane |-> lane, declared |-> declared], run, Len(lanes) + 1, tree)
      BY <2>3, <3>1 DEF declared
    <3>4. LanesTrue' /\ LanesApart'
      BY <2>0, <2>2, <2>3, <3>2, <3>3, EmitKeeps
    <3>5. QED
      BY <2>1, <2>2, <2>3, <3>3, <3>4
  <2>4. CASE RunFileLane
    <3>1. PICK suite \in SuitesOf[NextEntry.file] : \E seen \in 0..Len(Output(suite)) :
             \E exit \in Exits(suite, seen) :
                Emit(Collect(NextEntry, SubSeq(Output(suite), 1, seen), exit), NextEntry.declared,
                     [suite |-> suite, stream |-> SubSeq(Output(suite), 1, seen)])
      BY <2>4 DEF RunFileLane
    <3>2. PICK seen \in 0..Len(Output(suite)) :
             \E exit \in Exits(suite, seen) :
                Emit(Collect(NextEntry, SubSeq(Output(suite), 1, seen), exit), NextEntry.declared,
                     [suite |-> suite, stream |-> SubSeq(Output(suite), 1, seen)])
      BY <3>1
    <3>3. PICK exit \in Exits(suite, seen) :
                Emit(Collect(NextEntry, SubSeq(Output(suite), 1, seen), exit), NextEntry.declared,
                     [suite |-> suite, stream |-> SubSeq(Output(suite), 1, seen)])
      BY <3>2
    <3> DEFINE stream == SubSeq(Output(suite), 1, seen)
               lane == Collect(NextEntry, stream, exit)
               run == [suite |-> suite, stream |-> stream]
    <3>4. MoreLanes /\ NextEntry.file \in tree
      BY <2>4 DEF RunFileLane
    <3>5. FromManifest([lane |-> lane, declared |-> NextEntry.declared], run, NextEntry, tree)
      BY <3>4 DEF FromManifest
    <3>6. Emit(lane, NextEntry.declared, run)
      BY <3>3
    <3> HIDE DEF lane, run, stream
    <3>7. QED
      BY <2>3, <3>4, <3>5, <3>6
  <2>5. CASE MissingLane
    <3> DEFINE lane == CollapsedLane(NextEntry.file, NextEntry.category, "LANE_MISSING")
    <3>1. MoreLanes /\ NextEntry.file \notin tree \cup {"matrix"} /\ Emit(lane, NextEntry.declared, Null)
      BY <2>5 DEF MissingLane
    <3>2. FromManifest([lane |-> lane, declared |-> NextEntry.declared], Null, NextEntry, tree)
      BY <3>1 DEF FromManifest
    <3> HIDE DEF lane
    <3>3. QED
      BY <2>3, <3>1, <3>2
  <2>6. CASE RunMatrixLane
    <3>1. PICK raw \in MatrixRuns : Emit(MatrixResult(raw, NextEntry), NextEntry.declared, raw)
      BY <2>6 DEF RunMatrixLane
    <3> DEFINE lane == MatrixResult(raw, NextEntry)
    <3>2. MoreLanes /\ NextEntry.file = "matrix"
      BY <2>6 DEF RunMatrixLane
    <3>3. FromManifest([lane |-> lane, declared |-> NextEntry.declared], raw, NextEntry, tree)
      BY <3>2 DEF FromManifest
    <3>4. Emit(lane, NextEntry.declared, raw)
      BY <3>1
    <3> HIDE DEF lane
    <3>5. QED
      BY <2>3, <3>2, <3>3, <3>4
  <2>7. CASE UndeclaredLane
    <3>1. PICK file \in tree \ Declared :
             /\ \A l \in DOMAIN lanes : lanes[l].lane.laneId /= file
             /\ Emit(CollapsedLane(file, "UNDECLARED", "LANE_UNDECLARED"), 0, Null)
      BY <2>7 DEF UndeclaredLane
    <3> DEFINE lane == CollapsedLane(file, "UNDECLARED", "LANE_UNDECLARED")
    <3>2. pc = "LANES" /\ Len(lanes) >= Len(Manifest) /\ report = Null
      BY <2>0, <2>7 DEF UndeclaredLane, ReportTrue
    <3>3. LaneTrue([lane |-> lane, declared |-> 0], Null, Len(lanes) + 1, tree)
      <4>1. ~(Len(lanes) + 1 <= Len(Manifest))
        BY <2>0, <3>2
      <4>2. Swept([lane |-> lane, declared |-> 0], tree)
        BY DEF Swept
      <4>3. QED
        BY <4>1, <4>2 DEF LaneTrue
    <3>4. lane.laneId = file
      BY DEF CollapsedLane, Lane
    <3>5. Emit(lane, 0, Null) /\ \A l \in DOMAIN lanes : lanes[l].lane.laneId /= lane.laneId
      BY <3>1, <3>4
    <3> HIDE DEF lane
    <3>6. LanesTrue' /\ LanesApart'
      BY <2>0, <3>2, <3>3, <3>5, EmitKeeps
    <3>7. QED
      BY <2>1, <3>2, <3>5, <3>6
  <2>8. CASE Assemble
    <3>1. /\ tree' = tree /\ lanes' = lanes /\ runs' = runs
          /\ report' = Assembled /\ pc' \in {"WRITE_JSON", "DEFECT"}
          /\ Len(lanes) >= Len(Manifest)
          /\ \A file \in tree \ Declared : \E l \in DOMAIN lanes : lanes[l].lane.laneId = file
      BY <2>8 DEF Assemble
    <3>2. LanesTrue' /\ LanesApart' /\ Assembled' = Assembled
      BY <2>0, <3>1, Unmoved
    <3>3. QED
      BY <3>1, <3>2 DEF IInv, ReportTrue
  <2>9. CASE WriteJson \/ WriteHtml \/ Stop \/ Rest \/ UNCHANGED certificationVars
    <3>1. /\ tree' = tree /\ lanes' = lanes /\ runs' = runs /\ report' = report
          /\ pc' = pc \/ pc' /= "LANES"
      BY <2>9 DEF WriteJson, WriteHtml, Stop, Rest, certificationVars
    <3>2. LanesTrue' /\ LanesApart' /\ Assembled' = Assembled
      BY <2>0, <3>1, Unmoved
    <3>3. ReportTrue'
      BY <2>0, <3>1, <3>2 DEF ReportTrue
    <3>4. QED
      BY <3>2, <3>3 DEF IInv
  <2>10. QED
    BY <2>4, <2>5, <2>6, <2>7, <2>8, <2>9 DEF CertificationNext
<1>3. QED
  BY <1>1, <1>2, PTL DEF CertificationSpec

-----------------------------------------------------------------------------
(* What settling duplicates makes of the rows *)

LEMMA EntriesAre ==
  ASSUME LanesTrue
  PROVE  /\ IsFiniteSet(Attributed)
         /\ \A at \in Attributed :
               /\ at = <<at[1], at[2]>> /\ at[1] \in DOMAIN lanes /\ at[1] \in Nat
               /\ at[2] \in DOMAIN lanes[at[1]].lane.rows /\ at[2] \in Nat
               /\ EntryAt(at).row = lanes[at[1]].lane.rows[at[2]]
               /\ EntryAt(at).laneId = lanes[at[1]].lane.laneId
               /\ IsRow(EntryAt(at).row) /\ EntryAt(at).row.testId[1] = EntryAt(at).laneId
               /\ EntryAt(at).row.result \in Results
               /\ EntryAt(at).row.result = "PASS" => EntryAt(at).row.reasonCode /= Null
         /\ \A l \in DOMAIN lanes : \A r \in DOMAIN lanes[l].lane.rows : <<l, r>> \in Attributed
<1>1. DOMAIN lanes = 1..Len(lanes) /\ Len(lanes) \in Nat
      /\ \A l \in DOMAIN lanes : LaneGood(lanes[l].lane, lanes[l].lane.laneId)
  BY LaneIs
<1>2. ASSUME NEW at \in Attributed
      PROVE  /\ at = <<at[1], at[2]>> /\ at[1] \in DOMAIN lanes /\ at[1] \in Nat
             /\ at[2] \in DOMAIN lanes[at[1]].lane.rows /\ at[2] \in Nat
             /\ EntryAt(at).row = lanes[at[1]].lane.rows[at[2]]
             /\ EntryAt(at).laneId = lanes[at[1]].lane.laneId
             /\ IsRow(EntryAt(at).row) /\ EntryAt(at).row.testId[1] = EntryAt(at).laneId
             /\ EntryAt(at).row.result \in Results
             /\ EntryAt(at).row.result = "PASS" => EntryAt(at).row.reasonCode /= Null
  <2>1. PICK l \in DOMAIN lanes : \E r \in DOMAIN lanes[l].lane.rows : at = <<l, r>>
    BY DEF Attributed
  <2>2. PICK r \in DOMAIN lanes[l].lane.rows : at = <<l, r>>
    BY <2>1
  <2>3. l \in Nat /\ LaneGood(lanes[l].lane, lanes[l].lane.laneId)
    BY <1>1
  <2>4. r \in Nat
    BY <2>3 DEF LaneGood
  <2>5. at[1] = l /\ at[2] = r
    BY <2>2
  <2>6. EntryAt(at).row = lanes[l].lane.rows[r] /\ EntryAt(at).laneId = lanes[l].lane.laneId
    BY <2>5 DEF EntryAt
  <2>7. QED
    BY <2>2, <2>3, <2>4, <2>5, <2>6 DEF LaneGood
<1>3. ASSUME NEW l \in DOMAIN lanes, NEW r \in DOMAIN lanes[l].lane.rows
      PROVE  <<l, r>> \in Attributed
  BY DEF Attributed
<1>4. IsFiniteSet(Attributed)
  <2> DEFINE part == [l \in DOMAIN lanes |-> {<<l, r>> : r \in DOMAIN lanes[l].lane.rows}]
  <2>1. ASSUME NEW l \in DOMAIN lanes PROVE IsFiniteSet(part[l])
    <3> DEFINE rs == DOMAIN lanes[l].lane.rows
               pair == [r \in rs |-> <<l, r>>]
    <3>1. IsFiniteSet(rs)
      BY <1>1 DEF LaneGood
    <3>2. part[l] = {pair[r] : r \in rs}
      OBVIOUS
    <3> HIDE DEF rs, pair, part
    <3>3. QED
      BY <3>1, <3>2, ImageFinite
  <2>2. Attributed = UNION {part[l] : l \in DOMAIN lanes}
    BY DEF Attributed
  <2> HIDE DEF part
  <2>3. IsFiniteSet(DOMAIN lanes)
    BY <1>1, FS_Interval
  <2>4. IsFiniteSet({part[l] : l \in DOMAIN lanes})
    BY <2>3, ImageFinite
  <2>5. QED
    BY <2>1, <2>2, <2>4, FS_UNION
<1>5. QED
  BY <1>2, <1>3, <1>4

(* The entry of the report that a test id keeps is the one of its first    *)
(* row.                                                                    *)
LEMMA FirstIs ==
  ASSUME LanesTrue, NEW id \in TestIds
  PROVE  \E at \in OfTest(id) : FirstRow(id) = EntryAt(at)
<1> DEFINE O == OfTest(id)
           Ls == {at[1] : at \in O}
           l == Min(Ls)
           Rs == {at[2] : at \in {a \in O : a[1] = l}}
           r == Min(Rs)
<1>1. \A at \in O : at = <<at[1], at[2]>> /\ at[1] \in Nat /\ at[2] \in Nat
  BY EntriesAre DEF OfTest
<1>2. O /= {}
  BY DEF TestIds, OfTest
<1>3. FirstRow(id) = EntryAt(<<l, r>>)
  BY DEF FirstRow
<1> HIDE DEF O
<1>4. Ls \subseteq Nat /\ Ls /= {}
  BY <1>1, <1>2
<1>5. l \in Ls
  <2> HIDE DEF Ls
  <2>1. QED
    BY <1>4, LeastOf
<1>6. PICK first \in O : first[1] = l
  BY <1>5
<1> HIDE DEF l
<1>7. Rs \subseteq Nat /\ Rs /= {}
  BY <1>1, <1>6
<1>8. r \in Rs
  <2> HIDE DEF Rs
  <2>1. QED
    BY <1>7, LeastOf
<1>9. PICK at \in O : at[1] = l /\ at[2] = r
  BY <1>8
<1>10. at = <<l, r>>
  BY <1>1, <1>9
<1>11. QED
  BY <1>3, <1>9, <1>10 DEF O

LEMMA SettledIs ==
  ASSUME LanesTrue, NEW id \in TestIds
  PROVE  /\ Settled(id).row.testId = id /\ Settled(id).row.result \in Results
         /\ \E at \in OfTest(id) : Settled(id).laneId = EntryAt(at).laneId
         /\ Settled(id).row.result = "PASS" =>
               /\ Settled(id).row.reasonCode /= Null
               /\ \E at \in OfTest(id) : \A other \in OfTest(id) : other = at
         /\ \A at \in OfTest(id) : (\A other \in OfTest(id) : other = at) => Settled(id) = EntryAt(at)
<1> DEFINE first == FirstRow(id)
           alone == \A at, other \in OfTest(id) : at = other
<1>1. PICK at \in OfTest(id) : first = EntryAt(at)
  BY FirstIs
<1>2. at \in Attributed /\ EntryAt(at).row.testId = id
  BY DEF OfTest
<1>3. /\ IsRow(first.row) /\ first.row.testId = id /\ first.row.result \in Results
      /\ first.row.result = "PASS" => first.row.reasonCode /= Null
  BY <1>1, <1>2, EntriesAre
<1>4. DOMAIN first = {"row", "laneId"}
  BY <1>1 DEF EntryAt
<1>5. CASE alone
  <2>1. Settled(id) = first
    BY <1>5 DEF Settled
  <2>2. QED
    BY <1>1, <1>3, <1>5, <2>1
<1>6. CASE ~alone
  <2>1. \/ Settled(id) = [first EXCEPT !.row.result = "NOT-TESTED",
                                       !.row.reasonCode = "ROW_DUPLICATE_IDENTICAL"]
        \/ Settled(id) = [first EXCEPT !.row.result = "FAIL",
                                       !.row.reasonCode = "ROW_CONFLICTING_EVIDENCE"]
    BY <1>6 DEF Settled
  <2> HIDE DEF first, alone
  <2>2. /\ Settled(id).laneId = first.laneId /\ Settled(id).row.testId = id
        /\ Settled(id).row.result \in {"NOT-TESTED", "FAIL"}
    BY <1>3, <1>4, <2>1 DEF IsRow
  <2>3. ~(\E one \in OfTest(id) : \A other \in OfTest(id) : other = one)
    BY <1>6 DEF alone
  <2>4. QED
    BY <1>1, <2>2, <2>3 DEF Results
<1>7. QED
  BY <1>5, <1>6

(* No two lanes have the same id. *)
LEMMA LaneIdsDiffer ==
  ASSUME LanesTrue, LanesApart, NEW l \in DOMAIN lanes, NEW m \in DOMAIN lanes,
         lanes[l].lane.laneId = lanes[m].lane.laneId
  PROVE  l = m
<1>1. /\ l \in 1..Len(lanes) /\ m \in 1..Len(lanes) /\ Len(lanes) \in Nat /\ Len(Manifest) \in Nat
      /\ DOMAIN Manifest = 1..Len(Manifest)
  BY LaneIs
<1>2. CASE l > Len(Manifest)
  BY <1>1, <1>2 DEF LanesApart
<1>3. CASE m > Len(Manifest)
  BY <1>1, <1>3 DEF LanesApart
<1>4. CASE l <= Len(Manifest) /\ m <= Len(Manifest)
  <2>1. lanes[l].lane.laneId = Manifest[l].file /\ lanes[m].lane.laneId = Manifest[m].file
    BY <1>4, LaneIs
  <2>2. l \in DOMAIN Manifest /\ m \in DOMAIN Manifest
    BY <1>1, <1>4
  <2>3. QED
    BY <2>1, <2>2, ManifestAssumption
<1>5. QED
  BY <1>1, <1>2, <1>3, <1>4

LEMMA RowsAre ==
  ASSUME LanesTrue
  PROVE  /\ IsFiniteSet(RowsOf(Resolved))
         /\ \A row \in RowsOf(Resolved) :
               /\ row.testId \in TestIds /\ row = Settled(row.testId).row
               /\ row.result \in Results
               /\ row.result = "PASS" => row.reasonCode /= Null
         /\ \A entry \in Resolved :
               /\ entry.row \in RowsOf(Resolved) /\ entry = Settled(entry.row.testId)
               /\ \E l \in DOMAIN lanes : entry.laneId = lanes[l].lane.laneId
         /\ \A id \in TestIds : Settled(id) \in Resolved
<1>1. ASSUME NEW entry \in Resolved
      PROVE  /\ entry.row.testId \in TestIds /\ entry = Settled(entry.row.testId)
             /\ entry.row.result \in Results
             /\ entry.row.result = "PASS" => entry.row.reasonCode /= Null
             /\ \E l \in DOMAIN lanes : entry.laneId = lanes[l].lane.laneId
  <2>1. PICK id \in TestIds : entry = Settled(id)
    BY DEF Resolved
  <2>2. PICK at \in OfTest(id) : entry.laneId = EntryAt(at).laneId
    BY <2>1, SettledIs
  <2>3. at \in Attributed
    BY DEF OfTest
  <2>4. QED
    BY <2>1, <2>2, <2>3, SettledIs, EntriesAre
<1>2. \A row \in RowsOf(Resolved) : \E entry \in Resolved : row = entry.row
  BY DEF RowsOf
<1>3. \A entry \in Resolved : entry.row \in RowsOf(Resolved)
  BY DEF RowsOf
<1>4. IsFiniteSet(RowsOf(Resolved))
  <2> DEFINE idOf == [at \in Attributed |-> EntryAt(at).row.testId]
             rowOf == [id \in TestIds |-> Settled(id).row]
  <2>1. TestIds = {idOf[at] : at \in Attributed}
    BY DEF TestIds
  <2>2. RowsOf(Resolved) = {rowOf[id] : id \in TestIds}
    BY DEF RowsOf, Resolved
  <2> HIDE DEF idOf, rowOf
  <2>3. IsFiniteSet(TestIds)
    BY <2>1, EntriesAre, ImageFinite
  <2>4. QED
    BY <2>2, <2>3, ImageFinite
<1>5. \A id \in TestIds : Settled(id) \in Resolved
  BY DEF Resolved
<1>6. QED
  BY <1>1, <1>2, <1>3, <1>4, <1>5

(* What a field of a tally counts. *)
Selected(rows, field) ==
    CASE field = "total" -> rows
      [] field = "pass" -> {r \in rows : r.result = "PASS"}
      [] field = "fail" -> {r \in rows : r.result = "FAIL"}
      [] field = "notTested" -> {r \in rows : r.result = "NOT-TESTED"}

LEMMA TallyCounts ==
  ASSUME NEW rows, NEW field \in TallyFields
  PROVE  /\ Tally(rows)[field] = Cardinality(Selected(rows, field))
         /\ Selected(rows, field) \subseteq rows
         /\ \A all : rows \subseteq all =>
               Selected(rows, field) = rows \cap Selected(all, field)
<1>1. CASE field = "total"
  BY <1>1 DEF Tally, Selected
<1>2. CASE field = "pass"
  BY <1>2 DEF Tally, Selected
<1>3. CASE field = "fail"
  BY <1>3 DEF Tally, Selected
<1>4. CASE field = "notTested"
  BY <1>4 DEF Tally, Selected
<1>5. QED
  BY <1>1, <1>2, <1>3, <1>4 DEF TallyFields

(* A report that was assembled always verifies. *)
LEMMA AssembledVerifies ==
  ASSUME LanesTrue, LanesApart
  PROVE  Verifies(Assembled)
<1> DEFINE rep == Assembled
           rows == RowsOf(Resolved)
           ofLane == [l \in DOMAIN lanes |-> RowsOf({e \in Resolved : e.laneId = lanes[l].lane.laneId})]
           cats == CategoriesOf(rows)
           ofCat == [c \in cats |-> {row \in rows : row.category = c}]
<1>1. /\ rep.rows = rows /\ rep.totals = Tally(rows)
      /\ DOMAIN rep.lanes = DOMAIN lanes
      /\ \A l \in DOMAIN lanes : rep.lanes[l].tally = Tally(ofLane[l])
      /\ rep.categories = [c \in cats |-> Tally(ofCat[c])]
  BY DEF Assembled, LaneTally
<1>2. /\ IsFiniteSet(rows)
      /\ \A row \in rows : /\ row = Settled(row.testId).row /\ row.result \in Results
                           /\ row.result = "PASS" => row.reasonCode /= Null
  BY RowsAre
<1>3. ASSUME NEW part, part \subseteq rows
      PROVE  Balanced(Tally(part))
  <2>1. IsFiniteSet(part)
    BY <1>2, <1>3, FS_Subset
  <2>2. \A row \in part : row.result \in Results
    BY <1>2, <1>3
  <2>3. QED
    BY <2>1, <2>2, TalliesBalance
<1>4. \A l \in DOMAIN lanes : ofLane[l] \subseteq rows
  BY DEF RowsOf
<1>5. \A c \in cats : ofCat[c] \subseteq rows
  OBVIOUS
<1>6. rows = UNION {ofLane[l] : l \in DOMAIN lanes}
  <2>1. ASSUME NEW row \in rows
        PROVE  \E l \in DOMAIN lanes : row \in ofLane[l]
    <3>1. PICK e \in Resolved : row = e.row
      BY DEF RowsOf
    <3>2. PICK l \in DOMAIN lanes : e.laneId = lanes[l].lane.laneId
      BY RowsAre
    <3>3. row \in ofLane[l]
      BY <3>1, <3>2 DEF RowsOf
    <3>4. QED
      BY <3>3
  <2> HIDE DEF ofLane, rows
  <2>2. QED
    BY <1>4, <2>1
<1>7. ASSUME NEW l \in DOMAIN lanes, NEW m \in DOMAIN lanes,
             NEW row \in ofLane[l], row \in ofLane[m]
      PROVE  l = m
  <2>1. PICK e \in Resolved : row = e.row /\ e.laneId = lanes[l].lane.laneId
    BY DEF RowsOf
  <2>2. PICK d \in Resolved : row = d.row /\ d.laneId = lanes[m].lane.laneId
    BY <1>7 DEF RowsOf
  <2>3. e = Settled(e.row.testId) /\ d = Settled(d.row.testId)
    BY RowsAre
  <2>4. e = d
    BY <2>1, <2>2, <2>3
  <2>5. QED
    BY <2>1, <2>2, <2>4, LaneIdsDiffer
<1>8. rows = UNION {ofCat[c] : c \in cats}
  <2>1. ASSUME NEW row \in rows
        PROVE  \E c \in cats : row \in ofCat[c]
    <3>1. row.category \in cats
      BY DEF CategoriesOf
    <3>2. row \in ofCat[row.category]
      BY <3>1
    <3>3. QED
      BY <3>1, <3>2
  <2> HIDE DEF ofCat, cats, rows
  <2>2. QED
    BY <1>5, <2>1
<1>9. ASSUME NEW c \in cats, NEW d \in cats, NEW row \in ofCat[c], row \in ofCat[d]
      PROVE  c = d
  <2>1. row.category = c
    OBVIOUS
  <2>2. row.category = d
    BY <1>9
  <2>3. QED
    BY <2>1, <2>2
<1>10. \A r, q \in rows : r.testId = q.testId => r = q
  <2> SUFFICES ASSUME NEW r \in rows, NEW q \in rows, r.testId = q.testId PROVE r = q
    OBVIOUS
  <2>1. r = Settled(r.testId).row /\ q = Settled(q.testId).row
    BY <1>2
  <2>2. QED
    BY <2>1
<1> HIDE DEF rep, rows, ofLane, cats, ofCat
<1>11. ASSUME NEW field \in TallyFields
       PROVE  SumOver([l \in DOMAIN rep.lanes |-> rep.lanes[l].tally[field]]) = rep.totals[field]
  <2> DEFINE sets == [l \in DOMAIN lanes |-> Selected(ofLane[l], field)]
             all == Selected(rows, field)
             parts == [l \in DOMAIN lanes |-> Cardinality(sets[l])]
  <2>1. [l \in DOMAIN rep.lanes |-> rep.lanes[l].tally[field]] = parts
    BY <1>1, TallyCounts
  <2>2. rep.totals[field] = Cardinality(all)
    BY <1>1, TallyCounts
  <2>3. ASSUME NEW l \in DOMAIN lanes
        PROVE  sets[l] = ofLane[l] \cap all
    BY <1>4, TallyCounts
  <2>4. all \subseteq rows
    BY TallyCounts
  <2> HIDE DEF sets, all
  <2>5. all = UNION {sets[l] : l \in DOMAIN lanes}
    BY <1>6, <2>3, <2>4
  <2>6. \A l, m \in DOMAIN lanes : \A row \in sets[l] : row \in sets[m] => l = m
    BY <1>7, <2>3
  <2>7. IsFiniteSet(UNION {sets[l] : l \in DOMAIN lanes})
    BY <1>2, <2>4, <2>5, FS_Subset
  <2> HIDE DEF parts
  <2>8. SumOver(parts) = Cardinality(UNION {sets[l] : l \in DOMAIN lanes})
    BY <2>6, <2>7, SumOfSizes DEF parts
  <2>9. QED
    BY <2>1, <2>2, <2>5, <2>8
<1>12. SumOver([c \in DOMAIN rep.categories |-> rep.categories[c].total]) = Cardinality(rows)
  <2> DEFINE parts == [c \in cats |-> Cardinality(ofCat[c])]
  <2>1. [c \in DOMAIN rep.categories |-> rep.categories[c].total] = parts
    BY <1>1 DEF Tally
  <2>2. IsFiniteSet(UNION {ofCat[c] : c \in cats})
    BY <1>2, <1>8
  <2> HIDE DEF parts
  <2>3. SumOver(parts) = Cardinality(UNION {ofCat[c] : c \in cats})
    BY <1>9, <2>2, SumOfSizes DEF parts
  <2>4. QED
    BY <2>1, <2>3, <1>8
<1>13. /\ \A l \in DOMAIN rep.lanes : Balanced(rep.lanes[l].tally)
       /\ \A c \in DOMAIN rep.categories : Balanced(rep.categories[c])
  <2>1. \A l \in DOMAIN lanes : Balanced(Tally(ofLane[l]))
    BY <1>3, <1>4
  <2>2. \A c \in cats : Balanced(Tally(ofCat[c]))
    BY <1>3, <1>5
  <2>3. QED
    BY <1>1, <2>1, <2>2
<1>14. Verifies(rep)
  BY <1>1, <1>2, <1>10, <1>11, <1>12, <1>13 DEF Verifies
<1>15. QED
  BY <1>14 DEF rep

-----------------------------------------------------------------------------
(* The properties of the report *)

(* Whatever the runners printed and wherever they were cut off, the report *)
(* that is assembled verifies, and every declared file and every file on   *)
(* disk has a row (assembleReport, verifyReport).                          *)
THEOREM ReportsVerify == CertificationSpec => []ReportVerifies
<1>1. IInv => ReportVerifies
  <2> SUFFICES ASSUME IInv, report /= Null
               PROVE  /\ Verifies(report)
                      /\ \A file \in Declared \cup tree :
                            \E row \in report.rows : row.testId[1] = file
    BY DEF ReportVerifies
  <2>1. /\ LanesTrue /\ LanesApart /\ report = Assembled /\ Len(lanes) >= Len(Manifest)
        /\ \A file \in tree \ Declared : \E l \in DOMAIN lanes : lanes[l].lane.laneId = file
    BY DEF IInv, ReportTrue
  <2>2. Verifies(report)
    BY <2>1, AssembledVerifies
  <2>3. /\ DOMAIN lanes = 1..Len(lanes) /\ Len(lanes) \in Nat /\ Len(Manifest) \in Nat
        /\ DOMAIN Manifest = 1..Len(Manifest)
    BY <2>1, LaneIs
  <2>4. ASSUME NEW file \in Declared \cup tree
        PROVE  \E l \in DOMAIN lanes : lanes[l].lane.laneId = file
    <3>1. CASE file \in Declared
      <4>1. PICK m \in DOMAIN Manifest : Manifest[m].file = file
        BY <3>1 DEF Declared, Entries
      <4>2. m \in DOMAIN lanes /\ m <= Len(Manifest)
        BY <2>1, <2>3
      <4>3. lanes[m].lane.laneId = file
        BY <2>1, <4>1, <4>2, LaneIs
      <4>4. QED
        BY <4>2, <4>3
    <3>2. CASE file \notin Declared
      BY <2>1, <3>2
    <3>3. QED
      BY <3>1, <3>2
  <2>5. ASSUME NEW l \in DOMAIN lanes
        PROVE  \E row \in report.rows : row.testId[1] = lanes[l].lane.laneId
    <3>1. PICK r : r \in DOMAIN lanes[l].lane.rows
      BY <2>1, LaneIs DEF LaneGood
    <3> DEFINE at == <<l, r>>
               id == EntryAt(at).row.testId
    <3>2. at \in Attributed /\ EntryAt(at).laneId = lanes[l].lane.laneId
          /\ id[1] = EntryAt(at).laneId
      <4>1. at \in Attributed
        BY <2>1, <3>1, EntriesAre
      <4>2. QED
        BY <2>1, <4>1, EntriesAre DEF EntryAt
    <3>3. id \in TestIds
      BY <3>2 DEF TestIds
    <3> HIDE DEF at, id
    <3>4. Settled(id).row.testId = id
      BY <2>1, <3>3, SettledIs
    <3>5. Settled(id).row \in RowsOf(Resolved)
      BY <3>3 DEF RowsOf, Resolved
    <3>6. report.rows = RowsOf(Resolved)
      BY <2>1 DEF Assembled
    <3>7. QED
      BY <3>2, <3>4, <3>5, <3>6
  <2>6. QED
    BY <2>2, <2>4, <2>5
<1>2. QED
  BY <1>1, LanesStayTrue, PTL

(* What a lane that is not that of a file can pass. *)
LEMMA PassedIn ==
  ASSUME LanesTrue, NEW l \in DOMAIN lanes, NEW r \in DOMAIN lanes[l].lane.rows,
         lanes[l].lane.rows[r].result = "PASS",
         \A q \in DOMAIN lanes[l].lane.rows :
            lanes[l].lane.rows[q].testId = lanes[l].lane.rows[r].testId => q = r
  PROVE  IF lanes[l].lane.laneId = "matrix"
         THEN /\ Len(runs[l]) = lanes[l].declared
              /\ \A i \in DOMAIN runs[l] :
                     runs[l][i].name = lanes[l].lane.rows[r].testId[2] => runs[l][i].shape = "PASS"
         ELSE /\ FileLane(l)
              /\ Len(runs[l].suite.tests) = lanes[l].declared
              /\ ~runs[l].suite.dies
              /\ Cardinality(Named(runs[l], lanes[l].lane.rows[r].testId[2])) = 1
              /\ CameTo(runs[l], lanes[l].lane.rows[r].testId[2], "ok")
<1> DEFINE lane == lanes[l].lane
           run == runs[l]
           entry == Manifest[l]
           name == lane.rows[r].testId[2]
<1>1. DOMAIN lanes = 1..Len(lanes) /\ Len(lanes) \in Nat /\ Len(Manifest) \in Nat
  BY LaneIs
<1>2. l <= Len(Manifest)
  <2> SUFFICES ASSUME ~(l <= Len(Manifest)) PROVE FALSE
    OBVIOUS
  <2>1. Swept(lanes[l], tree)
    BY <1>1 DEF LanesTrue, LaneTrue
  <2>2. \A q \in DOMAIN lane.rows : lane.rows[q].result = "NOT-TESTED"
    BY <2>1, CollapsedIs DEF Swept
  <2>3. QED
    BY <2>2
<1>3. lane.laneId = entry.file /\ entry \in Entries
  BY <1>2, LaneIs
<1>4. FromManifest(lanes[l], run, entry, tree) /\ tree \in Trees
  BY <1>1, <1>2 DEF LanesTrue, LaneTrue
<1>5. lanes[l].declared = entry.declared
  BY <1>4 DEF FromManifest
<1>6. CASE entry.file \in tree
  <2>1. entry.file /= "matrix"
    BY <1>4, <1>6, ManifestAssumption
  <2>2. PICK suite \in SuitesOf[entry.file] : \E seen \in 0..Len(Output(suite)) :
           \E exit \in Exits(suite, seen) :
              /\ run = [suite |-> suite, stream |-> SubSeq(Output(suite), 1, seen)]
              /\ lane = Collect(entry, SubSeq(Output(suite), 1, seen), exit)
    BY <1>4, <1>6, <2>1 DEF FromManifest
  <2>3. PICK seen \in 0..Len(Output(suite)) : \E exit \in Exits(suite, seen) :
              /\ run = [suite |-> suite, stream |-> SubSeq(Output(suite), 1, seen)]
              /\ lane = Collect(entry, SubSeq(Output(suite), 1, seen), exit)
    BY <2>2
  <2> DEFINE stream == SubSeq(Output(suite), 1, seen)
  <2>4. PICK exit \in Exits(suite, seen) :
           run = [suite |-> suite, stream |-> stream] /\ lane = Collect(entry, stream, exit)
    BY <2>3
  <2>5. Cut(suite, seen, stream)
    BY <1>3, <1>4, <1>6, RunIsCut
  <2> HIDE DEF stream
  <2>6. /\ Len(suite.tests) = entry.declared /\ ~suite.dies
        /\ \E i \in DOMAIN suite.tests :
              /\ suite.tests[i].fate = "ok"
              /\ \A j \in DOMAIN suite.tests : suite.tests[j].name = name <=> j = i
    <3> DEFINE rows == Collect(entry, stream, exit).rows
    <3>1. /\ r \in DOMAIN rows /\ rows[r].result = "PASS"
          /\ \A q \in DOMAIN rows : rows[q].testId = rows[r].testId => q = r
          /\ rows[r].testId[2] = name
      BY <2>4
    <3>2. QED
      BY <2>5, <3>1, PassTested
  <2>7. run.suite = suite
    BY <2>4
  <2>8. PICK i \in DOMAIN suite.tests :
              /\ suite.tests[i].fate = "ok"
              /\ \A j \in DOMAIN suite.tests : suite.tests[j].name = name <=> j = i
    BY <2>6
  <2> HIDE DEF name
  <2>9. Named(run, name) = {i}
    BY <2>7, <2>8 DEF Named
  <2>10. Cardinality(Named(run, name)) = 1
    BY <2>9, FS_Singleton
  <2>11. CameTo(run, name, "ok")
    BY <2>7, <2>8, <2>9 DEF CameTo
  <2>12. FileLane(l)
    BY <1>3, <1>6 DEF FileLane, Declared
  <2>13. QED
    BY <1>3, <1>5, <2>1, <2>6, <2>7, <2>10, <2>11, <2>12 DEF name
<1>7. CASE entry.file = "matrix"
  <2>1. entry.file \notin tree
    BY <1>4, <1>7, ManifestAssumption
  <2>2. run \in MatrixRuns /\ lane = MatrixResult(run, entry)
    BY <1>4, <1>7, <2>1 DEF FromManifest
  <2> DEFINE raw == run
  <2> HIDE DEF raw
  <2>3. raw \in MatrixRuns /\ lane = MatrixResult(raw, entry)
    BY <2>2 DEF raw
  <2> HIDE DEF lane
  <2>4. r \in DOMAIN lane.rows /\ lane.rows[r].result = "PASS"
    BY DEF lane
  <2>5. /\ Len(raw) = entry.declared /\ DOMAIN raw = DOMAIN lane.rows
        /\ raw[r].shape = "PASS"
        /\ \A i \in DOMAIN raw : lane.rows[i].testId = <<"matrix", raw[i].name>>
    BY <1>3, <1>7, <2>3, <2>4, MatrixIs
  <2>6. ASSUME NEW i \in DOMAIN raw, raw[i].name = lane.rows[r].testId[2]
        PROVE  raw[i].shape = "PASS"
    <3>1. lane.rows[i].testId = lane.rows[r].testId
      BY <2>4, <2>5, <2>6
    <3>2. i = r
      BY <2>5, <3>1 DEF lane
    <3>3. QED
      BY <2>5, <3>2
  <2>7. QED
    BY <1>3, <1>5, <1>7, <2>5, <2>6 DEF raw, lane
<1>8. CASE entry.file \notin tree \cup {"matrix"}
  <2>1. lane = CollapsedLane(entry.file, entry.category, "LANE_MISSING")
    BY <1>4, <1>8 DEF FromManifest
  <2> HIDE DEF lane
  <2>2. \A q \in DOMAIN lane.rows : lane.rows[q].result = "NOT-TESTED"
    BY <2>1, CollapsedIs
  <2>3. FALSE
    BY <2>2 DEF lane
  <2>4. QED
    BY <2>3
<1>9. QED
  BY <1>6, <1>7, <1>8

(* A PASS row of the report is of one test that ran and passed in a run    *)
(* with all of the declared tests, or of matrix rows that all arrived as a *)
(* PASS: a cut output, a death, a duplicate or a counter that a test       *)
(* printed never makes one (collectLane, resolveDuplicateEntries).         *)
THEOREM PassesWereTested == CertificationSpec => []PassMeansTested
<1>1. IInv => PassMeansTested
  <2> SUFFICES ASSUME IInv, report /= Null, NEW row \in report.rows, row.result = "PASS"
               PROVE  \E l \in DOMAIN lanes :
                 /\ lanes[l].lane.laneId = row.testId[1]
                 /\ IF row.testId[1] = "matrix"
                    THEN /\ Len(runs[l]) = lanes[l].declared
                         /\ \A i \in DOMAIN runs[l] :
                                runs[l][i].name = row.testId[2] => runs[l][i].shape = "PASS"
                    ELSE /\ FileLane(l)
                         /\ Len(runs[l].suite.tests) = lanes[l].declared
                         /\ ~runs[l].suite.dies
                         /\ Cardinality(Named(runs[l], row.testId[2])) = 1
                         /\ CameTo(runs[l], row.testId[2], "ok")
    BY DEF PassMeansTested
  <2>1. LanesTrue /\ report.rows = RowsOf(Resolved)
    BY DEF IInv, ReportTrue, Assembled
  <2> DEFINE id == row.testId
  <2>2. id \in TestIds /\ row = Settled(id).row
    BY <2>1, RowsAre
  <2> HIDE DEF id
  <2>3. PICK at \in OfTest(id) : \A other \in OfTest(id) : other = at
    BY <2>1, <2>2, SettledIs
  <2>4. row = EntryAt(at).row /\ at \in Attributed
    BY <2>1, <2>2, <2>3, SettledIs DEF OfTest
  <2> DEFINE l == at[1]
             r == at[2]
  <2>5. /\ l \in DOMAIN lanes /\ r \in DOMAIN lanes[l].lane.rows /\ at = <<l, r>>
        /\ row = lanes[l].lane.rows[r] /\ lanes[l].lane.laneId = row.testId[1]
    BY <2>1, <2>4, EntriesAre
  <2> HIDE DEF l, r
  <2>6. ASSUME NEW q \in DOMAIN lanes[l].lane.rows,
               lanes[l].lane.rows[q].testId = lanes[l].lane.rows[r].testId
        PROVE  q = r
    <3>1. <<l, q>> \in Attributed
      BY <2>1, <2>5, EntriesAre
    <3>2. EntryAt(<<l, q>>).row.testId = id
      BY <2>5, <2>6 DEF EntryAt, id
    <3>3. <<l, q>> \in OfTest(id)
      BY <3>1, <3>2 DEF OfTest
    <3>4. QED
      BY <2>3, <2>5, <3>3
  <2>7. QED
    BY <2>1, <2>5, <2>6, PassedIn
<1>2. QED
  BY <1>1, LanesStayTrue, PTL

(* A failure that a runner printed is a FAIL row of the report, whatever   *)
(* became of the rest of its lane (rowForTapOutcome, collectLane).         *)
THEOREM FailuresStayVisible == CertificationSpec => []FailuresVisible
<1>1. IInv => FailuresVisible
  <2> SUFFICES ASSUME IInv, report /= Null, NEW l \in DOMAIN lanes, FileLane(l), NEW name \in Names,
                      Cardinality(Named(runs[l], name)) = 1, CameTo(runs[l], name, "fail"),
                      \E p \in PositionsOf("test", runs[l].stream) : runs[l].stream[p].name = name
               PROVE  \E row \in report.rows :
                         row.testId = <<lanes[l].lane.laneId, name>> /\ row.result = "FAIL"
    BY DEF FailuresVisible
  <2>1. LanesTrue /\ LanesApart /\ report.rows = RowsOf(Resolved)
    BY DEF IInv, ReportTrue, Assembled
  <2> DEFINE lane == lanes[l].lane
             run == runs[l]
             entry == Manifest[l]
  <2>2. DOMAIN lanes = 1..Len(lanes) /\ Len(lanes) \in Nat /\ Len(Manifest) \in Nat
    BY <2>1, LaneIs
  <2>3. l <= Len(Manifest)
    <3> SUFFICES ASSUME ~(l <= Len(Manifest)) PROVE FALSE
      OBVIOUS
    <3>1. lane.laneId \in tree \ Declared
      BY <2>1, <2>2, LaneIs
    <3>2. QED
      BY <3>1 DEF FileLane
  <2>4. lane.laneId = entry.file /\ entry \in Entries /\ entry.file \in tree
    BY <2>1, <2>3, LaneIs DEF FileLane
  <2>5. FromManifest(lanes[l], run, entry, tree) /\ tree \in Trees
    BY <2>1, <2>2, <2>3 DEF LanesTrue, LaneTrue
  <2>6. entry.file /= "matrix"
    BY <2>4, <2>5, ManifestAssumption
  <2>7. PICK suite \in SuitesOf[entry.file] : \E seen \in 0..Len(Output(suite)) :
           \E exit \in Exits(suite, seen) :
              /\ run = [suite |-> suite, stream |-> SubSeq(Output(suite), 1, seen)]
              /\ lane = Collect(entry, SubSeq(Output(suite), 1, seen), exit)
    BY <2>4, <2>5, <2>6 DEF FromManifest
  <2>8. PICK seen \in 0..Len(Output(suite)) : \E exit \in Exits(suite, seen) :
              /\ run = [suite |-> suite, stream |-> SubSeq(Output(suite), 1, seen)]
              /\ lane = Collect(entry, SubSeq(Output(suite), 1, seen), exit)
    BY <2>7
  <2> DEFINE stream == SubSeq(Output(suite), 1, seen)
  <2>9. PICK exit \in Exits(suite, seen) :
           run = [suite |-> suite, stream |-> stream] /\ lane = Collect(entry, stream, exit)
    BY <2>8
  <2>10. Cut(suite, seen, stream)
    BY <2>4, <2>5, RunIsCut
  <2> HIDE DEF stream
  <2>11. run.suite = suite /\ run.stream = stream
    BY <2>9
  <2>12. PICK i \in DOMAIN suite.tests : suite.tests[i].name = name /\ suite.tests[i].fate = "fail"
    BY <2>11 DEF CameTo, Named
  <2>13. \A j \in DOMAIN suite.tests : suite.tests[j].name = name => j = i
    <3> DEFINE named == Named(run, name)
               m == Len(suite.tests)
    <3>1. named = {j \in DOMAIN suite.tests : suite.tests[j].name = name}
      BY <2>11 DEF Named
    <3>2. m \in Nat /\ DOMAIN suite.tests = 1..m
      BY <2>10, PointsAre DEF Cut
    <3> HIDE DEF m
    <3>3. IsFiniteSet(DOMAIN suite.tests)
      BY <3>2, FS_Interval
    <3>4. named \in SUBSET (DOMAIN suite.tests) /\ Cardinality(named) = 1
      BY <3>1
    <3> HIDE DEF named
    <3>5. \E j : named = {j}
      BY <3>3, <3>4, FS_Subset, FS_Singleton
    <3>6. QED
      BY <2>12, <3>1, <3>5
  <2>14. PICK p \in PositionsOf("test", stream) : stream[p].name = name
    BY <2>11
  <2> DEFINE id == <<entry.file, name>>
             at == <<l, p>>
  <2>15. /\ p \in DOMAIN lane.rows /\ lane.rows[p].result = "FAIL" /\ lane.rows[p].testId = id
         /\ \A q \in DOMAIN lane.rows : lane.rows[q].testId = id => q = p
    <3>1. FailedAlone(suite, i)
      BY <2>12, <2>13 DEF FailedAlone
    <3>2. stream[p].name = suite.tests[i].name /\ <<entry.file, suite.tests[i].name>> = id
      BY <2>12, <2>14
    <3>3. lane = Collect(entry, stream, exit)
      BY <2>9
    <3> HIDE DEF entry, run, lane, id
    <3>4. ShownAt(lane, p, id)
      BY <2>10, <3>1, <3>2, <3>3, FailureShown
    <3>5. QED
      BY <3>4 DEF ShownAt
  <2> HIDE DEF id
  <2>17. at \in Attributed /\ EntryAt(at).row = lane.rows[p]
    <3>1. at \in Attributed
      BY <2>1, <2>15, EntriesAre
    <3>2. QED
      BY <3>1 DEF EntryAt
  <2>18. at \in OfTest(id) /\ id \in TestIds
    BY <2>15, <2>17 DEF OfTest, TestIds
  <2>19. ASSUME NEW other \in OfTest(id)
         PROVE  other = at
    <3>1. other \in Attributed /\ EntryAt(other).row.testId = id
      BY DEF OfTest
    <3>2. /\ other = <<other[1], other[2]>> /\ other[1] \in DOMAIN lanes
          /\ other[2] \in DOMAIN lanes[other[1]].lane.rows
          /\ EntryAt(other).row = lanes[other[1]].lane.rows[other[2]]
          /\ lanes[other[1]].lane.laneId = id[1]
      BY <2>1, <3>1, EntriesAre
    <3>3. lanes[other[1]].lane.laneId = lanes[l].lane.laneId
      BY <2>4, <3>2 DEF id
    <3>4. other[1] = l
      BY <2>1, <3>2, <3>3, LaneIdsDiffer
    <3>5. other[2] = p
      BY <2>15, <3>1, <3>2, <3>4
    <3>6. QED
      BY <3>2, <3>4, <3>5
  <2>20. Settled(id) = EntryAt(at)
    BY <2>1, <2>18, <2>19, SettledIs
  <2>21. Settled(id).row \in report.rows
    BY <2>1, <2>18 DEF RowsOf, Resolved
  <2>22. QED
    BY <2>4, <2>15, <2>17, <2>20, <2>21 DEF id
<1>2. QED
  BY <1>1, LanesStayTrue, PTL
=============================================================================
