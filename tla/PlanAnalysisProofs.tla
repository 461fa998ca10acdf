--------------------------- MODULE PlanAnalysisProofs ---------------------------
(***************************************************************************)
(* What the rules report, for every plan, catalog, graph and configuration *)
(* of any size.                                                            *)
(***************************************************************************)
EXTENDS PlanAnalysis, ConnectivityProofs, FiniteSetTheorems, TLAPS

-----------------------------------------------------------------------------
(* Nth enumerates a finite set.                                             *)

LinearOrder(D, R) ==
  /\ \A i \in D : <<i, i>> \notin R
  /\ \A i, j \in D : i # j => <<i, j>> \in R \/ <<j, i>> \in R
  /\ \A i, j, k \in D : <<i, j>> \in R /\ <<j, k>> \in R => <<i, k>> \in R

Ahead(D, R, i) == {j \in D : <<j, i>> \in R}

\* Whoever is ahead has fewer ahead of it.
LEMMA FewerAhead ==
  ASSUME NEW D, IsFiniteSet(D), NEW R, LinearOrder(D, R),
         NEW i \in D, NEW j \in D, <<i, j>> \in R
  PROVE  Cardinality(Ahead(D, R, i)) < Cardinality(Ahead(D, R, j))
<1>1. Ahead(D, R, i) \in SUBSET Ahead(D, R, j) /\ i \in Ahead(D, R, j) \ Ahead(D, R, i)
  BY DEF Ahead, LinearOrder
<1>2. IsFiniteSet(Ahead(D, R, j))
  BY FS_Subset DEF Ahead
<1>3. Cardinality(Ahead(D, R, i)) \in Nat /\ Cardinality(Ahead(D, R, j)) \in Nat
  BY <1>1, <1>2, FS_Subset, FS_CardinalityType
<1>4. Cardinality(Ahead(D, R, i)) # Cardinality(Ahead(D, R, j))
  BY <1>1, <1>2, FS_Subset
<1> QED BY <1>1, <1>2, <1>3, <1>4, FS_Subset

LEMMA NthEnumerates ==
  ASSUME NEW D, IsFiniteSet(D), NEW R, LinearOrder(D, R)
  PROVE  /\ Cardinality(D) \in Nat
         /\ \A n \in 1..Cardinality(D) :
              Nth(D, R, n) \in D /\ 1 + Cardinality(Ahead(D, R, Nth(D, R, n))) = n
         /\ \A i \in D : \E n \in 1..Cardinality(D) : Nth(D, R, n) = i
<1> DEFINE N == Cardinality(D)
           Place(i) == 1 + Cardinality(Ahead(D, R, i))
           place == [i \in D |-> Place(i)]
<1>1. N \in Nat
  BY FS_CardinalityType
<1>2. \A i \in D : Cardinality(Ahead(D, R, i)) \in Nat /\ Place(i) \in 1..N
  <2> SUFFICES ASSUME NEW i \in D
               PROVE  Cardinality(Ahead(D, R, i)) \in Nat /\ Place(i) \in 1..N
    OBVIOUS
  <2>1. Ahead(D, R, i) \in SUBSET (D \ {i})
    BY DEF Ahead, LinearOrder
  <2>2. IsFiniteSet(D \ {i}) /\ Cardinality(D \ {i}) = N - 1
    BY FS_RemoveElement
  <2>3. Cardinality(Ahead(D, R, i)) \in Nat /\ Cardinality(Ahead(D, R, i)) <= N - 1
    BY <2>1, <2>2, FS_Subset, FS_CardinalityType
  <2> QED BY <2>3, <1>1
<1>3. \A i, j \in D : Place(i) = Place(j) => i = j
  <2> SUFFICES ASSUME NEW i \in D, NEW j \in D, <<i, j>> \in R PROVE Place(i) # Place(j)
    BY DEF LinearOrder
  <2>1. Cardinality(Ahead(D, R, i)) < Cardinality(Ahead(D, R, j))
    BY FewerAhead
  <2> QED BY <1>2, <2>1
<1>4. place \in Injection(D, 1..N)
  BY <1>2, <1>3 DEF Injection, IsInjective
<1>5. IsFiniteSet(1..N) /\ Cardinality(1..N) = N
  BY <1>1, FS_Interval
<1>6. place \in Surjection(D, 1..N)
  BY <1>4, <1>5, FS_Injection
<1>7. \A n \in 1..N : \E i \in D : Place(i) = n
  BY <1>6 DEF Surjection
<1>8. \A n : Nth(D, R, n) = CHOOSE i \in D : Place(i) = n
  BY DEF Nth, Ahead
<1>9. \A i \in D : Nth(D, R, Place(i)) = i
  BY <1>3, <1>8
<1> QED BY <1>1, <1>2, <1>7, <1>8, <1>9

-----------------------------------------------------------------------------
(* Sorted and the concatenation keep the diagnostics.                       *)

Members(s) == {s[i] : i \in DOMAIN s}
Listing(s, n) == DOMAIN s = 1..n
Comparable(s) == \A d \in Members(s) : d.rule \in Int /\ d.relation \in Int

Rank(d) == IF d.severity = "error" THEN 0 ELSE 1

LEMMA BeforeLexicographic ==
  ASSUME NEW a, NEW b
  PROVE  Before(a, b) <=>
           \/ Rank(a) < Rank(b)
           \/ Rank(a) = Rank(b) /\ a.rule < b.rule
           \/ Rank(a) = Rank(b) /\ a.rule = b.rule /\ a.relation < b.relation
<1>1. \A d : Key(d)[1] = Rank(d) /\ Key(d)[2] = d.rule /\ Key(d)[3] = d.relation
  BY DEF Key, Rank
<1>2. Before(a, b) <=>
        \/ Key(a)[1] < Key(b)[1]
        \/ Key(a)[2] < Key(b)[2] /\ Key(a)[1] = Key(b)[1]
        \/ Key(a)[3] < Key(b)[3] /\ Key(a)[1] = Key(b)[1] /\ Key(a)[2] = Key(b)[2]
  <2>1. \A j : (j \in 1..0 <=> FALSE) /\ (j \in 1..1 <=> j = 1)
               /\ (j \in 1..2 <=> j = 1 \/ j = 2)
    OBVIOUS
  <2>2. 1..3 = {1, 2, 3} /\ 1 - 1 = 0 /\ 2 - 1 = 1 /\ 3 - 1 = 2
    OBVIOUS
  <2> HIDE DEF Key
  <2> QED BY <2>1, <2>2 DEF Before
<1> QED BY <1>1, <1>2

LEMMA OrderLinear ==
  ASSUME NEW n \in Nat, NEW s, Listing(s, n), Comparable(s)
  PROVE  LinearOrder(DOMAIN s, Order(s))
<1> DEFINE Less(i, j) ==
             \/ Rank(s[i]) < Rank(s[j])
             \/ Rank(s[i]) = Rank(s[j]) /\ s[i].rule < s[j].rule
             \/ /\ Rank(s[i]) = Rank(s[j]) /\ s[i].rule = s[j].rule
                /\ s[i].relation < s[j].relation
           Equal(i, j) == /\ Rank(s[i]) = Rank(s[j]) /\ s[i].rule = s[j].rule
                          /\ s[i].relation = s[j].relation
<1>1. \A i \in DOMAIN s : /\ i \in Int /\ Rank(s[i]) \in Int
                          /\ s[i].rule \in Int /\ s[i].relation \in Int
  BY DEF Listing, Comparable, Members, Rank
<1>2. \A i, j \in DOMAIN s : <<i, j>> \in Order(s) <=> Less(i, j) \/ (Equal(i, j) /\ i < j)
  <2> SUFFICES ASSUME NEW i \in DOMAIN s, NEW j \in DOMAIN s
               PROVE  <<i, j>> \in Order(s) <=> Less(i, j) \/ (Equal(i, j) /\ i < j)
    OBVIOUS
  <2>1. <<i, j>> \in Order(s) <=>
          Before(s[i], s[j]) \/ (~Before(s[j], s[i]) /\ i < j)
    BY DEF Order
  <2>2. (Before(s[i], s[j]) <=> Less(i, j)) /\ (Before(s[j], s[i]) <=> Less(j, i))
    BY BeforeLexicographic
  <2>3. ~Less(j, i) <=> Less(i, j) \/ Equal(i, j)
    BY <1>1
  <2> QED BY <2>1, <2>2, <2>3
<1>3. \A i \in DOMAIN s : <<i, i>> \notin Order(s)
  BY <1>1, <1>2
<1>4. \A i, j \in DOMAIN s : i # j => <<i, j>> \in Order(s) \/ <<j, i>> \in Order(s)
  BY <1>1, <1>2
<1>5. \A i, j, k \in DOMAIN s :
        <<i, j>> \in Order(s) /\ <<j, k>> \in Order(s) => <<i, k>> \in Order(s)
  BY <1>1, <1>2
<1> QED BY <1>3, <1>4, <1>5 DEF LinearOrder

LEMMA SortedKeeps ==
  ASSUME NEW n \in Nat, NEW s, Listing(s, n), Comparable(s)
  PROVE  Listing(Sorted(s), n) /\ Members(Sorted(s)) = Members(s)
<1>1. IsFiniteSet(DOMAIN s) /\ Cardinality(DOMAIN s) = n
  BY FS_Interval DEF Listing
<1>2. /\ \A k \in 1..n : Nth(DOMAIN s, Order(s), k) \in DOMAIN s
      /\ \A i \in DOMAIN s : \E k \in 1..n : Nth(DOMAIN s, Order(s), k) = i
  BY <1>1, OrderLinear, NthEnumerates
<1>3. \A k \in DOMAIN s : Sorted(s)[k] = s[Nth(DOMAIN s, Order(s), k)]
  BY DEF Sorted
<1>4. DOMAIN Sorted(s) = DOMAIN s /\ DOMAIN s = 1..n
  BY DEF Sorted, Listing
<1>5. Members(Sorted(s)) \subseteq Members(s)
  BY <1>2, <1>3, <1>4 DEF Members
<1>6. Members(s) \subseteq Members(Sorted(s))
  BY <1>2, <1>3, <1>4 DEF Members
<1> QED BY <1>4, <1>5, <1>6 DEF Listing

LEMMA ConcatKeeps ==
  ASSUME NEW T, NEW s \in Seq(T), NEW t \in Seq(T)
  PROVE  s \o t \in Seq(T) /\ Members(s \o t) = Members(s) \union Members(t)
<1>1. /\ s \o t \in Seq(T) /\ Len(s) \in Nat /\ Len(t) \in Nat
      /\ DOMAIN s = 1..Len(s) /\ DOMAIN t = 1..Len(t)
      /\ DOMAIN (s \o t) = 1..(Len(s) + Len(t))
      /\ \A i \in DOMAIN (s \o t) :
           (s \o t)[i] = IF i <= Len(s) THEN s[i] ELSE t[i - Len(s)]
  OBVIOUS
<1>2. Members(s \o t) \subseteq Members(s) \union Members(t)
  BY <1>1 DEF Members
<1>3. \A i \in DOMAIN s : i \in DOMAIN (s \o t) /\ (s \o t)[i] = s[i]
  BY <1>1
<1>4. \A i \in DOMAIN t : i + Len(s) \in DOMAIN (s \o t) /\ (s \o t)[i + Len(s)] = t[i]
  BY <1>1
<1>5. Members(s) \subseteq Members(s \o t)
  BY <1>3 DEF Members
<1>6. Members(t) \subseteq Members(s \o t)
  BY <1>4 DEF Members
<1> QED BY <1>1, <1>2, <1>5, <1>6

-----------------------------------------------------------------------------
(* What a report of typed evidence lists.                                   *)

InputTyped(in) ==
  /\ in.facts \in StatementFacts
  /\ Len(in.plan.nodes) \in Nat \ {0}
  /\ DOMAIN in.plan.nodes = 1..Len(in.plan.nodes)
  /\ \A i \in DOMAIN in.plan.nodes :
       in.plan.nodes[i].relation \in Nat /\ in.plan.nodes[i].rows \in Nat

ScanDiagnostic(in, i) ==
  Diagnostic(102, "warning", in.plan.nodes[i].relation, {in.plan.nodes[i].alias})

Raised(in, cf) ==
  Members(MissingWhere(in, cf)) \union Members(LargeAffectedRows(in, cf))
    \union {ScanDiagnostic(in, i) : i \in LargeScans(in, cf)}
    \union Members(LargeResultSet(in, cf)) \union Members(CartesianJoin(in, cf))

LEMMA ScansListed ==
  ASSUME NEW in, NEW cf, InputTyped(in)
  PROVE  /\ \E n \in Nat : Listing(LargeSequentialScans(in, cf), n)
         /\ Members(LargeSequentialScans(in, cf)) =
              {ScanDiagnostic(in, i) : i \in LargeScans(in, cf)}
<1> DEFINE scans == LargeScans(in, cf)
           order == {e \in scans \X scans : e[1] < e[2]}
           n == Cardinality(scans)
           s == LargeSequentialScans(in, cf)
<1>1. scans \in SUBSET (1..Len(in.plan.nodes)) /\ IsFiniteSet(1..Len(in.plan.nodes))
  BY FS_Interval DEF LargeScans, InputTyped
<1>2. IsFiniteSet(scans) /\ scans \subseteq Int
  BY <1>1, FS_Subset
<1>3. LinearOrder(scans, order)
  BY <1>2 DEF LinearOrder
<1>4. /\ n \in Nat
      /\ \A k \in 1..n : Nth(scans, order, k) \in scans
      /\ \A i \in scans : \E k \in 1..n : Nth(scans, order, k) = i
  BY <1>2, <1>3, NthEnumerates
<1>5. s = [k \in 1..n |-> ScanDiagnostic(in, Nth(scans, order, k))]
  BY DEF LargeSequentialScans, ScanDiagnostic
<1> HIDE DEF scans, order, n, s
<1>6. Members(s) \subseteq {ScanDiagnostic(in, i) : i \in scans}
  BY <1>4, <1>5 DEF Members
<1>7. {ScanDiagnostic(in, i) : i \in scans} \subseteq Members(s)
  BY <1>4, <1>5 DEF Members
<1>8. Listing(s, n)
  BY <1>5 DEF Listing
<1> QED BY <1>4, <1>6, <1>7, <1>8 DEF scans, s

\* Each rule raises diagnostics of its own.
LEMMA RaisedKinds ==
  ASSUME NEW in, NEW cf, InputTyped(in)
  PROVE  /\ \A d \in Members(MissingWhere(in, cf)) :
              d.rule \in {1, 2} /\ d.severity = "error" /\ d.relation \in Nat
         /\ \A d \in Members(LargeAffectedRows(in, cf)) :
              d.rule = 101 /\ d.severity = "warning" /\ d.relation \in Nat
         /\ \A i \in LargeScans(in, cf) :
              LET d == ScanDiagnostic(in, i)
              IN d.rule = 102 /\ d.severity = "warning" /\ d.relation \in Nat
         /\ \A d \in Members(LargeResultSet(in, cf)) :
              d.rule = 103 /\ d.severity = "warning" /\ d.relation \in Nat
         /\ \A d \in Members(CartesianJoin(in, cf)) :
              d.rule = 104 /\ d.severity = "warning" /\ d.relation \in Nat
<1>1. Target(in) \in Nat
  <2>1. 1 \in DOMAIN in.plan.nodes
    BY DEF InputTyped
  <2> QED BY <2>1 DEF Target, InputTyped, StatementFacts
<1>2. \A d \in Members(MissingWhere(in, cf)) :
        d.rule \in {1, 2} /\ d.severity = "error" /\ d.relation \in Nat
  BY <1>1 DEF Members, MissingWhere, Diagnostic
<1>3. \A d \in Members(LargeAffectedRows(in, cf)) :
        d.rule = 101 /\ d.severity = "warning" /\ d.relation \in Nat
  BY <1>1 DEF Members, LargeAffectedRows, Diagnostic
<1>4. \A i \in LargeScans(in, cf) :
        LET d == ScanDiagnostic(in, i)
        IN d.rule = 102 /\ d.severity = "warning" /\ d.relation \in Nat
  BY DEF LargeScans, ScanDiagnostic, Diagnostic, InputTyped
<1>5. \A d \in Members(LargeResultSet(in, cf)) :
        d.rule = 103 /\ d.severity = "warning" /\ d.relation \in Nat
  BY DEF Members, LargeResultSet, Diagnostic, None
<1>6. \A d \in Members(CartesianJoin(in, cf)) :
        d.rule = 104 /\ d.severity = "warning" /\ d.relation \in Nat
  BY DEF Members, CartesianJoin, Diagnostic, None
<1> QED BY <1>2, <1>3, <1>4, <1>5, <1>6

LEMMA AtMostOne ==
  ASSUME NEW x, NEW s, s = <<x>> \/ s = <<>>
  PROVE  s \in Seq(Members(s))
<1>1. CASE s = <<>>
  BY <1>1
<1>2. CASE s = <<x>>
  <2>1. Members(s) = {x}
    BY <1>2 DEF Members
  <2> QED BY <1>2, <2>1
<1> QED BY <1>1, <1>2

\* What the rules raise, before it is sorted.
Raising(in, cf) ==
  MissingWhere(in, cf) \o LargeAffectedRows(in, cf) \o LargeSequentialScans(in, cf)
    \o LargeResultSet(in, cf) \o CartesianJoin(in, cf)

\* What each rule raises is a sequence.
LEMMA PartsListed ==
  ASSUME NEW in, NEW cf, InputTyped(in)
  PROVE  LET T == Raised(in, cf)
         IN /\ MissingWhere(in, cf) \in Seq(T) /\ LargeAffectedRows(in, cf) \in Seq(T)
            /\ LargeSequentialScans(in, cf) \in Seq(T) /\ LargeResultSet(in, cf) \in Seq(T)
            /\ CartesianJoin(in, cf) \in Seq(T)
<1> DEFINE s1 == MissingWhere(in, cf)
           s2 == LargeAffectedRows(in, cf)
           s3 == LargeSequentialScans(in, cf)
           s4 == LargeResultSet(in, cf)
           s5 == CartesianJoin(in, cf)
           T == Raised(in, cf)
<1>1. s1 \in Seq(Members(s1)) /\ s2 \in Seq(Members(s2))
  BY AtMostOne DEF MissingWhere, LargeAffectedRows
<1>2. s4 \in Seq(Members(s4)) /\ s5 \in Seq(Members(s5))
  BY AtMostOne DEF LargeResultSet, CartesianJoin
<1>3. /\ Members(s1) \subseteq T /\ Members(s2) \subseteq T /\ Members(s3) \subseteq T
      /\ Members(s4) \subseteq T /\ Members(s5) \subseteq T
      /\ T = Members(s1) \union Members(s2) \union Members(s3)
               \union Members(s4) \union Members(s5)
  BY ScansListed DEF Raised
<1>4. s3 \in Seq(T)
  <2>1. PICK n \in Nat : Listing(s3, n)
    BY ScansListed
  <2>2. s3 \in [1..n -> T]
    <3>1. s3 = [k \in 1..n |-> s3[k]]
      BY <2>1 DEF Listing, LargeSequentialScans
    <3>2. \A k \in 1..n : s3[k] \in T
      BY <1>3, <2>1 DEF Listing, Members
    <3> QED BY <3>1, <3>2
  <2> QED BY <2>2
<1>5. s1 \in Seq(T) /\ s2 \in Seq(T) /\ s4 \in Seq(T) /\ s5 \in Seq(T)
  BY <1>1, <1>2, <1>3
<1> QED BY <1>4, <1>5

LEMMA RaisingListed ==
  ASSUME NEW in, NEW cf, InputTyped(in)
  PROVE  /\ Raising(in, cf) \in Seq(Raised(in, cf))
         /\ Members(Raising(in, cf)) = Raised(in, cf)
         /\ Len(Raising(in, cf)) \in Nat /\ Listing(Raising(in, cf), Len(Raising(in, cf)))
         /\ Comparable(Raising(in, cf))
         /\ Analyze(in, cf).diagnostics = Sorted(Raising(in, cf))
<1> DEFINE s1 == MissingWhere(in, cf)
           s2 == LargeAffectedRows(in, cf)
           s3 == LargeSequentialScans(in, cf)
           s4 == LargeResultSet(in, cf)
           s5 == CartesianJoin(in, cf)
           T == Raised(in, cf)
           t2 == s1 \o s2
           t3 == t2 \o s3
           t4 == t3 \o s4
           all == t4 \o s5
<1>3. T = Members(s1) \union Members(s2) \union Members(s3)
            \union Members(s4) \union Members(s5)
  BY ScansListed DEF Raised
<1>4. s3 \in Seq(T)
  BY PartsListed
<1>5. s1 \in Seq(T) /\ s2 \in Seq(T) /\ s4 \in Seq(T) /\ s5 \in Seq(T)
  BY PartsListed
<1> HIDE DEF s1, s2, s3, s4, s5, T
<1>6. t2 \in Seq(T) /\ Members(t2) = Members(s1) \union Members(s2)
  BY <1>5, ConcatKeeps
<1> HIDE DEF t2
<1>7. t3 \in Seq(T) /\ Members(t3) = Members(t2) \union Members(s3)
  BY <1>4, <1>6, ConcatKeeps
<1> HIDE DEF t3
<1>8. t4 \in Seq(T) /\ Members(t4) = Members(t3) \union Members(s4)
  BY <1>5, <1>7, ConcatKeeps
<1> HIDE DEF t4
<1>9. all \in Seq(T) /\ Members(all) = T
  <2>1. all \in Seq(T) /\ Members(all) = Members(t4) \union Members(s5)
    BY <1>5, <1>8, ConcatKeeps
  <2> QED BY <1>3, <1>6, <1>7, <1>8, <2>1
<1> HIDE DEF all
<1>10. Len(all) \in Nat /\ Listing(all, Len(all))
  BY <1>9 DEF Listing
<1>11. Comparable(all)
  BY <1>9, RaisedKinds DEF Comparable, Raised, T
<1>12. all = Raising(in, cf)
  BY DEF Raising, all, t4, t3, t2, s1, s2, s3, s4, s5
<1>13. Analyze(in, cf).diagnostics = Sorted(Raising(in, cf))
  BY DEF Analyze, Report, Raising
<1> QED BY <1>9, <1>10, <1>11, <1>12, <1>13 DEF T

\* Sorting keeps what the rules raise.
LEMMA AnalyzeRaises ==
  ASSUME NEW in, NEW cf, InputTyped(in)
  PROVE  LET ds == Analyze(in, cf).diagnostics
         IN (\E n \in Nat : Listing(ds, n)) /\ Members(ds) = Raised(in, cf)
<1>1. /\ Len(Raising(in, cf)) \in Nat /\ Listing(Raising(in, cf), Len(Raising(in, cf)))
      /\ Comparable(Raising(in, cf)) /\ Members(Raising(in, cf)) = Raised(in, cf)
      /\ Analyze(in, cf).diagnostics = Sorted(Raising(in, cf))
  BY RaisingListed
<1> QED BY <1>1, SortedKeeps

LEMMA CountPositive ==
  ASSUME NEW n \in Nat, NEW s, Listing(s, n), NEW severity
  PROVE  Count(s, severity) > 0 <=> \E d \in Members(s) : d.severity = severity
<1> DEFINE D == {i \in DOMAIN s : s[i].severity = severity}
<1>1. IsFiniteSet(D)
  BY FS_Interval, FS_Subset DEF Listing
<1>2. Cardinality(D) \in Nat /\ (Cardinality(D) = 0 <=> D = {})
  BY <1>1, FS_CardinalityType, FS_EmptySet
<1>3. D # {} <=> \E d \in Members(s) : d.severity = severity
  BY DEF Members
<1> QED BY <1>2, <1>3 DEF Count

-----------------------------------------------------------------------------
(* The inductive invariant: what each stage has made of the case.           *)

Evidence(c) ==
  LET plan == NormalizedPlan(c.raw, c.facts.kind)
  IN [facts |-> c.facts, plan |-> plan,
      stats |-> [r \in Mentioned(plan.nodes) |->
                   IF r \in DOMAIN c.catalog /\ c.catalog[r] >= 0
                   THEN c.catalog[r] ELSE NoEstimate]]

AInv ==
  /\ case \in Cases /\ config \in Configs
  /\ stage \in {"config", "plan", "stats", "analyze", "done",
                "invalid_config", "invalid_plan"}
  /\ stage \notin {"config", "invalid_config"} => Valid(config)
  /\ stage \in {"stats", "analyze", "done"} => ~NormalizationError(case.raw)
  /\ input = IF stage \in {"analyze", "done"} THEN Evidence(case)
             ELSE IF stage = "stats"
               THEN [facts |-> case.facts, plan |-> Evidence(case).plan, stats |-> <<>>]
             ELSE [facts |-> case.facts, plan |-> NoPlan, stats |-> <<>>]
  /\ report = IF stage = "done" THEN Analyze(input, config) ELSE Report(<<>>)

LEMMA AnalysisInvariant == Spec => []AInv
<1>1. Init => AInv
  BY DEF Init, AInv
<1>2. ASSUME AInv, [Next]_vars PROVE AInv'
  <2>1. CASE Validate
    BY <1>2, <2>1 DEF AInv, Validate
  <2>2. CASE Normalize
    <3>1. CASE NormalizationError(case.raw)
      BY <1>2, <2>2, <3>1 DEF AInv, Normalize
    <3>2. CASE ~NormalizationError(case.raw)
      <4>1. stage = "plan" /\ stage' = "stats" /\ UNCHANGED <<case, config, report>>
        BY <2>2, <3>2 DEF Normalize
      <4>2. /\ input = [facts |-> case.facts, plan |-> NoPlan, stats |-> <<>>]
            /\ input' = [input EXCEPT !.plan = NormalizedPlan(case.raw, case.facts.kind)]
        BY <1>2, <2>2, <3>2 DEF AInv, Normalize
      <4>3. input' =
              [facts |-> case.facts, plan |-> Evidence(case).plan, stats |-> <<>>]
        BY <4>2 DEF Evidence
      <4> QED BY <1>2, <3>2, <4>1, <4>3 DEF AInv
    <3> QED BY <3>1, <3>2
  <2>3. CASE LoadRelationStats
    <3>1. stage = "stats" /\ stage' = "analyze" /\ UNCHANGED <<case, config, report>>
      BY <2>3 DEF LoadRelationStats
    <3>2. input =
            [facts |-> case.facts, plan |-> Evidence(case).plan, stats |-> <<>>]
      BY <1>2, <3>1 DEF AInv
    <3>3. input' = Evidence(case)
      BY <2>3, <3>2 DEF LoadRelationStats, Evidence
    <3> QED BY <1>2, <3>1, <3>3 DEF AInv
  <2>4. CASE AnalyzeEvidence
    BY <1>2, <2>4 DEF AInv, AnalyzeEvidence
  <2>5. CASE UNCHANGED vars
    BY <1>2, <2>5 DEF AInv, vars
  <2> QED BY <1>2, <2>1, <2>2, <2>3, <2>4, <2>5 DEF Next
<1> QED BY <1>1, <1>2, PTL DEF Spec

LEMMA EvidenceTyped ==
  ASSUME NEW c \in Cases, ~NormalizationError(c.raw)
  PROVE  /\ InputTyped(Evidence(c))
         /\ Len(c.raw.nodes) \in Nat \ {0} /\ DOMAIN c.raw.nodes = 1..Len(c.raw.nodes)
         /\ Evidence(c).plan.nodes = [i \in DOMAIN c.raw.nodes |-> Node(c.raw.nodes[i])]
         /\ \A i \in DOMAIN c.raw.nodes : Usable(c.raw.nodes[i])
         /\ Evidence(c).plan.affected \in Nat \union {NoEstimate}
         /\ \A r \in DOMAIN Evidence(c).stats :
              Evidence(c).stats[r] \in Nat \union {NoEstimate}
<1> DEFINE raw == c.raw.nodes
           nodes == Evidence(c).plan.nodes
<1>1. /\ Len(raw) \in Nat \ {0} /\ DOMAIN raw = 1..Len(raw)
      /\ \A i \in DOMAIN raw : raw[i].relation \in (Nat \ {None}) \union {Absent, Malformed}
  <2>1. /\ raw \in Seq({raw[i] : i \in DOMAIN raw}) /\ raw # <<>>
        /\ \A i \in DOMAIN raw : raw[i].relation \in (Nat \ {None}) \union {Absent, Malformed}
    BY CasesAssumption DEF NormalizationError
  <2> QED BY <2>1
<1>2. \A i \in DOMAIN raw : Usable(raw[i])
  BY DEF NormalizationError
<1>3. nodes = [i \in DOMAIN raw |-> Node(raw[i])]
  BY DEF Evidence, NormalizedPlan
<1>4. \A i \in DOMAIN raw : nodes[i].relation \in Nat /\ nodes[i].rows \in Nat
  BY <1>1, <1>2, <1>3 DEF Node, Relation, Usable, RelationUsable, None
<1>5. Len(nodes) = Len(raw) /\ DOMAIN nodes = DOMAIN raw
  BY <1>1, <1>3
<1>6. Evidence(c).facts \in StatementFacts
  BY CasesAssumption DEF Evidence
<1>7. InputTyped(Evidence(c))
  BY <1>1, <1>4, <1>5, <1>6 DEF InputTyped
<1>8. Evidence(c).plan.affected \in Nat \union {NoEstimate}
  <2>1. Evidence(c).plan.affected = AffectedRows(raw, c.facts.kind)
    BY DEF Evidence, NormalizedPlan
  <2>2. ASSUME \E i \in DOMAIN raw : Children(raw, 1) = {i}
        PROVE  raw[CHOOSE i \in DOMAIN raw : Children(raw, 1) = {i}].rows \in Nat
    BY <1>2, <2>2 DEF Usable
  <2> QED BY <2>1, <2>2 DEF AffectedRows
<1>9. \A r \in DOMAIN Evidence(c).stats :
        Evidence(c).stats[r] \in Nat \union {NoEstimate}
  <2> DEFINE Live(r) == IF r \in DOMAIN c.catalog /\ c.catalog[r] >= 0
                        THEN c.catalog[r] ELSE NoEstimate
  <2>1. \A r : Live(r) \in Nat \union {NoEstimate}
    <3> SUFFICES ASSUME NEW r PROVE Live(r) \in Nat \union {NoEstimate}
      OBVIOUS
    <3>1. r \in DOMAIN c.catalog => c.catalog[r] \in Int
      BY CasesAssumption
    <3> QED BY <3>1
  <2>2. Evidence(c).stats = [r \in Mentioned(nodes) |-> Live(r)]
    BY DEF Evidence
  <2> HIDE DEF Live
  <2> QED BY <2>1, <2>2
<1> QED BY <1>1, <1>2, <1>3, <1>7, <1>8, <1>9

\* What a finished analysis has to say.
LEMMA DoneRaised ==
  ASSUME AInv, Done
  PROVE  /\ input = Evidence(case) /\ InputTyped(input)
         /\ \E n \in Nat : Listing(Diagnostics, n)
         /\ Members(Diagnostics) = Raised(input, config)
         /\ report = Report(Diagnostics)
<1>1. input = Evidence(case) /\ InputTyped(input) /\ report = Analyze(input, config)
  BY EvidenceTyped DEF AInv, Done
<1>2. report = Report(Diagnostics)
  BY <1>1 DEF Analyze, Report, Diagnostics
<1>3. Diagnostics = Analyze(input, config).diagnostics
  BY <1>1 DEF Diagnostics
<1> QED BY <1>1, <1>2, <1>3, AnalyzeRaises

\* Every normalized input and report is typed, whatever the server answers.
THEOREM AnalysisTyped == Spec => []TypeOK
<1>1. ASSUME AInv PROVE TypeOK
  <2>1. CASE stage \in {"stats", "analyze", "done"}
    <3>1. /\ case \in Cases /\ ~NormalizationError(case.raw)
          /\ input.plan = Evidence(case).plan
          /\ input.stats = Evidence(case).stats \/ input.stats = <<>>
      BY <1>1, <2>1 DEF AInv
    <3>2. \A i \in DOMAIN input.plan.nodes :
            /\ input.plan.nodes[i].kind \in KnownTypes \union {"Other"}
            /\ input.plan.nodes[i].relation \in Nat
            /\ input.plan.nodes[i].rows \in Nat
      <4>1. /\ InputTyped(Evidence(case))
            /\ input.plan.nodes = [i \in DOMAIN case.raw.nodes |-> Node(case.raw.nodes[i])]
        BY <1>1, <2>1, <3>1, EvidenceTyped DEF AInv
      <4>2. \A n : Node(n).kind \in KnownTypes \union {"Other"}
        BY DEF Node, NodeKind
      <4> QED BY <3>1, <4>1, <4>2 DEF InputTyped
    <3>3. input.plan.affected \in Nat \union {NoEstimate}
      BY <1>1, <2>1, <3>1, EvidenceTyped DEF AInv
    <3>4. \A r \in DOMAIN input.stats : input.stats[r] \in Nat \union {NoEstimate}
      <4>1. CASE input.stats = Evidence(case).stats
        BY <3>1, <4>1, EvidenceTyped
      <4>2. CASE input.stats = <<>>
        BY <4>2
      <4> QED BY <3>1, <4>1, <4>2
    <3>5. \A i \in DOMAIN Diagnostics : Diagnostics[i].rule \in RuleIds
      <4>1. CASE Done
        <5>1. \A d \in Raised(input, config) : d.rule \in RuleIds
          BY <1>1, <4>1, DoneRaised, RaisedKinds DEF Raised, RuleIds
        <5> QED BY <1>1, <4>1, <5>1, DoneRaised DEF Members
      <4>2. CASE ~Done
        BY <1>1, <4>2 DEF AInv, Done, Diagnostics, Report
      <4> QED BY <4>1, <4>2
    <3> QED BY <1>1, <3>2, <3>3, <3>4, <3>5 DEF AInv, TypeOK
  <2>2. CASE stage \notin {"stats", "analyze", "done"}
    BY <1>1, <2>2 DEF AInv, TypeOK, NoPlan, Diagnostics, Report
  <2> QED BY <2>1, <2>2
<1> QED BY <1>1, AnalysisInvariant, PTL

\* For every statement, plan and catalog the report is an error exactly when an
\* UPDATE or DELETE without WHERE has a known target and its rule is switched on
\* (rules.rs 36-72, 310-316).
THEOREM MissingWhereFound == Spec => []MissingWhereReported
<1>1. ASSUME AInv, Done PROVE MissingWhereReported
  <2> DEFINE rule == IF case.facts.kind = "update" THEN 1 ELSE 2
             Known == case.facts.target # None \/ case.raw.nodes[1].relation # Absent
  <2>1. report.status = "errors" <=> \E d \in Raised(input, config) : d.severity = "error"
    BY <1>1, DoneRaised, CountPositive DEF Report
  <2>2. (\E d \in Raised(input, config) : d.severity = "error")
          <=> Members(MissingWhere(input, config)) # {}
    BY <1>1, DoneRaised, RaisedKinds DEF Raised
  <2>3. Members(MissingWhere(input, config)) # {} <=>
          /\ ~input.facts.hasWhere /\ input.facts.kind # "select"
          /\ config.enabled[IF input.facts.kind = "update" THEN 1 ELSE 2]
          /\ Target(input) # None
    BY DEF MissingWhere, Members
  <2>4. input.facts = case.facts
    BY <1>1, DoneRaised DEF Evidence
  <2>5. Target(input) # None <=> Known
    <3>1. ~NormalizationError(case.raw) /\ case \in Cases /\ input = Evidence(case)
      BY <1>1, DoneRaised DEF AInv, Done
    <3>2. /\ Len(case.raw.nodes) \in Nat \ {0}
          /\ DOMAIN case.raw.nodes = 1..Len(case.raw.nodes)
          /\ \A i \in DOMAIN case.raw.nodes : Usable(case.raw.nodes[i])
          /\ input.plan.nodes = [i \in DOMAIN case.raw.nodes |-> Node(case.raw.nodes[i])]
      BY <3>1, EvidenceTyped
    <3> DEFINE root == case.raw.nodes[1]
    <3>3. 1 \in DOMAIN case.raw.nodes
      BY <3>2
    <3>4. Usable(root) /\ input.plan.nodes[1] = Node(root)
      BY <3>2, <3>3
    <3>5. input.plan.nodes[1].relation = Relation(root)
      BY <3>4 DEF Node
    <3>6. root.relation \in (Nat \ {None}) \union {Absent, Malformed}
      BY <3>1, <3>3, CasesAssumption
    <3>7. Relation(root) # None <=> root.relation # Absent
      BY <3>4, <3>6 DEF Relation, Usable, RelationUsable
    <3> QED BY <2>4, <3>5, <3>7 DEF Target
  <2> QED BY <1>1, <2>1, <2>2, <2>3, <2>4, <2>5 DEF MissingWhereReported,
      LacksWhere
<1>2. ASSUME AInv PROVE MissingWhereReported
  BY <1>1, <1>2 DEF MissingWhereReported
<1> QED BY <1>2, AnalysisInvariant, PTL

-----------------------------------------------------------------------------
(* PGP104 and the partitions of the occurrences.                            *)

Divided(V, E) ==
  \E S \in SUBSET V : S # {} /\ S # V /\ Closed(V, E, S) /\ Closed(V, E, V \ S)

\* There are two components exactly when the vertices can be divided in two.
LEMMA TwoComponents ==
  ASSUME NEW V, IsFiniteSet(V), NEW E
  PROVE  Cardinality(Components(V, E)) >= 2 <=> Divided(V, E)
<1> DEFINE groups == Components(V, E)
<1>1. IsFiniteSet(groups)
  <2>1. groups \in SUBSET (SUBSET V)
    BY DEF Components, Component
  <2> QED BY <2>1, FS_SUBSET, FS_Subset
<1>2. Cardinality(groups) \in Nat
  BY <1>1, FS_CardinalityType
<1>3. ASSUME Cardinality(groups) >= 2 PROVE Divided(V, E)
  <2>1. PICK s \in V, t \in V : Component(V, E, s) # Component(V, E, t)
    <3>1. groups # {}
      BY <1>3, FS_EmptySet
    <3>2. PICK C \in groups : TRUE
      BY <3>1
    <3>3. groups # {C}
      BY <1>3, FS_Singleton
    <3>4. PICK D \in groups : D # C
      BY <3>2, <3>3
    <3> QED BY <3>2, <3>4 DEF Components
  <2> DEFINE S == Component(V, E, s)
  <2>2. s \in S /\ S \in SUBSET V
    BY ConnectedRefl DEF Component
  <2>3. t \notin S
    BY <2>1, SameComponent
  <2>4. Closed(V, E, S)
    BY ConnectedStep DEF Closed, Component
  <2>5. Closed(V, E, V \ S)
    BY <2>2, <2>4 DEF Closed, Adjacent
  <2> QED BY <2>2, <2>3, <2>4, <2>5 DEF Divided
<1>4. ASSUME Divided(V, E) PROVE Cardinality(groups) >= 2
  <2>1. PICK S \in SUBSET V : S # {} /\ S # V /\ Closed(V, E, S)
    BY <1>4 DEF Divided
  <2>2. PICK s \in S, t \in V \ S : TRUE
    BY <2>1
  <2> DEFINE A == Component(V, E, s)
             B == Component(V, E, t)
  <2>3. A \in groups /\ B \in groups
    BY <2>2 DEF Components
  <2>4. t \notin A
    BY <2>1, <2>2 DEF Component, Connected
  <2>5. t \in B
    BY <2>2, ConnectedRefl DEF Component
  <2>6. Cardinality({A} \union {B}) = Cardinality({A}) + 1
    BY <2>4, <2>5, FS_Singleton, FS_AddElement
  <2>7. {A} \union {B} \in SUBSET groups
    BY <2>3
  <2>8. Cardinality({A} \union {B}) <= Cardinality(groups)
    BY <1>1, <2>7, FS_Subset
  <2>9. Cardinality({A}) = 1
    BY FS_Singleton
  <2> QED BY <1>2, <2>6, <2>8, <2>9
<1> QED BY <1>3, <1>4

\* For every join graph a Cartesian join is reported exactly when the graph is
\* determinate and its occurrences can be divided in two parts no predicate
\* connects (rules.rs 227-308).
THEOREM CartesianJoinFound == Spec => []CartesianExact
<1>1. ASSUME AInv, Done, config.enabled[104] PROVE CartesianExact
  <2> DEFINE graph == input.facts.graph
             V == 0..(graph.count - 1)
  <2>1. (\E i \in DOMAIN Diagnostics : Diagnostics[i].rule = 104)
          <=> \E d \in Raised(input, config) : d.rule = 104
    BY <1>1, DoneRaised DEF Members
  <2>2. (\E d \in Raised(input, config) : d.rule = 104)
          <=> Members(CartesianJoin(input, config)) # {}
    BY <1>1, DoneRaised, RaisedKinds DEF Raised
  <2>3. Members(CartesianJoin(input, config)) # {} <=>
          /\ ~graph.indeterminate /\ graph.count >= 2 /\ graph.edges \subseteq V \X V
          /\ Cardinality(Components(V, graph.edges)) >= 2
    BY <1>1 DEF CartesianJoin, Members
  <2>4. graph.count \in Nat
    BY <1>1, DoneRaised DEF InputTyped, StatementFacts
  <2>5. Cardinality(Components(V, graph.edges)) >= 2 <=> Divided(V, graph.edges)
    BY <2>4, FS_Interval, TwoComponents
  <2>6. Divided(V, graph.edges) => graph.count >= 2
    <3>1. ASSUME ~(graph.count >= 2) PROVE V \subseteq {0}
      BY <2>4, <3>1
    <3> HIDE DEF V
    <3> QED BY <3>1 DEF Divided
  <2> HIDE DEF graph, V
  <2>7. (\E i \in DOMAIN Diagnostics : Diagnostics[i].rule = 104)
          <=> /\ ~graph.indeterminate /\ graph.edges \subseteq V \X V
              /\ Divided(V, graph.edges)
    BY <2>1, <2>2, <2>3, <2>5, <2>6
  <2> QED BY <2>7 DEF CartesianExact, Divided, graph, V
<1>2. ASSUME AInv PROVE CartesianExact
  BY <1>1, <1>2 DEF CartesianExact
<1> QED BY <1>2, AnalysisInvariant, PTL
-----------------------------------------------------------------------------
(* Less evidence and stricter thresholds raise less.                        *)

\* Every diagnostic of A is one of B, there with at least the same evidence.
Covers(A, B) ==
  \A d \in A : \E e \in B : /\ d.rule = e.rule /\ d.relation = e.relation
                            /\ d.evidence \subseteq e.evidence

LEMMA CoveredRules ==
  ASSUME NEW in, NEW cf, InputTyped(in), NEW weak, NEW strict, InputTyped(weak),
         weak.plan.nodes = in.plan.nodes,
         Covers(Members(MissingWhere(weak, strict)), Members(MissingWhere(in, cf))),
         Covers(Members(LargeAffectedRows(weak, strict)), Members(LargeAffectedRows(in, cf))),
         LargeScans(weak, strict) \subseteq LargeScans(in, cf),
         Covers(Members(LargeResultSet(weak, strict)), Members(LargeResultSet(in, cf))),
         Covers(Members(CartesianJoin(weak, strict)), Members(CartesianJoin(in, cf)))
  PROVE  NoneNew(Analyze(weak, strict).diagnostics, Analyze(in, cf).diagnostics)
<1> DEFINE Scans(i, c) == {ScanDiagnostic(i, n) : n \in LargeScans(i, c)}
<1>1. Scans(weak, strict) \subseteq Scans(in, cf)
  BY DEF ScanDiagnostic
<1>2. Covers(Raised(weak, strict), Raised(in, cf))
  BY <1>1 DEF Covers, Raised
<1>3. /\ Members(Analyze(weak, strict).diagnostics) = Raised(weak, strict)
      /\ Members(Analyze(in, cf).diagnostics) = Raised(in, cf)
  BY AnalyzeRaises
<1> QED BY <1>2, <1>3 DEF Covers, Members, NoneNew

LEMMA CoversItself == \A A : Covers(A, A)
  BY DEF Covers

LEMMA CoversNothing == \A A : Covers(Members(<<>>), A)
  BY DEF Covers, Members

\* PGP101 of one target: fewer triggers raise less.
LEMMA FewerTriggers ==
  ASSUME NEW in, NEW cf, NEW weak, NEW strict,
         weak.facts = in.facts, weak.plan = in.plan,
         strict.enabled = cf.enabled,
         AffectedTriggers(in.plan.affected, LiveRows(weak, Target(in)), strict)
           \subseteq AffectedTriggers(in.plan.affected, LiveRows(in, Target(in)), cf)
  PROVE  Covers(Members(LargeAffectedRows(weak, strict)), Members(LargeAffectedRows(in, cf)))
<1> DEFINE weakly == AffectedTriggers(in.plan.affected, LiveRows(weak, Target(in)), strict)
           fully == AffectedTriggers(in.plan.affected, LiveRows(in, Target(in)), cf)
           Speaks(triggers) ==
             /\ cf.enabled[101] /\ in.facts.kind # "select"
             /\ in.plan.affected # NoEstimate /\ Target(in) # None /\ triggers # {}
           Says(triggers) == IF Speaks(triggers)
                             THEN <<Diagnostic(101, "warning", Target(in), triggers)>>
                             ELSE <<>>
<1>1. Target(weak) = Target(in)
  BY DEF Target
<1>2. LargeAffectedRows(weak, strict) = Says(weakly) /\ LargeAffectedRows(in, cf) = Says(fully)
  BY <1>1 DEF LargeAffectedRows
<1>3. weakly \subseteq fully
  OBVIOUS
<1> HIDE DEF weakly, fully
<1>4. CASE Speaks(weakly)
  <2>1. Speaks(fully)
    BY <1>3, <1>4
  <2>2. /\ Members(Says(weakly)) = {Diagnostic(101, "warning", Target(in), weakly)}
        /\ Members(Says(fully)) = {Diagnostic(101, "warning", Target(in), fully)}
    BY <1>4, <2>1 DEF Members
  <2> QED BY <1>2, <1>3, <2>2 DEF Covers, Diagnostic
<1>5. CASE ~Speaks(weakly)
  BY <1>2, <1>5, CoversNothing
<1> QED BY <1>4, <1>5

\* Whatever a rule does not read leaves it alone.
LEMMA Unread ==
  ASSUME NEW in, NEW cf, NEW weak, NEW strict, strict.enabled = cf.enabled,
         weak.facts.kind = in.facts.kind, weak.facts.hasWhere = in.facts.hasWhere,
         weak.facts.target = in.facts.target, weak.plan.nodes = in.plan.nodes
  PROVE  /\ Target(weak) = Target(in)
         /\ MissingWhere(weak, strict) = MissingWhere(in, cf)
         /\ weak.facts.graph = in.facts.graph =>
              CartesianJoin(weak, strict) = CartesianJoin(in, cf)
<1>1. Target(weak) = Target(in)
  BY DEF Target
<1>2. MissingWhere(weak, strict) = MissingWhere(in, cf)
  BY <1>1 DEF MissingWhere
<1>3. weak.facts.graph = in.facts.graph => CartesianJoin(weak, strict) = CartesianJoin(in, cf)
  BY DEF CartesianJoin
<1> QED BY <1>1, <1>2, <1>3

LEMMA LessEvidence ==
  ASSUME NEW f, NEW nodes, NEW affected, NEW stats, NEW cf,
         InputTyped([facts |-> f, plan |-> [nodes |-> nodes, affected |-> affected],
                     stats |-> stats]),
         stats = [r \in DOMAIN stats |-> stats[r]]
  PROVE  LET in == [facts |-> f, plan |-> [nodes |-> nodes, affected |-> affected],
                    stats |-> stats]
             now == Analyze(in, cf).diagnostics
         IN /\ \A r \in DOMAIN stats :
                 NoneNew(Analyze([in EXCEPT !.stats[r] = NoEstimate], cf).diagnostics, now)
            /\ NoneNew(Analyze([in EXCEPT !.plan.affected = NoEstimate], cf).diagnostics, now)
            /\ NoneNew(Analyze([in EXCEPT !.facts.graph.indeterminate = TRUE], cf).diagnostics,
                       now)
<1> DEFINE plan == [nodes |-> nodes, affected |-> affected]
           in == [facts |-> f, plan |-> plan, stats |-> stats]
<1>1. ASSUME NEW r \in DOMAIN stats
      PROVE NoneNew(Analyze([in EXCEPT !.stats[r] = NoEstimate], cf).diagnostics,
                    Analyze(in, cf).diagnostics)
  <2> DEFINE weak == [facts |-> f, plan |-> plan, stats |-> [stats EXCEPT ![r] = NoEstimate]]
  <2>1. weak = [in EXCEPT !.stats[r] = NoEstimate]
    OBVIOUS
  <2>2. \A x : LiveRows(weak, x) = LiveRows(in, x) \/ LiveRows(weak, x) = NoEstimate
    BY DEF LiveRows, NoEstimate
  <2>3. InputTyped(weak)
    BY DEF InputTyped
  <2>4. AffectedTriggers(affected, LiveRows(weak, Target(in)), cf)
          \subseteq AffectedTriggers(affected, LiveRows(in, Target(in)), cf)
    BY <2>2 DEF AffectedTriggers
  <2>5. LargeScans(weak, cf) \subseteq LargeScans(in, cf)
    BY <2>2 DEF LargeScans, ScansLargely
  <2>6. LargeResultSet(weak, cf) = LargeResultSet(in, cf)
    BY DEF LargeResultSet
  <2>7. /\ MissingWhere(weak, cf) = MissingWhere(in, cf)
        /\ CartesianJoin(weak, cf) = CartesianJoin(in, cf)
    BY Unread
  <2>8. Covers(Members(LargeAffectedRows(weak, cf)), Members(LargeAffectedRows(in, cf)))
    BY <2>4, FewerTriggers
  <2>9. weak.plan.nodes = in.plan.nodes
    OBVIOUS
  <2> HIDE DEF weak, in
  <2>10. NoneNew(Analyze(weak, cf).diagnostics, Analyze(in, cf).diagnostics)
    <3>1. InputTyped(in)
      BY DEF in
    <3> QED BY <2>3, <2>5, <2>6, <2>7, <2>8, <2>9, <3>1, CoversItself, CoveredRules
  <2> QED BY <2>1, <2>10
<1>2. NoneNew(Analyze([in EXCEPT !.plan.affected = NoEstimate], cf).diagnostics,
              Analyze(in, cf).diagnostics)
  <2> DEFINE weak == [facts |-> f, plan |-> [nodes |-> nodes, affected |-> NoEstimate],
                      stats |-> stats]
  <2>1. weak = [in EXCEPT !.plan.affected = NoEstimate]
    OBVIOUS
  <2>2. InputTyped(weak) /\ weak.plan.nodes = in.plan.nodes
    BY DEF InputTyped
  <2>3. LargeScans(weak, cf) \subseteq LargeScans(in, cf)
    BY DEF LargeScans, ScansLargely, LiveRows
  <2>4. LargeResultSet(weak, cf) = LargeResultSet(in, cf)
    BY DEF LargeResultSet
  <2>5. /\ MissingWhere(weak, cf) = MissingWhere(in, cf)
        /\ CartesianJoin(weak, cf) = CartesianJoin(in, cf)
    BY Unread
  <2>6. LargeAffectedRows(weak, cf) = <<>>
    BY DEF LargeAffectedRows
  <2> HIDE DEF weak, in
  <2>7. NoneNew(Analyze(weak, cf).diagnostics, Analyze(in, cf).diagnostics)
    <3>1. InputTyped(in)
      BY DEF in
    <3> QED BY <2>2, <2>3, <2>4, <2>5, <2>6, <3>1, CoversItself, CoversNothing, CoveredRules
  <2> QED BY <2>1, <2>7
<1>3. NoneNew(Analyze([in EXCEPT !.facts.graph.indeterminate = TRUE], cf).diagnostics,
              Analyze(in, cf).diagnostics)
  <2> DEFINE weak == [facts |-> [f EXCEPT !.graph.indeterminate = TRUE], plan |-> plan,
                      stats |-> stats]
  <2>1. weak = [in EXCEPT !.facts.graph.indeterminate = TRUE]
    <3>1. [in EXCEPT !.facts.graph.indeterminate = TRUE]
            = [in EXCEPT !.facts = [in.facts EXCEPT !.graph.indeterminate = TRUE]]
      BY Zenon
    <3>2. in.facts = f
      OBVIOUS
    <3> DEFINE unproven == [f EXCEPT !.graph.indeterminate = TRUE]
    <3> HIDE DEF unproven
    <3>3. [facts |-> unproven, plan |-> plan, stats |-> stats]
            = [in EXCEPT !.facts = unproven]
      OBVIOUS
    <3> QED BY <3>1, <3>2, <3>3 DEF unproven
  <2>2. /\ weak.facts \in StatementFacts
        /\ weak.facts.kind = f.kind /\ weak.facts.hasWhere = f.hasWhere
        /\ weak.facts.target = f.target /\ weak.facts.graph.indeterminate
    <3>1. f \in StatementFacts
      BY DEF InputTyped
    <3> QED BY <3>1 DEF StatementFacts
  <2>3. InputTyped(weak) /\ weak.plan.nodes = in.plan.nodes
    BY <2>2 DEF InputTyped
  <2>4. LargeScans(weak, cf) \subseteq LargeScans(in, cf)
    BY DEF LargeScans, ScansLargely, LiveRows
  <2>5. LargeResultSet(weak, cf) = LargeResultSet(in, cf)
    BY <2>2 DEF LargeResultSet
  <2>6. Target(weak) = Target(in) /\ MissingWhere(weak, cf) = MissingWhere(in, cf)
    <3>1. in.facts = f
      OBVIOUS
    <3> HIDE DEF weak, in
    <3> QED BY <2>2, <2>3, <3>1, Unread
  <2>7. LargeAffectedRows(weak, cf) = LargeAffectedRows(in, cf)
    <3>1. LiveRows(weak, Target(in)) = LiveRows(in, Target(in))
      BY DEF LiveRows
    <3> QED BY <2>2, <2>6, <3>1 DEF LargeAffectedRows
  <2>8. CartesianJoin(weak, cf) = <<>>
    BY <2>2 DEF CartesianJoin
  <2> HIDE DEF weak, in
  <2>9. NoneNew(Analyze(weak, cf).diagnostics, Analyze(in, cf).diagnostics)
    <3>1. InputTyped(in)
      BY DEF in
    <3> QED BY <2>3, <2>4, <2>5, <2>6, <2>7, <2>8, <3>1, CoversItself, CoversNothing,
               CoveredRules
  <2> QED BY <2>1, <2>9
<1> QED BY <1>1, <1>2, <1>3

\* For every plan and catalog, evidence that is missing raises no diagnostic the
\* full evidence does not raise (rules.rs 74-254).
THEOREM MissingEvidenceSpeaksNever == Spec => []MissingEvidenceSilent
<1>1. ASSUME AInv, Done PROVE MissingEvidenceSilent
  <2> DEFINE f == case.facts
             nodes == Evidence(case).plan.nodes
             affected == Evidence(case).plan.affected
             stats == Evidence(case).stats
  <2>1. input = [facts |-> f, plan |-> [nodes |-> nodes, affected |-> affected],
                 stats |-> stats]
    <3>1. input = Evidence(case)
      BY <1>1, DoneRaised
    <3> QED BY <3>1 DEF Evidence, NormalizedPlan
  <2>2. stats = [r \in DOMAIN stats |-> stats[r]]
    BY DEF Evidence
  <2>3. InputTyped(input) /\ Diagnostics = Analyze(input, config).diagnostics
    BY <1>1, DoneRaised DEF AInv, Done, Diagnostics
  <2>4. input.stats = stats
    BY <2>1
  <2> HIDE DEF f, nodes, affected, stats
  <2>5. /\ \A r \in DOMAIN stats :
             NoneNew(Analyze([input EXCEPT !.stats[r] = NoEstimate], config).diagnostics,
                     Diagnostics)
        /\ NoneNew(Analyze([input EXCEPT !.plan.affected = NoEstimate], config).diagnostics,
                   Diagnostics)
        /\ NoneNew(Analyze([input EXCEPT !.facts.graph.indeterminate = TRUE],
                           config).diagnostics, Diagnostics)
    BY <2>1, <2>2, <2>3, LessEvidence
  <2> QED BY <2>4, <2>5 DEF MissingEvidenceSilent
<1>2. ASSUME AInv PROVE MissingEvidenceSilent
  BY <1>1, <1>2 DEF MissingEvidenceSilent
<1> QED BY <1>2, AnalysisInvariant, PTL

\* A larger ratio of nothing negative is larger.
LEMMA RatioMonotone ==
  ASSUME NEW p \in Int, NEW q \in Int, p <= q, NEW live \in Nat
  PROVE  p * live \in Int /\ q * live \in Int /\ p * live <= q * live
<1>1. (q - p) * live >= 0
  OBVIOUS
<1>2. q * live = p * live + (q - p) * live
  OBVIOUS
<1> QED BY <1>1, <1>2

LEMMA StricterThresholds ==
  ASSUME NEW in, InputTyped(in), NEW cf \in Configs, NEW c \in Configs,
         Valid(cf), Valid(c), c.enabled = cf.enabled,
         AtLeast(c.maxRows, cf.maxRows), AtLeast(c.minRowsForRatio, cf.minRowsForRatio),
         AtLeast(c.maxTableRatio, cf.maxTableRatio),
         AtLeast(c.minRelationRows, cf.minRelationRows),
         AtLeast(cf.maxOutputRatio, c.maxOutputRatio),
         AtLeast(c.maxResultRows, cf.maxResultRows),
         in.plan.affected \in Nat \union {NoEstimate},
         \A r \in DOMAIN in.stats : in.stats[r] \in Nat \union {NoEstimate}
  PROVE  NoneNew(Analyze(in, c).diagnostics, Analyze(in, cf).diagnostics)
<1>1. /\ c.maxRows \in Int /\ cf.maxRows \in Int /\ c.maxRows >= cf.maxRows
      /\ c.minRowsForRatio \in Int /\ cf.minRowsForRatio \in Int
      /\ c.minRowsForRatio >= cf.minRowsForRatio
      /\ c.maxTableRatio \in Int /\ cf.maxTableRatio \in Int
      /\ cf.maxTableRatio <= c.maxTableRatio
      /\ c.minRelationRows \in Int /\ cf.minRelationRows \in Int
      /\ c.minRelationRows >= cf.minRelationRows
      /\ c.maxOutputRatio \in Int /\ cf.maxOutputRatio \in Int
      /\ c.maxOutputRatio <= cf.maxOutputRatio
      /\ c.maxResultRows \in Int /\ cf.maxResultRows \in Int
      /\ c.maxResultRows >= cf.maxResultRows
  BY ConfigsAssumption DEF AtLeast
<1>2. \A x : LiveRows(in, x) \in Nat \union {NoEstimate}
  BY DEF LiveRows
<1>3. AffectedTriggers(in.plan.affected, LiveRows(in, Target(in)), c)
        \subseteq AffectedTriggers(in.plan.affected, LiveRows(in, Target(in)), cf)
  <2> DEFINE affected == in.plan.affected
             live == LiveRows(in, Target(in))
  <2>1. affected \in Int
    BY DEF NoEstimate
  <2>2. AtLeast(affected, c.maxRows) => AtLeast(affected, cf.maxRows)
    BY <1>1, <2>1 DEF AtLeast
  <2>3. AtLeast(affected, c.minRowsForRatio) => AtLeast(affected, cf.minRowsForRatio)
    BY <1>1, <2>1 DEF AtLeast
  <2>4. live # NoEstimate =>
          (100 * affected >= c.maxTableRatio * live
             => 100 * affected >= cf.maxTableRatio * live)
    <3> HIDE DEF affected, live
    <3>1. ASSUME live \in Nat
          PROVE  cf.maxTableRatio * live \in Int /\ c.maxTableRatio * live \in Int
                 /\ cf.maxTableRatio * live <= c.maxTableRatio * live
      BY <1>1, <3>1, RatioMonotone
    <3>2. live # NoEstimate => live \in Nat
      BY <1>2 DEF live
    <3>3. 100 * affected \in Int
      BY <2>1
    <3> QED BY <3>1, <3>2, <3>3
  <2> HIDE DEF affected, live
  <2> QED BY <2>2, <2>3, <2>4 DEF AffectedTriggers, affected, live
<1>4. LargeScans(in, c) \subseteq LargeScans(in, cf)
  <2> SUFFICES ASSUME NEW i \in DOMAIN in.plan.nodes,
                      ScansLargely(in.plan.nodes[i], in, c)
               PROVE  ScansLargely(in.plan.nodes[i], in, cf)
    BY DEF LargeScans
  <2> DEFINE n == in.plan.nodes[i]
             live == LiveRows(in, n.relation)
  <2>1. /\ n.kind = "Seq Scan" /\ n.relation # None /\ live # NoEstimate
        /\ AtLeast(live, c.minRelationRows) /\ 100 * n.rows <= c.maxOutputRatio * live
    BY DEF ScansLargely
  <2>2. live \in Nat /\ n.rows \in Nat
    BY <1>2, <2>1 DEF InputTyped
  <2>3. AtLeast(live, cf.minRelationRows)
    <3>1. live # NaN /\ live >= c.minRelationRows
      BY <2>1 DEF AtLeast
    <3>2. live >= cf.minRelationRows
      BY <1>1, <2>2, <3>1
    <3>3. cf.minRelationRows # NaN
      BY DEF AtLeast
    <3> QED BY <3>1, <3>2, <3>3 DEF AtLeast
  <2> HIDE DEF n, live
  <2>4. /\ c.maxOutputRatio * live \in Int /\ cf.maxOutputRatio * live \in Int
        /\ c.maxOutputRatio * live <= cf.maxOutputRatio * live
    BY <1>1, <2>2, RatioMonotone
  <2>5. 100 * n.rows <= cf.maxOutputRatio * live
    <3> DEFINE scanned == 100 * n.rows
               strictly == c.maxOutputRatio * live
               laxly == cf.maxOutputRatio * live
    <3>1. scanned \in Int /\ scanned <= strictly
      <4>1. scanned \in Int
        BY <2>2
      <4>2. scanned <= strictly
        BY <2>1, Zenon
      <4> QED BY <4>1, <4>2
    <3>2. strictly \in Int /\ laxly \in Int /\ strictly <= laxly
      BY <2>4
    <3> HIDE DEF scanned, strictly, laxly
    <3>3. scanned <= laxly
      BY <3>1, <3>2
    <3> QED BY <3>3 DEF scanned, laxly
  <2> QED BY <2>1, <2>3, <2>5 DEF ScansLargely, n, live
<1>5. Covers(Members(LargeResultSet(in, c)), Members(LargeResultSet(in, cf)))
  <2>1. in.plan.nodes[1].rows \in Nat
    BY DEF InputTyped
  <2>2. Below(in.plan.nodes[1].rows, cf.maxResultRows)
          => Below(in.plan.nodes[1].rows, c.maxResultRows)
    BY <1>1, <2>1 DEF Below, AtLeast
  <2>3. LargeResultSet(in, c) = <<>> \/ LargeResultSet(in, c) = LargeResultSet(in, cf)
    BY <2>2 DEF LargeResultSet
  <2> QED BY <2>3, CoversItself, CoversNothing
<1>6. MissingWhere(in, c) = MissingWhere(in, cf) /\ CartesianJoin(in, c) = CartesianJoin(in, cf)
  BY Unread
<1>7. Covers(Members(LargeAffectedRows(in, c)), Members(LargeAffectedRows(in, cf)))
  BY <1>3, FewerTriggers
<1> QED BY <1>4, <1>5, <1>6, <1>7, CoversItself, CoveredRules

\* For every plan, catalog and configuration, a stricter configuration raises no
\* diagnostic the given one does not raise (rules.rs 74-225).
THEOREM StricterRaisesLess == Spec => []ThresholdsMonotone
<1>1. ASSUME AInv, Done, NEW c \in Configs, Valid(c), Stricter(c)
      PROVE  NoneNew(Analyze(input, c).diagnostics, Diagnostics)
  <2>1. /\ config \in Configs /\ Valid(config) /\ case \in Cases
        /\ ~NormalizationError(case.raw) /\ input = Evidence(case)
        /\ Diagnostics = Analyze(input, config).diagnostics
    BY <1>1 DEF AInv, Done, Diagnostics
  <2>2. /\ InputTyped(input) /\ input.plan.affected \in Nat \union {NoEstimate}
        /\ \A r \in DOMAIN input.stats : input.stats[r] \in Nat \union {NoEstimate}
    BY <2>1, EvidenceTyped
  <2> QED BY <1>1, <2>1, <2>2, StricterThresholds DEF Stricter
<1>2. ASSUME AInv PROVE ThresholdsMonotone
  BY <1>1, <1>2 DEF ThresholdsMonotone
<1> QED BY <1>2, AnalysisInvariant, PTL

-----------------------------------------------------------------------------
(* Thresholds set to just what the evidence says.                          *)

\* What a report says of one rule, by what the rule raises.
LEMMA ReportedRaised ==
  ASSUME InputTyped(input), NEW c, NEW rule, NEW relation, NEW evidence
  PROVE  Reported(c, rule, relation, evidence) <=>
           \E d \in Raised(input, c) :
             d.rule = rule /\ d.relation = relation /\ evidence \in d.evidence
<1> DEFINE ds == Analyze(input, c).diagnostics
<1>1. Members(ds) = Raised(input, c)
  BY AnalyzeRaises
<1>2. Reported(c, rule, relation, evidence) <=>
        \E i \in DOMAIN ds : ds[i].rule = rule /\ ds[i].relation = relation
                             /\ evidence \in ds[i].evidence
  BY DEF Reported
<1> HIDE DEF ds
<1> QED BY <1>1, <1>2 DEF Members

LEMMA AffectedReported ==
  ASSUME InputTyped(input), NEW c, NEW t
  PROVE  Reported(c, 101, Target(input), t) <=>
           /\ c.enabled[101] /\ input.facts.kind # "select"
           /\ input.plan.affected # NoEstimate /\ Target(input) # None
           /\ t \in AffectedTriggers(input.plan.affected,
                                     LiveRows(input, Target(input)), c)
<1> DEFINE triggers == AffectedTriggers(input.plan.affected,
                                        LiveRows(input, Target(input)), c)
           d101 == Diagnostic(101, "warning", Target(input), triggers)
<1>1. Reported(c, 101, Target(input), t) <=>
        \E d \in Members(LargeAffectedRows(input, c)) :
          d.relation = Target(input) /\ t \in d.evidence
  <2>1. \A d : d \in Raised(input, c) /\ d.rule = 101
                 <=> d \in Members(LargeAffectedRows(input, c))
    BY RaisedKinds DEF Raised
  <2> QED BY <2>1, ReportedRaised
<1>2. d101.relation = Target(input) /\ d101.evidence = triggers
  BY DEF Diagnostic
<1> HIDE DEF d101
<1>3. /\ \A d : d \in Members(<<d101>>) <=> d = d101
      /\ Members(<<>>) = {}
  BY DEF Members
<1>4. LargeAffectedRows(input, c) =
        IF /\ c.enabled[101] /\ input.facts.kind # "select"
           /\ input.plan.affected # NoEstimate /\ Target(input) # None
           /\ triggers # {}
        THEN <<d101>> ELSE <<>>
  BY DEF LargeAffectedRows, d101
<1> QED BY <1>1, <1>2, <1>3, <1>4

\* That PGP102 reports a scan of this relation under this alias.
ScanSeen(c, relation, alias) ==
  \E i \in DOMAIN input.plan.nodes :
    /\ c.enabled[102] /\ ScansLargely(input.plan.nodes[i], input, c)
    /\ input.plan.nodes[i].relation = relation /\ input.plan.nodes[i].alias = alias

LEMMA ScanReported ==
  ASSUME InputTyped(input), NEW c, NEW relation, NEW alias
  PROVE  Reported(c, 102, relation, alias) <=> ScanSeen(c, relation, alias)
<1>1. Reported(c, 102, relation, alias) <=>
        \E i \in LargeScans(input, c) :
          LET d == ScanDiagnostic(input, i)
          IN d.relation = relation /\ alias \in d.evidence
  <2>1. \A d : d \in Raised(input, c) /\ d.rule = 102
                 <=> \E i \in LargeScans(input, c) : d = ScanDiagnostic(input, i)
    BY RaisedKinds DEF Raised
  <2> QED BY <2>1, ReportedRaised
<1>2. \A i : /\ ScanDiagnostic(input, i).relation = input.plan.nodes[i].relation
             /\ ScanDiagnostic(input, i).evidence = {input.plan.nodes[i].alias}
  BY DEF ScanDiagnostic, Diagnostic
<1> QED BY <1>1, <1>2 DEF LargeScans, ScanSeen

LEMMA ResultReported ==
  ASSUME InputTyped(input), NEW c
  PROVE  Reported(c, 103, None, input.plan.nodes[1].rows) <=>
           /\ c.enabled[103] /\ input.facts.kind = "select"
           /\ ~Below(input.plan.nodes[1].rows, c.maxResultRows)
<1> DEFINE rows == input.plan.nodes[1].rows
           d103 == Diagnostic(103, "warning", None, {rows})
<1>1. Reported(c, 103, None, rows) <=>
        \E d \in Members(LargeResultSet(input, c)) :
          d.relation = None /\ rows \in d.evidence
  <2>1. \A d : d \in Raised(input, c) /\ d.rule = 103
                 <=> d \in Members(LargeResultSet(input, c))
    BY RaisedKinds DEF Raised
  <2> QED BY <2>1, ReportedRaised
<1>2. d103.relation = None /\ d103.evidence = {rows}
  BY DEF Diagnostic
<1>3. LargeResultSet(input, c) =
        IF /\ c.enabled[103] /\ input.facts.kind = "select"
           /\ ~Below(rows, c.maxResultRows)
        THEN <<d103>> ELSE <<>>
  BY DEF LargeResultSet
<1> HIDE DEF d103
<1>4. /\ \A d : d \in Members(<<d103>>) <=> d = d103
      /\ Members(<<>>) = {}
  BY DEF Members
<1> QED BY <1>1, <1>2, <1>3, <1>4

LEMMA WholeRatio ==
  ASSUME NEW n \in Nat, NEW live \in Nat, live > 0, (100 * n) % live = 0
  PROVE  /\ ((100 * n) \div live) * live = 100 * n
         /\ 100 * n <= ((100 * n) \div live) * live
<1>1. \A m \in Nat : m = live * (m \div live) + (m % live) /\ m \div live \in Int
  OBVIOUS
<1>2. 100 * n \in Nat
  OBVIOUS
<1> DEFINE m == 100 * n
           q == m \div live
<1>3. m = live * q + 0 /\ q \in Int
  BY <1>1, <1>2
<1> HIDE DEF m, q
<1>4. q * live = m /\ m <= q * live
  BY <1>3
<1> QED BY <1>4 DEF m, q

LEMMA AtItself ==
  ASSUME NEW n \in Nat
  PROVE  /\ AtLeast(n, n) /\ ~AtLeast(n, n + 1)
         /\ ~Below(n, n) /\ Below(n, n + 1)
BY NaNAssumption DEF AtLeast, Below

\* For every plan, catalog and configuration the thresholds are met by just what
\* they say and no longer one row further up (rules.rs 74-225).
THEOREM ThresholdsMet == Spec => []ThresholdsInclusive
<1>1. ASSUME AInv, Done PROVE ThresholdsInclusive
  <2>1. /\ config \in Configs /\ case \in Cases /\ ~NormalizationError(case.raw)
        /\ input = Evidence(case)
    BY <1>1 DEF AInv, Done
  <2>2. /\ InputTyped(input) /\ input.plan.affected \in Nat \union {NoEstimate}
        /\ \A r \in DOMAIN input.stats : input.stats[r] \in Nat \union {NoEstimate}
        /\ input.facts = case.facts
    BY <2>1, EvidenceTyped DEF Evidence
  <2>3. \A x : LiveRows(input, x) # NoEstimate
                 => LiveRows(input, x) \in Nat /\ LiveRows(input, x) > 0
    BY <2>2 DEF LiveRows
  <2>4. DOMAIN config = {"version", "enabled", "maxRows", "maxTableRatio",
                         "minRowsForRatio", "minRelationRows", "maxOutputRatio",
                         "maxResultRows"}
    BY <2>1, ConfigsAssumption
  <2>5. AffectedInclusive
    <3> DEFINE n == input.plan.affected
               target == Target(input)
               live == LiveRows(input, target)
               A(rows) == [config EXCEPT !.maxRows = rows]
               R(rows) == [config EXCEPT !.minRowsForRatio = rows,
                                         !.maxTableRatio = (100 * n) \div live]
    <3> SUFFICES ASSUME config.enabled[101], case.facts.kind # "select",
                        n # NoEstimate, target # None
                 PROVE  /\ Reported(A(n), 101, target, "absolute_rows")
                        /\ ~Reported(A(n + 1), 101, target, "absolute_rows")
                        /\ live # NoEstimate /\ (100 * n) % live = 0 =>
                             /\ Reported(R(n), 101, target, "relation_ratio")
                             /\ ~Reported(R(n + 1), 101, target, "relation_ratio")
      BY DEF AffectedInclusive
    <3>1. n \in Nat
      BY <2>2
    <3>2. \A rows : /\ A(rows).enabled = config.enabled /\ A(rows).maxRows = rows
                    /\ R(rows).enabled = config.enabled
                    /\ R(rows).minRowsForRatio = rows
                    /\ R(rows).maxTableRatio = (100 * n) \div live
      BY <2>4
    <3> HIDE DEF A, R
    <3>3. /\ "absolute_rows" \in AffectedTriggers(n, live, A(n))
          /\ "absolute_rows" \notin AffectedTriggers(n, live, A(n + 1))
      BY <3>1, <3>2, AtItself DEF AffectedTriggers
    <3>4. ASSUME live # NoEstimate, (100 * n) % live = 0
          PROVE  /\ "relation_ratio" \in AffectedTriggers(n, live, R(n))
                 /\ "relation_ratio" \notin AffectedTriggers(n, live, R(n + 1))
      <4>1. live \in Nat /\ live > 0
        BY <2>3, <3>4
      <4>2. ((100 * n) \div live) * live = 100 * n
        BY <3>1, <3>4, <4>1, WholeRatio
      <4>3. R(n).maxTableRatio * live = 100 * n
        BY <3>2, <4>2
      <4> HIDE DEF n, live
      <4>4. 100 * n >= R(n).maxTableRatio * live
        BY <3>1, <4>3
      <4> QED BY <3>1, <3>2, <3>4, <4>4, AtItself DEF AffectedTriggers
    <3> QED BY <2>2, <3>2, <3>3, <3>4, AffectedReported
  <2>6. ScansInclusive
    <3> SUFFICES ASSUME NEW i \in DOMAIN input.plan.nodes
                 PROVE  LET scan == input.plan.nodes[i]
                            live == LiveRows(input, scan.relation)
                            S(rows) == [config EXCEPT !.minRelationRows = rows,
                                          !.maxOutputRatio = (100 * scan.rows) \div live]
                        IN config.enabled[102] /\ scan.kind = "Seq Scan"
                           /\ scan.relation # None /\ live # NoEstimate
                           /\ (100 * scan.rows) % live = 0
                           => /\ Reported(S(live), 102, scan.relation, scan.alias)
                              /\ ~Reported(S(live + 1), 102, scan.relation, scan.alias)
      BY DEF ScansInclusive
    <3> DEFINE scan == input.plan.nodes[i]
               live == LiveRows(input, scan.relation)
               S(rows) == [config EXCEPT !.minRelationRows = rows,
                             !.maxOutputRatio = (100 * scan.rows) \div live]
    <3> SUFFICES ASSUME config.enabled[102], scan.kind = "Seq Scan",
                        scan.relation # None, live # NoEstimate,
                        (100 * scan.rows) % live = 0
                 PROVE  /\ Reported(S(live), 102, scan.relation, scan.alias)
                        /\ ~Reported(S(live + 1), 102, scan.relation, scan.alias)
      OBVIOUS
    <3>1. scan.rows \in Nat /\ live \in Nat /\ live > 0
      BY <2>2, <2>3 DEF InputTyped
    <3>2. \A rows : /\ S(rows).enabled = config.enabled
                    /\ S(rows).minRelationRows = rows
                    /\ S(rows).maxOutputRatio = (100 * scan.rows) \div live
      BY <2>4
    <3> HIDE DEF S
    <3>3. 100 * scan.rows <= ((100 * scan.rows) \div live) * live
      BY <3>1, WholeRatio
    <3>4. S(live).maxOutputRatio = (100 * scan.rows) \div live
      BY <3>2
    <3>5. 100 * scan.rows <= S(live).maxOutputRatio * live
      BY <3>3, <3>4, Zenon
    <3>6. ScansLargely(scan, input, S(live))
      BY <3>1, <3>2, <3>5, AtItself DEF ScansLargely
    <3>7. \A k \in DOMAIN input.plan.nodes :
            input.plan.nodes[k].relation = scan.relation
              => ~ScansLargely(input.plan.nodes[k], input, S(live + 1))
      BY <3>1, <3>2, AtItself DEF ScansLargely
    <3>8. ScanSeen(S(live), scan.relation, scan.alias)
      <4>1. S(live).enabled[102]
        BY <3>2
      <4> QED BY <3>6, <4>1, Zenon DEF ScanSeen
    <3>9. ~ScanSeen(S(live + 1), scan.relation, scan.alias)
      BY <3>7, Zenon DEF ScanSeen
    <3> QED BY <2>2, <3>8, <3>9, ScanReported, Zenon
  <2>7. ResultInclusive
    <3> DEFINE n == input.plan.nodes[1].rows
               Q(rows) == [config EXCEPT !.maxResultRows = rows]
    <3>1. n \in Nat
      BY <2>2 DEF InputTyped
    <3>2. \A rows : Q(rows).enabled = config.enabled /\ Q(rows).maxResultRows = rows
      BY <2>4
    <3>3. ResultInclusive <=>
            (config.enabled[103] /\ case.facts.kind = "select" =>
               Reported(Q(n), 103, None, n) /\ ~Reported(Q(n + 1), 103, None, n))
      BY DEF ResultInclusive
    <3> HIDE DEF Q
    <3>4. ~Below(n, n) /\ Below(n, n + 1)
      BY <3>1, AtItself
    <3> QED BY <2>2, <3>2, <3>3, <3>4, ResultReported
  <2> QED BY <1>1, <2>5, <2>6, <2>7 DEF ThresholdsInclusive
<1>2. ASSUME AInv PROVE ThresholdsInclusive
  BY <1>1, <1>2 DEF ThresholdsInclusive
<1> QED BY <1>2, AnalysisInvariant, PTL

-----------------------------------------------------------------------------
(* Nth follows the order, and like orders enumerate alike.                 *)

\* Nobody else has the same place.
LEMMA NthPlace ==
  ASSUME NEW D, IsFiniteSet(D), NEW R, LinearOrder(D, R), NEW n \in 1..Cardinality(D),
         NEW i \in D, 1 + Cardinality(Ahead(D, R, i)) = n
  PROVE  Nth(D, R, n) = i
<1> DEFINE j == Nth(D, R, n)
           Place(k) == Cardinality(Ahead(D, R, k))
<1>1. j \in D /\ 1 + Place(j) = n
  BY NthEnumerates
<1>2. Place(j) \in Nat /\ Place(i) \in Nat
  <2>1. \A k : Ahead(D, R, k) \in SUBSET D
    BY DEF Ahead
  <2> QED BY <2>1, FS_Subset, FS_CardinalityType
<1>3. Place(j) = Place(i)
  <2> HIDE DEF j
  <2> QED BY <1>1, <1>2
<1>4. ASSUME i # j PROVE FALSE
  <2>1. <<i, j>> \in R \/ <<j, i>> \in R
    BY <1>1, <1>4 DEF LinearOrder
  <2>2. Place(i) < Place(j) \/ Place(j) < Place(i)
    BY <1>1, <2>1, FewerAhead
  <2> QED BY <1>2, <1>3, <2>2
<1> QED BY <1>4

\* The enumeration follows the order.
LEMMA NthIncreasing ==
  ASSUME NEW D, IsFiniteSet(D), NEW R, LinearOrder(D, R),
         NEW n \in 1..Cardinality(D), NEW m \in 1..Cardinality(D)
  PROVE  n < m <=> <<Nth(D, R, n), Nth(D, R, m)>> \in R
<1> DEFINE i == Nth(D, R, n)
           j == Nth(D, R, m)
           Place(k) == Cardinality(Ahead(D, R, k))
<1>1. i \in D /\ 1 + Place(i) = n /\ j \in D /\ 1 + Place(j) = m
  BY NthEnumerates
<1>2. Place(j) \in Nat /\ Place(i) \in Nat
  <2>1. \A k : Ahead(D, R, k) \in SUBSET D
    BY DEF Ahead
  <2> QED BY <2>1, FS_Subset, FS_CardinalityType
<1> HIDE DEF i, j
<1>3. <<i, j>> \in R => Place(i) < Place(j)
  BY <1>1, FewerAhead
<1>4. <<j, i>> \in R => Place(j) < Place(i)
  BY <1>1, FewerAhead
<1>5. i = j \/ <<i, j>> \in R \/ <<j, i>> \in R
  BY <1>1 DEF LinearOrder
<1> HIDE DEF Place
<1>6. n < m <=> Place(i) < Place(j)
  BY <1>1, <1>2
<1>7. i = j => <<i, j>> \notin R
  BY <1>1 DEF LinearOrder
<1> QED BY <1>2, <1>3, <1>4, <1>5, <1>6, <1>7 DEF i, j

\* What keeps the order keeps the enumeration.
Embedding(f, D, R, B, Q) ==
  /\ f \in [D -> B]
  /\ \A b \in B : \E i \in D : f[i] = b
  /\ \A i, j \in D : <<i, j>> \in R <=> <<f[i], f[j]>> \in Q

\* An enumeration goes over into the enumeration of an order like it.
LEMMA NthIso ==
  ASSUME NEW D, IsFiniteSet(D), NEW R, LinearOrder(D, R), NEW B, NEW Q, LinearOrder(B, Q),
         NEW f, Embedding(f, D, R, B, Q)
  PROVE  /\ IsFiniteSet(B) /\ Cardinality(B) = Cardinality(D)
         /\ \A n \in 1..Cardinality(D) : Nth(B, Q, n) = f[Nth(D, R, n)]
<1> USE DEF Embedding
<1>1. \A i, j \in D : f[i] = f[j] => i = j
  BY DEF LinearOrder
<1>2. f \in Bijection(D, B)
  BY <1>1 DEF Bijection, Injection, Surjection, IsInjective
<1>3. IsFiniteSet(B) /\ Cardinality(B) = Cardinality(D)
  BY <1>2, FS_Bijection DEF ExistsBijection
<1>4. ASSUME NEW i \in D
      PROVE  Cardinality(Ahead(B, Q, f[i])) = Cardinality(Ahead(D, R, i))
  <2> DEFINE g == [j \in Ahead(D, R, i) |-> f[j]]
  <2>1. g \in Bijection(Ahead(D, R, i), Ahead(B, Q, f[i]))
    <3>1. \A j \in Ahead(D, R, i) : j \in D /\ f[j] \in Ahead(B, Q, f[i])
      BY DEF Ahead
    <3>2. \A b \in Ahead(B, Q, f[i]) : \E j \in Ahead(D, R, i) : f[j] = b
      BY DEF Ahead
    <3> QED BY <1>1, <3>1, <3>2 DEF Bijection, Injection, Surjection, IsInjective
  <2>2. IsFiniteSet(Ahead(D, R, i))
    BY FS_Subset DEF Ahead
  <2> HIDE DEF g
  <2> QED BY <2>1, <2>2, FS_Bijection DEF ExistsBijection
<1>5. ASSUME NEW n \in 1..Cardinality(D) PROVE Nth(B, Q, n) = f[Nth(D, R, n)]
  <2> DEFINE i == Nth(D, R, n)
  <2>1. i \in D /\ 1 + Cardinality(Ahead(D, R, i)) = n
    BY NthEnumerates
  <2> HIDE DEF i
  <2>2. f[i] \in B /\ 1 + Cardinality(Ahead(B, Q, f[i])) = n
    BY <1>4, <2>1
  <2> QED BY <1>3, <2>2, NthPlace DEF i
<1> QED BY <1>3, <1>5

\* The order of the numbers.
LEMMA AscendingLinear ==
  ASSUME NEW E \in SUBSET Int
  PROVE  LinearOrder(E, Ascending(E))
BY DEF LinearOrder, Ascending

-----------------------------------------------------------------------------
\* s is what the rules On say of t, in the order of t.
Thinned(s, t, On) ==
  \E from \in [DOMAIN s -> DOMAIN t] :
    /\ \A i, j \in DOMAIN s : i < j => from[i] < from[j]
    /\ \A j \in DOMAIN t : t[j].rule \in On <=> \E i \in DOMAIN s : from[i] = j
    /\ \A i \in DOMAIN s : s[i] = t[from[i]]

\* The parts of two sequences, one after the other.
LEMMA ThinnedConcat ==
  ASSUME NEW T, NEW s \in Seq(T), NEW t \in Seq(T), NEW u \in Seq(T), NEW v \in Seq(T),
         NEW On, Thinned(s, t, On), Thinned(u, v, On)
  PROVE  s \o u \in Seq(T) /\ t \o v \in Seq(T) /\ Thinned(s \o u, t \o v, On)
<1>1. PICK f \in [DOMAIN s -> DOMAIN t] :
        /\ \A i, j \in DOMAIN s : i < j => f[i] < f[j]
        /\ \A j \in DOMAIN t : t[j].rule \in On <=> \E i \in DOMAIN s : f[i] = j
        /\ \A i \in DOMAIN s : s[i] = t[f[i]]
  BY DEF Thinned
<1>2. PICK g \in [DOMAIN u -> DOMAIN v] :
        /\ \A i, j \in DOMAIN u : i < j => g[i] < g[j]
        /\ \A j \in DOMAIN v : v[j].rule \in On <=> \E i \in DOMAIN u : g[i] = j
        /\ \A i \in DOMAIN u : u[i] = v[g[i]]
  BY DEF Thinned
<1> DEFINE S == Len(s)
           L == Len(t)
           U == Len(u)
           V == Len(v)
           h == [i \in 1..(S + U) |-> IF i <= S THEN f[i] ELSE L + g[i - S]]
<1>3. /\ S \in Nat /\ L \in Nat /\ U \in Nat /\ V \in Nat
      /\ DOMAIN s = 1..S /\ DOMAIN t = 1..L /\ DOMAIN u = 1..U /\ DOMAIN v = 1..V
      /\ s \o u \in Seq(T) /\ t \o v \in Seq(T)
      /\ DOMAIN (s \o u) = 1..(S + U) /\ DOMAIN (t \o v) = 1..(L + V)
  OBVIOUS
<1>4. /\ \A i \in 1..S : (s \o u)[i] = s[i]
      /\ \A i \in 1..U : (s \o u)[S + i] = u[i]
      /\ \A i \in 1..L : (t \o v)[i] = t[i]
      /\ \A i \in 1..V : (t \o v)[L + i] = v[i]
  OBVIOUS
<1>5. /\ \A i \in 1..S : f[i] \in 1..L
      /\ \A i \in 1..U : g[i] \in 1..V
  BY <1>3
<1>6. /\ \A i \in 1..S : i \in 1..(S + U) /\ h[i] = f[i]
      /\ \A i \in 1..U : S + i \in 1..(S + U) /\ h[S + i] = L + g[i]
  BY <1>3
<1>7. \A i \in 1..(S + U) : i \in 1..S \/ (i - S \in 1..U /\ i = S + (i - S))
  BY <1>3
<1>8. \A i \in 1..(L + V) : i \in 1..L \/ (i - L \in 1..V /\ i = L + (i - L))
  BY <1>3
<1> HIDE DEF S, L, U, V, h
<1>9. h \in [1..(S + U) -> 1..(L + V)]
  <2>1. \A i \in 1..S : h[i] \in 1..(L + V)
    BY <1>3, <1>5, <1>6
  <2>2. ASSUME NEW i \in 1..U PROVE h[S + i] \in 1..(L + V)
    <3>1. h[S + i] = L + g[i] /\ g[i] \in 1..V
      BY <1>5, <1>6
    <3> QED BY <1>3, <3>1
  <2>3. ASSUME NEW i \in 1..(S + U) PROVE h[i] \in 1..(L + V)
    <3>1. CASE i \in 1..S
      BY <2>1, <3>1
    <3>2. CASE i \notin 1..S
      <4>1. i - S \in 1..U /\ i = S + (i - S)
        BY <1>7, <3>2
      <4>2. h[S + (i - S)] \in 1..(L + V)
        BY <2>2, <4>1
      <4> QED BY <4>1, <4>2
    <3> QED BY <3>1, <3>2
  <2> QED BY <2>3 DEF h
<1>10. ASSUME NEW i \in 1..(S + U), NEW j \in 1..(S + U), i < j PROVE h[i] < h[j]
  <2>1. CASE i \in 1..S /\ j \in 1..S
    BY <1>1, <1>3, <1>6, <1>10, <2>1
  <2>2. CASE i \in 1..S /\ j \notin 1..S
    <3>1. PICK k \in 1..U : j = S + k
      BY <1>7, <2>2
    <3>2. h[i] \in 1..L /\ h[j] = L + g[k] /\ g[k] \in 1..V
      BY <1>5, <1>6, <2>2, <3>1
    <3> QED BY <1>3, <3>2
  <2>3. CASE i \notin 1..S
    <3>1. PICK k \in 1..U : i = S + k
      BY <1>7, <2>3
    <3>2. PICK m \in 1..U : j = S + m
      BY <1>3, <1>7, <1>10, <2>3
    <3>3. g[k] < g[m]
      <4>1. k < m
        BY <1>3, <1>10, <3>1, <3>2
      <4> QED BY <1>2, <1>3, <4>1
    <3>4. h[i] = L + g[k] /\ h[j] = L + g[m] /\ g[k] \in Int /\ g[m] \in Int
      BY <1>5, <1>6, <3>1, <3>2
    <3> QED BY <1>3, <3>3, <3>4
  <2> QED BY <2>1, <2>2, <2>3
<1>11. ASSUME NEW j \in 1..(L + V)
       PROVE  (t \o v)[j].rule \in On <=> \E i \in 1..(S + U) : h[i] = j
  <2>1. CASE j \in 1..L
    <3>1. (t \o v)[j].rule \in On <=> \E i \in 1..S : f[i] = j
      BY <1>1, <1>3, <1>4, <2>1
    <3>2. \A i \in 1..(S + U) : h[i] = j => i \in 1..S
      <4> SUFFICES ASSUME NEW i \in 1..U, h[S + i] = j PROVE FALSE
        BY <1>7
      <4>1. j = L + g[i] /\ g[i] \in 1..V
        BY <1>5, <1>6
      <4> QED BY <1>3, <2>1, <4>1
    <3> QED BY <1>6, <3>1, <3>2
  <2>2. CASE j \notin 1..L
    <3>1. PICK m \in 1..V : j = L + m
      BY <1>8, <2>2
    <3>2. (t \o v)[j].rule \in On <=> \E i \in 1..U : g[i] = m
      BY <1>2, <1>3, <1>4, <3>1
    <3>3. \A i \in 1..S : h[i] # j
      BY <1>5, <1>6, <2>2
    <3>4. ASSUME NEW i \in 1..U PROVE h[S + i] = j <=> g[i] = m
      <4>1. h[S + i] = L + g[i] /\ g[i] \in Int
        BY <1>5, <1>6
      <4>2. \A x, y \in Int : L + x = L + y <=> x = y
        BY <1>3
      <4>3. m \in Int
        BY <1>3
      <4> QED BY <3>1, <4>1, <4>2, <4>3
    <3>5. (\E i \in 1..(S + U) : h[i] = j) <=> \E i \in 1..U : h[S + i] = j
      <4>1. \A i \in 1..(S + U) : h[i] = j => \E k \in 1..U : i = S + k
        BY <1>7, <3>3
      <4> QED BY <1>6, <4>1
    <3> QED BY <3>2, <3>4, <3>5
  <2> QED BY <2>1, <2>2
<1>12. ASSUME NEW i \in 1..(S + U) PROVE (s \o u)[i] = (t \o v)[h[i]]
  <2>1. CASE i \in 1..S
    <3>1. (s \o u)[i] = s[i] /\ s[i] = t[f[i]] /\ h[i] = f[i] /\ f[i] \in 1..L
      BY <1>1, <1>3, <1>4, <1>5, <1>6, <2>1
    <3>2. (t \o v)[f[i]] = t[f[i]]
      BY <1>4, <3>1
    <3> QED BY <3>1, <3>2
  <2>2. CASE i \notin 1..S
    <3>1. PICK k \in 1..U : i = S + k
      BY <1>7, <2>2
    <3>2. (s \o u)[S + k] = u[k] /\ u[k] = v[g[k]] /\ h[S + k] = L + g[k] /\ g[k] \in 1..V
      BY <1>2, <1>3, <1>4, <1>5, <1>6
    <3>3. (t \o v)[L + g[k]] = v[g[k]]
      BY <1>4, <3>2
    <3> QED BY <3>1, <3>2, <3>3
  <2> QED BY <2>1, <2>2
<1>13. /\ \A i, j \in 1..(S + U) : i < j => h[i] < h[j]
       /\ \A j \in 1..(L + V) :
            (t \o v)[j].rule \in On <=> \E i \in 1..(S + U) : h[i] = j
       /\ \A i \in 1..(S + U) : (s \o u)[i] = (t \o v)[h[i]]
  BY <1>10, <1>11, <1>12
<1>14. Thinned(s \o u, t \o v, On)
  <2> DEFINE su == s \o u
             tv == t \o v
  <2>1. DOMAIN su = 1..(S + U) /\ DOMAIN tv = 1..(L + V)
    BY <1>3
  <2> HIDE DEF su, tv
  <2>2. /\ h \in [DOMAIN su -> DOMAIN tv]
        /\ \A i, j \in DOMAIN su : i < j => h[i] < h[j]
        /\ \A j \in DOMAIN tv : tv[j].rule \in On <=> \E i \in DOMAIN su : h[i] = j
        /\ \A i \in DOMAIN su : su[i] = tv[h[i]]
    BY <1>9, <1>13, <2>1 DEF su, tv
  <2>3. Thinned(su, tv, On)
    BY <2>2, Zenon DEF Thinned
  <2> QED BY <2>3 DEF su, tv
<1> QED BY <1>3, <1>14

\* What sorting makes of a part is a part of what it makes of the whole.
LEMMA SortedThinned ==
  ASSUME NEW s, NEW N \in Nat, Listing(s, N), Comparable(s),
         NEW t, NEW M \in Nat, Listing(t, M), Comparable(t), NEW On, Thinned(s, t, On)
  PROVE  Sorted(s) = Selected(Sorted(t), {n \in DOMAIN Sorted(t) : Sorted(t)[n].rule \in On})
<1> DEFINE S == DOMAIN s
           T == DOMAIN t
           P(n) == Nth(T, Order(t), n)
           E == {n \in DOMAIN Sorted(t) : Sorted(t)[n].rule \in On}
<1>1. PICK from \in [S -> T] :
        /\ \A i, j \in S : i < j => from[i] < from[j]
        /\ \A j \in T : t[j].rule \in On <=> \E i \in S : from[i] = j
        /\ \A i \in S : s[i] = t[from[i]]
  BY DEF Thinned
<1>2. /\ S = 1..N /\ IsFiniteSet(S) /\ Cardinality(S) = N
      /\ T = 1..M /\ IsFiniteSet(T) /\ Cardinality(T) = M
  BY FS_Interval DEF Listing
<1>3. LinearOrder(S, Order(s)) /\ LinearOrder(T, Order(t))
  BY OrderLinear
<1>4. /\ \A n \in T : P(n) \in T
      /\ \A i \in T : \E n \in T : P(n) = i
  <2> HIDE DEF S, T
  <2>1. /\ \A n \in 1..Cardinality(T) : Nth(T, Order(t), n) \in T
        /\ \A i \in T : \E n \in 1..Cardinality(T) : Nth(T, Order(t), n) = i
    <3>1. IsFiniteSet(T) /\ LinearOrder(T, Order(t))
      BY <1>2, <1>3
    <3> QED BY <3>1, NthEnumerates
  <2>2. 1..Cardinality(T) = T
    BY <1>2
  <2> QED BY <2>1, <2>2
<1>5. \A n, m \in T : n < m <=> <<P(n), P(m)>> \in Order(t)
  BY <1>2, <1>3, NthIncreasing
<1>6. DOMAIN Sorted(t) = T /\ \A n \in T : Sorted(t)[n] = t[P(n)]
  BY DEF Sorted
<1> HIDE DEF P, S, T
<1>7. E = {n \in T : t[P(n)].rule \in On}
  BY <1>6
<1> HIDE DEF E
<1> DEFINE f == [n \in E |-> CHOOSE i \in S : from[i] = P(n)]
<1>8. \A n \in E : f[n] \in S /\ from[f[n]] = P(n)
  <2> SUFFICES ASSUME NEW n \in E PROVE \E i \in S : from[i] = P(n)
    OBVIOUS
  <2> QED BY <1>1, <1>4, <1>7
<1>9. \A i, j \in S : (i < j <=> from[i] < from[j]) /\ (from[i] = from[j] => i = j)
  <2>1. \A i \in S : i \in Int /\ from[i] \in Int
    BY <1>2
  <2> QED BY <1>1, <2>1
<1>10. \A i, j \in S : <<i, j>> \in Order(s) <=> <<from[i], from[j]>> \in Order(t)
  <2> SUFFICES ASSUME NEW i \in S, NEW j \in S
               PROVE  <<i, j>> \in Order(s) <=> <<from[i], from[j]>> \in Order(t)
    OBVIOUS
  <2>1. /\ s[i] = t[from[i]] /\ s[j] = t[from[j]] /\ from[i] \in T /\ from[j] \in T
        /\ i < j <=> from[i] < from[j]
    BY <1>1, <1>9
  <2>2. <<i, j>> \in Order(s) <=>
          Before(s[i], s[j]) \/ (~Before(s[j], s[i]) /\ i < j)
    BY DEF Order, S
  <2>3. <<from[i], from[j]>> \in Order(t) <=>
          \/ Before(t[from[i]], t[from[j]])
          \/ ~Before(t[from[j]], t[from[i]]) /\ from[i] < from[j]
    BY <2>1 DEF Order, T
  <2> QED BY <2>1, <2>2, <2>3
<1>11. E \in SUBSET Int /\ IsFiniteSet(E)
  <2>1. E \in SUBSET T
    BY <1>7
  <2>2. T \subseteq Int
    BY <1>2
  <2>3. IsFiniteSet(E)
    BY <1>2, <2>1, FS_Subset
  <2> QED BY <2>1, <2>2, <2>3
<1> HIDE DEF f
<1>12. f \in [E -> S]
  BY <1>8 DEF f
<1>13. \A i \in S : \E n \in E : f[n] = i
  <2> SUFFICES ASSUME NEW i \in S PROVE \E n \in E : f[n] = i
    OBVIOUS
  <2>1. from[i] \in T /\ t[from[i]].rule \in On
    BY <1>1
  <2>2. PICK n \in T : P(n) = from[i]
    BY <1>4, <2>1
  <2> QED BY <1>7, <1>8, <1>9, <2>1, <2>2
<1>14. \A n, m \in E : <<n, m>> \in Ascending(E) <=> <<f[n], f[m]>> \in Order(s)
  <2> SUFFICES ASSUME NEW n \in E, NEW m \in E
               PROVE  n < m <=> <<f[n], f[m]>> \in Order(s)
    BY DEF Ascending
  <2>1. n \in T /\ m \in T
    BY <1>7
  <2>2. n < m <=> <<from[f[n]], from[f[m]]>> \in Order(t)
    BY <1>5, <1>8, <2>1
  <2> QED BY <1>8, <1>10, <2>2
<1>15. /\ Cardinality(S) = Cardinality(E)
       /\ \A n \in 1..Cardinality(E) : Nth(S, Order(s), n) = f[Nth(E, Ascending(E), n)]
  <2>1. LinearOrder(E, Ascending(E))
    BY <1>11, AscendingLinear
  <2>2. Embedding(f, E, Ascending(E), S, Order(s))
    BY <1>12, <1>13, <1>14 DEF Embedding
  <2> QED BY <1>3, <1>11, <2>1, <2>2, NthIso
<1>16. \A n \in 1..Cardinality(E) : Nth(E, Ascending(E), n) \in E
  BY <1>11, AscendingLinear, NthEnumerates
<1>17. \A e \in E : s[f[e]] = Sorted(t)[e]
  BY <1>1, <1>6, <1>7, <1>8
<1>18. Sorted(s) = [n \in S |-> s[Nth(S, Order(s), n)]]
  BY DEF Sorted, S
<1>19. Selected(Sorted(t), E) = [n \in 1..Cardinality(E) |-> Sorted(t)[Nth(E, Ascending(E), n)]]
  BY DEF Selected
<1>20. S = 1..Cardinality(E)
  BY <1>2, <1>15
<1>21. \A n \in S : s[Nth(S, Order(s), n)] = Sorted(t)[Nth(E, Ascending(E), n)]
  BY <1>15, <1>16, <1>17, <1>20
<1> QED BY <1>18, <1>19, <1>20, <1>21 DEF E

\* A rule that is on says what it says, one that is off says nothing.
LEMMA ThinnedAlike ==
  ASSUME NEW N \in Nat, NEW s, Listing(s, N), NEW On,
         \A d \in Members(s) : d.rule \in On
  PROVE  Thinned(s, s, On)
<1> DEFINE from == [i \in DOMAIN s |-> i]
<1>1. /\ from \in [DOMAIN s -> DOMAIN s]
      /\ \A i, j \in DOMAIN s : i < j => from[i] < from[j]
      /\ \A j \in DOMAIN s : s[j].rule \in On <=> \E i \in DOMAIN s : from[i] = j
      /\ \A i \in DOMAIN s : s[i] = s[from[i]]
  BY DEF Members
<1> QED BY <1>1, Zenon DEF Thinned

\* A rule that is off leaves nothing of what it says.
LEMMA ThinnedAway ==
  ASSUME NEW s, NEW On, \A d \in Members(s) : d.rule \notin On
  PROVE  Thinned(<<>>, s, On)
<1> DEFINE none == <<>>
           from == [i \in {} |-> i]
<1>1. DOMAIN none = {}
  OBVIOUS
<1>2. \A j \in DOMAIN s : s[j].rule \notin On
  BY DEF Members
<1> HIDE DEF none
<1>3. /\ from \in [DOMAIN none -> DOMAIN s]
      /\ \A i, j \in DOMAIN none : i < j => from[i] < from[j]
      /\ \A j \in DOMAIN s : s[j].rule \in On <=> \E i \in DOMAIN none : from[i] = j
      /\ \A i \in DOMAIN none : none[i] = s[from[i]]
  BY <1>1, <1>2
<1>4. Thinned(none, s, On)
  BY <1>3, Zenon DEF Thinned
<1> QED BY <1>4 DEF none

-----------------------------------------------------------------------------
(* The rules one by one, and their switches.                                *)
\* The five rules one after the other.
LEMMA PartsThinned ==
  ASSUME NEW T, NEW On,
         NEW p1 \in Seq(T), NEW p2 \in Seq(T), NEW p3 \in Seq(T), NEW p4 \in Seq(T),
         NEW p5 \in Seq(T),
         NEW s1 \in Seq(T), NEW s2 \in Seq(T), NEW s3 \in Seq(T), NEW s4 \in Seq(T),
         NEW s5 \in Seq(T),
         Thinned(p1, s1, On), Thinned(p2, s2, On), Thinned(p3, s3, On),
         Thinned(p4, s4, On), Thinned(p5, s5, On)
  PROVE  Thinned(p1 \o p2 \o p3 \o p4 \o p5, s1 \o s2 \o s3 \o s4 \o s5, On)
<1> DEFINE p12 == p1 \o p2
           p123 == p12 \o p3
           p1234 == p123 \o p4
           s12 == s1 \o s2
           s123 == s12 \o s3
           s1234 == s123 \o s4
<1>1. p12 \in Seq(T) /\ s12 \in Seq(T) /\ Thinned(p12, s12, On)
  BY ThinnedConcat
<1> HIDE DEF p12, s12
<1>2. p123 \in Seq(T) /\ s123 \in Seq(T) /\ Thinned(p123, s123, On)
  BY <1>1, ThinnedConcat
<1> HIDE DEF p123, s123
<1>3. p1234 \in Seq(T) /\ s1234 \in Seq(T) /\ Thinned(p1234, s1234, On)
  BY <1>2, ThinnedConcat
<1> HIDE DEF p1234, s1234
<1>4. Thinned(p1234 \o p5, s1234 \o s5, On)
  BY <1>3, ThinnedConcat
<1> QED BY <1>4 DEF p1234, s1234, p123, s123, p12, s12

\* A rule with its switch.
LEMMA Switched ==
  ASSUME NEW T, NEW s \in Seq(T), NEW p, NEW On, NEW r,
         \A d \in Members(s) : d.rule = r, r \in On => p = s, r \notin On => p = <<>>
  PROVE  Thinned(p, s, On)
<1>1. CASE r \in On
  <2>1. Len(s) \in Nat /\ Listing(s, Len(s))
    BY DEF Listing
  <2> QED BY <1>1, <2>1, ThinnedAlike
<1>2. CASE r \notin On
  BY <1>2, ThinnedAway
<1> QED BY <1>1, <1>2

\* Without a large scan PGP102 says nothing.
LEMMA NoScans ==
  ASSUME NEW in, NEW cf, ~cf.enabled[102]
  PROVE  LargeSequentialScans(in, cf) = <<>>
<1>1. LargeScans(in, cf) = {}
  BY DEF LargeScans
<1>2. Cardinality(LargeScans(in, cf)) = 0
  BY <1>1, FS_EmptySet
<1>3. 1..0 = {}
  OBVIOUS
<1>4. \A f : DOMAIN f = {} /\ f = [n \in DOMAIN f |-> f[n]] => f = <<>>
  OBVIOUS
<1> QED BY <1>2, <1>3, <1>4 DEF LargeSequentialScans

\* The rules one by one, with all of them on and with their switches.
LEMMA RulesSwitched ==
  ASSUME NEW in, InputTyped(in), NEW cf \in Configs
  PROVE  Thinned(Raising(in, cf),
                 Raising(in, [cf EXCEPT !.enabled = [r \in RuleIds |-> TRUE]]),
                 {r \in RuleIds : cf.enabled[r]})
<1> DEFINE on == [cf EXCEPT !.enabled = [r \in RuleIds |-> TRUE]]
           On == {r \in RuleIds : cf.enabled[r]}
           T == Raised(in, cf) \union Raised(in, on)
<1>1. /\ \A r \in RuleIds : on.enabled[r]
      /\ on.maxRows = cf.maxRows /\ on.maxTableRatio = cf.maxTableRatio
      /\ on.minRowsForRatio = cf.minRowsForRatio /\ on.minRelationRows = cf.minRelationRows
      /\ on.maxOutputRatio = cf.maxOutputRatio /\ on.maxResultRows = cf.maxResultRows
  BY ConfigsAssumption
<1> HIDE DEF on
<1>2. /\ MissingWhere(in, cf) \in Seq(T) /\ LargeAffectedRows(in, cf) \in Seq(T)
      /\ LargeSequentialScans(in, cf) \in Seq(T) /\ LargeResultSet(in, cf) \in Seq(T)
      /\ CartesianJoin(in, cf) \in Seq(T)
  <2>1. Seq(Raised(in, cf)) \subseteq Seq(T)
    OBVIOUS
  <2> QED BY <2>1, PartsListed
<1>3. /\ MissingWhere(in, on) \in Seq(T) /\ LargeAffectedRows(in, on) \in Seq(T)
      /\ LargeSequentialScans(in, on) \in Seq(T) /\ LargeResultSet(in, on) \in Seq(T)
      /\ CartesianJoin(in, on) \in Seq(T)
  <2>1. Seq(Raised(in, on)) \subseteq Seq(T)
    OBVIOUS
  <2> QED BY <2>1, PartsListed
<1> HIDE DEF T
<1>4. \A r \in RuleIds : r \in On <=> cf.enabled[r]
  OBVIOUS
<1>5. {1, 2, 101, 102, 103, 104} \subseteq RuleIds
  BY DEF RuleIds
<1> HIDE DEF On
<1>6. Thinned(MissingWhere(in, cf), MissingWhere(in, on), On)
  <2> DEFINE rule == IF in.facts.kind = "update" THEN 1 ELSE 2
  <2>1. \A d \in Members(MissingWhere(in, on)) : d.rule = rule
    BY DEF MissingWhere, Diagnostic, Members
  <2>2. rule \in RuleIds
    BY <1>5
  <2>3. on.enabled[rule] /\ (rule \in On <=> cf.enabled[rule])
    BY <1>1, <1>4, <2>2
  <2>4. /\ cf.enabled[rule] => MissingWhere(in, cf) = MissingWhere(in, on)
        /\ ~cf.enabled[rule] => MissingWhere(in, cf) = <<>>
    BY <2>3 DEF MissingWhere
  <2> HIDE DEF rule
  <2> QED BY <1>3, <2>1, <2>3, <2>4, Switched
<1>7. Thinned(LargeAffectedRows(in, cf), LargeAffectedRows(in, on), On)
  <2>1. \A d \in Members(LargeAffectedRows(in, on)) : d.rule = 101
    BY DEF LargeAffectedRows, Diagnostic, Members
  <2>2. on.enabled[101] /\ (101 \in On <=> cf.enabled[101])
    BY <1>1, <1>4, <1>5
  <2>3. \A affected, live : AffectedTriggers(affected, live, cf) = AffectedTriggers(affected, live, on)
    BY <1>1 DEF AffectedTriggers
  <2>4. /\ cf.enabled[101] => LargeAffectedRows(in, cf) = LargeAffectedRows(in, on)
        /\ ~cf.enabled[101] => LargeAffectedRows(in, cf) = <<>>
    BY <2>2, <2>3 DEF LargeAffectedRows
  <2> QED BY <1>3, <2>1, <2>2, <2>4, Switched
<1>8. Thinned(LargeSequentialScans(in, cf), LargeSequentialScans(in, on), On)
  <2>1. \A d \in Members(LargeSequentialScans(in, on)) : d.rule = 102
    BY ScansListed, RaisedKinds
  <2>2. on.enabled[102] /\ (102 \in On <=> cf.enabled[102])
    BY <1>1, <1>4, <1>5
  <2>3. \A n : ScansLargely(n, in, cf) = ScansLargely(n, in, on)
    BY <1>1 DEF ScansLargely
  <2>4. cf.enabled[102] => LargeScans(in, cf) = LargeScans(in, on)
    BY <2>2, <2>3 DEF LargeScans
  <2>5. cf.enabled[102] => LargeSequentialScans(in, cf) = LargeSequentialScans(in, on)
    BY <2>4 DEF LargeSequentialScans
  <2> QED BY <1>3, <2>1, <2>2, <2>5, NoScans, Switched
<1>9. Thinned(LargeResultSet(in, cf), LargeResultSet(in, on), On)
  <2>1. \A d \in Members(LargeResultSet(in, on)) : d.rule = 103
    BY DEF LargeResultSet, Diagnostic, Members
  <2>2. on.enabled[103] /\ (103 \in On <=> cf.enabled[103])
    BY <1>1, <1>4, <1>5
  <2>3. /\ cf.enabled[103] => LargeResultSet(in, cf) = LargeResultSet(in, on)
        /\ ~cf.enabled[103] => LargeResultSet(in, cf) = <<>>
    BY <1>1, <2>2 DEF LargeResultSet
  <2> QED BY <1>3, <2>1, <2>2, <2>3, Switched
<1>10. Thinned(CartesianJoin(in, cf), CartesianJoin(in, on), On)
  <2>1. \A d \in Members(CartesianJoin(in, on)) : d.rule = 104
    BY DEF CartesianJoin, Diagnostic, Members
  <2>2. on.enabled[104] /\ (104 \in On <=> cf.enabled[104])
    BY <1>1, <1>4, <1>5
  <2>3. /\ cf.enabled[104] => CartesianJoin(in, cf) = CartesianJoin(in, on)
        /\ ~cf.enabled[104] => CartesianJoin(in, cf) = <<>>
    BY <2>2 DEF CartesianJoin
  <2> QED BY <1>3, <2>1, <2>2, <2>3, Switched
<1>11. Thinned(Raising(in, cf), Raising(in, on), On)
  BY <1>2, <1>3, <1>6, <1>7, <1>8, <1>9, <1>10, PartsThinned DEF Raising
<1> QED BY <1>11 DEF on, On

\* A switched-off rule takes its own diagnostics away and nothing else, for every
\* plan, catalog and configuration (rules.rs 7-34).
THEOREM SwitchesIndependent == Spec => []RulesIndependent
<1>1. ASSUME AInv, Done PROVE RulesIndependent
  <2> DEFINE on == [config EXCEPT !.enabled = [r \in RuleIds |-> TRUE]]
             all == Analyze(input, on).diagnostics
             On == {r \in RuleIds : config.enabled[r]}
             s == Raising(input, config)
             t == Raising(input, on)
  <2>1. config \in Configs /\ Diagnostics = Analyze(input, config).diagnostics
    BY <1>1 DEF AInv, Done, Diagnostics
  <2>2. InputTyped(input)
    BY <1>1, DoneRaised
  <2> HIDE DEF on
  <2>3. /\ Len(s) \in Nat /\ Listing(s, Len(s)) /\ Comparable(s) /\ Diagnostics = Sorted(s)
        /\ Len(t) \in Nat /\ Listing(t, Len(t)) /\ Comparable(t) /\ all = Sorted(t)
        /\ Members(t) = Raised(input, on)
    BY <2>1, <2>2, RaisingListed
  <2>4. Thinned(s, t, On)
    BY <2>1, <2>2, RulesSwitched DEF on
  <2>5. \A i \in DOMAIN all : all[i].rule \in RuleIds
    <3>1. \A d \in Raised(input, on) : d.rule \in RuleIds
      BY <2>2, RaisedKinds DEF Raised, RuleIds
    <3>2. Members(Sorted(t)) = Raised(input, on)
      BY <2>3, SortedKeeps
    <3> QED BY <2>3, <3>1, <3>2 DEF Members
  <2> HIDE DEF s, t, all, On
  <2>6. Diagnostics = Selected(all, {i \in DOMAIN all : all[i].rule \in On})
    BY <2>3, <2>4, SortedThinned
  <2>7. {i \in DOMAIN all : all[i].rule \in On} = {i \in DOMAIN all : config.enabled[all[i].rule]}
    BY <2>5 DEF On
  <2> QED BY <2>6, <2>7, Zenon DEF RulesIndependent, all, on
<1>2. ASSUME AInv PROVE RulesIndependent
  BY <1>1, <1>2 DEF RulesIndependent
<1> QED BY <1>2, AnalysisInvariant, PTL

-----------------------------------------------------------------------------
\* What the rules raise, by rule.
LEMMA RaisedApart ==
  ASSUME NEW in, InputTyped(in), NEW cf
  PROVE  LET all == Raising(in, cf)
         IN /\ Thinned(MissingWhere(in, cf), all, {1, 2})
            /\ Thinned(LargeAffectedRows(in, cf), all, {101})
            /\ Thinned(LargeSequentialScans(in, cf), all, {102})
            /\ Thinned(LargeResultSet(in, cf), all, {103})
            /\ Thinned(CartesianJoin(in, cf), all, {104})
<1> DEFINE s1 == MissingWhere(in, cf)
           s2 == LargeAffectedRows(in, cf)
           s3 == LargeSequentialScans(in, cf)
           s4 == LargeResultSet(in, cf)
           s5 == CartesianJoin(in, cf)
           T == Raised(in, cf)
           none == <<>>
<1>1. s1 \in Seq(T) /\ s2 \in Seq(T) /\ s3 \in Seq(T) /\ s4 \in Seq(T) /\ s5 \in Seq(T)
  BY PartsListed
<1>2. /\ \A d \in Members(s1) : d.rule \in {1, 2}
      /\ \A d \in Members(s2) : d.rule = 101
      /\ \A d \in Members(s3) : d.rule = 102
      /\ \A d \in Members(s4) : d.rule = 103
      /\ \A d \in Members(s5) : d.rule = 104
  BY RaisedKinds, ScansListed
<1> HIDE DEF s1, s2, s3, s4, s5, T
<1>3. /\ Len(s1) \in Nat /\ Listing(s1, Len(s1)) /\ Len(s2) \in Nat /\ Listing(s2, Len(s2))
      /\ Len(s3) \in Nat /\ Listing(s3, Len(s3)) /\ Len(s4) \in Nat /\ Listing(s4, Len(s4))
      /\ Len(s5) \in Nat /\ Listing(s5, Len(s5))
  BY <1>1 DEF Listing
<1>4. /\ Thinned(s1, s1, {1, 2}) /\ Thinned(s2, s2, {101}) /\ Thinned(s3, s3, {102})
      /\ Thinned(s4, s4, {103}) /\ Thinned(s5, s5, {104})
  BY <1>2, <1>3, ThinnedAlike
<1>5. /\ \A On \in {{101}, {102}, {103}, {104}} : Thinned(none, s1, On)
      /\ \A On \in {{1, 2}, {102}, {103}, {104}} : Thinned(none, s2, On)
      /\ \A On \in {{1, 2}, {101}, {103}, {104}} : Thinned(none, s3, On)
      /\ \A On \in {{1, 2}, {101}, {102}, {104}} : Thinned(none, s4, On)
      /\ \A On \in {{1, 2}, {101}, {102}, {103}} : Thinned(none, s5, On)
  BY <1>2, ThinnedAway
<1>6. none \in Seq(T) /\ \A s \in Seq(T) : none \o s = s /\ s \o none = s
  OBVIOUS
<1> HIDE DEF none
<1> DEFINE all == s1 \o s2 \o s3 \o s4 \o s5
<1>7. Thinned(s1 \o none \o none \o none \o none, all, {1, 2})
  BY <1>1, <1>4, <1>5, <1>6, PartsThinned
<1>8. Thinned(none \o s2 \o none \o none \o none, all, {101})
  BY <1>1, <1>4, <1>5, <1>6, PartsThinned
<1>9. Thinned(none \o none \o s3 \o none \o none, all, {102})
  BY <1>1, <1>4, <1>5, <1>6, PartsThinned
<1>10. Thinned(none \o none \o none \o s4 \o none, all, {103})
  BY <1>1, <1>4, <1>5, <1>6, PartsThinned
<1>11. Thinned(none \o none \o none \o none \o s5, all, {104})
  BY <1>1, <1>4, <1>5, <1>6, PartsThinned
<1>12. all = Raising(in, cf)
  BY DEF Raising, s1, s2, s3, s4, s5
<1> HIDE DEF all
<1>13. /\ s1 \o none \o none \o none \o none = s1
       /\ none \o s2 \o none \o none \o none = s2
       /\ none \o none \o s3 \o none \o none = s3
       /\ none \o none \o none \o s4 \o none = s4
       /\ none \o none \o none \o none \o s5 = s5
  BY <1>1, <1>6
<1> QED BY <1>7, <1>8, <1>9, <1>10, <1>11, <1>12, <1>13 DEF s1, s2, s3, s4, s5

\* All but PGP102 speak once.
LEMMA RaisedOnce ==
  ASSUME NEW in, InputTyped(in), NEW cf,
         NEW x \in DOMAIN Raising(in, cf), NEW y \in DOMAIN Raising(in, cf),
         NEW On \in {{1, 2}, {101}, {103}, {104}},
         Raising(in, cf)[x].rule \in On, Raising(in, cf)[y].rule \in On
  PROVE  x = y
<1>1. PICK s : Thinned(s, Raising(in, cf), On) /\ DOMAIN s \subseteq {1}
  <2>1. \A d : DOMAIN <<d>> \subseteq {1}
    OBVIOUS
  <2>2. DOMAIN <<>> \subseteq {1}
    OBVIOUS
  <2>3. /\ DOMAIN MissingWhere(in, cf) \subseteq {1}
        /\ DOMAIN LargeAffectedRows(in, cf) \subseteq {1}
        /\ DOMAIN LargeResultSet(in, cf) \subseteq {1}
        /\ DOMAIN CartesianJoin(in, cf) \subseteq {1}
    BY <2>1, <2>2 DEF MissingWhere, LargeAffectedRows, LargeResultSet, CartesianJoin
  <2> QED BY <2>3, RaisedApart
<1>2. PICK from \in [DOMAIN s -> DOMAIN Raising(in, cf)] :
        \A j \in DOMAIN Raising(in, cf) :
          Raising(in, cf)[j].rule \in On <=> \E i \in DOMAIN s : from[i] = j
  BY <1>1 DEF Thinned
<1> QED BY <1>1, <1>2

\* The kinds of diagnostics.
LEMMA KindsRaised ==
  ASSUME NEW in, InputTyped(in), NEW cf, NEW d \in Raised(in, cf)
  PROVE  /\ \/ d.rule \in {1, 2} /\ d.severity = "error"
            \/ d.rule \in {101, 102, 103, 104} /\ d.severity = "warning"
         /\ d.relation \in Nat
<1>1. CASE \E i \in LargeScans(in, cf) : d = ScanDiagnostic(in, i)
  BY <1>1, RaisedKinds
<1>2. CASE d \in Members(MissingWhere(in, cf))
  BY <1>2, RaisedKinds
<1>3. CASE d \in Members(LargeAffectedRows(in, cf))
  BY <1>3, RaisedKinds
<1>4. CASE d \in Members(LargeResultSet(in, cf))
  BY <1>4, RaisedKinds
<1>5. CASE d \in Members(CartesianJoin(in, cf))
  BY <1>5, RaisedKinds
<1> QED BY <1>1, <1>2, <1>3, <1>4, <1>5 DEF Raised

\* Where a diagnostic of the report comes from.
LEMMA SortedFrom ==
  ASSUME NEW N \in Nat, NEW s, Listing(s, N), Comparable(s)
  PROVE  LET Place(n) == Nth(DOMAIN s, Order(s), n)
         IN /\ DOMAIN Sorted(s) = DOMAIN s
            /\ \A n \in DOMAIN s : Place(n) \in DOMAIN s /\ Sorted(s)[n] = s[Place(n)]
            /\ \A i \in DOMAIN s : \E n \in DOMAIN s : Place(n) = i
            /\ \A n, m \in DOMAIN s : n < m <=> <<Place(n), Place(m)>> \in Order(s)
<1> DEFINE S == DOMAIN s
<1>1. S = 1..N /\ IsFiniteSet(S) /\ Cardinality(S) = N
  BY FS_Interval DEF Listing
<1>2. LinearOrder(S, Order(s))
  BY OrderLinear
<1> HIDE DEF S
<1>3. /\ \A n \in 1..Cardinality(S) : Nth(S, Order(s), n) \in S
      /\ \A i \in S : \E n \in 1..Cardinality(S) : Nth(S, Order(s), n) = i
  <2>1. IsFiniteSet(S)
    BY <1>1
  <2> QED BY <1>2, <2>1, NthEnumerates
<1>4. \A n, m \in 1..Cardinality(S) :
        n < m <=> <<Nth(S, Order(s), n), Nth(S, Order(s), m)>> \in Order(s)
  BY <1>1, <1>2, NthIncreasing
<1>5. 1..Cardinality(S) = S
  BY <1>1
<1>6. DOMAIN Sorted(s) = S /\ \A n \in S : Sorted(s)[n] = s[Nth(S, Order(s), n)]
  BY DEF Sorted, S
<1> QED BY <1>3, <1>4, <1>5, <1>6 DEF S

\* The order of the report.
LEMMA ReportOrdered ==
  ASSUME NEW in, InputTyped(in), NEW cf,
         NEW i \in DOMAIN Analyze(in, cf).diagnostics,
         NEW j \in DOMAIN Analyze(in, cf).diagnostics, i < j
  PROVE  LET a == Analyze(in, cf).diagnostics[i]
             b == Analyze(in, cf).diagnostics[j]
         IN /\ a.severity = b.severity \/ a.severity = "error"
            /\ \/ a.rule < b.rule
               \/ a.rule = b.rule /\ a.relation < b.relation
               \/ a.rule = 102 /\ b.rule = 102 /\ a.relation = b.relation
<1> DEFINE s == Raising(in, cf)
           Place(n) == Nth(DOMAIN s, Order(s), n)
           x == Place(i)
           y == Place(j)
           a == s[x]
           b == s[y]
<1>1. /\ Len(s) \in Nat /\ Listing(s, Len(s)) /\ Comparable(s)
      /\ Members(s) = Raised(in, cf) /\ Analyze(in, cf).diagnostics = Sorted(s)
  BY RaisingListed
<1>2. /\ x \in DOMAIN s /\ y \in DOMAIN s /\ <<x, y>> \in Order(s)
      /\ Analyze(in, cf).diagnostics[i] = a /\ Analyze(in, cf).diagnostics[j] = b
  BY <1>1, SortedFrom
<1>3. /\ \/ a.rule \in {1, 2} /\ a.severity = "error"
         \/ a.rule \in {101, 102, 103, 104} /\ a.severity = "warning"
      /\ \/ b.rule \in {1, 2} /\ b.severity = "error"
         \/ b.rule \in {101, 102, 103, 104} /\ b.severity = "warning"
      /\ a.relation \in Nat /\ b.relation \in Nat
  <2>1. a \in Raised(in, cf) /\ b \in Raised(in, cf)
    BY <1>1, <1>2 DEF Members
  <2> QED BY <2>1, KindsRaised
<1>4. x # y
  BY <1>1, <1>2, OrderLinear DEF LinearOrder
<1>5. /\ ~(a.rule \in {1, 2} /\ b.rule \in {1, 2})
      /\ \A r \in {101, 103, 104} : ~(a.rule = r /\ b.rule = r)
  BY <1>2, <1>4, RaisedOnce
<1>6. ~Before(b, a)
  <2>1. Before(a, b) \/ ~Before(b, a)
    BY <1>2 DEF Order
  <2> HIDE DEF a, b
  <2> QED BY <1>3, <2>1, BeforeLexicographic DEF Rank
<1> HIDE DEF a, b
<1>7. /\ ~(Rank(b) < Rank(a))
      /\ Rank(a) = Rank(b) => ~(b.rule < a.rule)
      /\ Rank(a) = Rank(b) /\ a.rule = b.rule => ~(b.relation < a.relation)
  BY <1>6, BeforeLexicographic
<1>8. /\ a.severity = b.severity \/ a.severity = "error"
      /\ \/ a.rule < b.rule
         \/ a.rule = b.rule /\ a.relation < b.relation
         \/ a.rule = 102 /\ b.rule = 102 /\ a.relation = b.relation
  BY <1>3, <1>5, <1>7 DEF Rank
<1> QED BY <1>2, <1>8

\* The stable sort leaves the scans of a relation in the order of the plan.
LEMMA ScansInOrder ==
  ASSUME NEW in, InputTyped(in), NEW cf, NEW r, NEW ds, ds = Analyze(in, cf).diagnostics
  PROVE  ScansReported(in, cf, ds, r)
<1> DEFINE nodes == in.plan.nodes
           s == Raising(in, cf)
           Place(n) == Nth(DOMAIN s, Order(s), n)
           A == {n \in DOMAIN ds : ds[n].rule = 102 /\ ds[n].relation = r}
           L == LargeScans(in, cf)
           N == Cardinality(L)
           C == {i \in L : nodes[i].relation = r}
           Of(k) == Nth(L, Ascending(L), k)
           scanned == LargeSequentialScans(in, cf)
<1>1. /\ Len(s) \in Nat /\ Listing(s, Len(s)) /\ Comparable(s)
      /\ Members(s) = Raised(in, cf) /\ ds = Sorted(s)
  BY RaisingListed
<1>2. /\ DOMAIN ds = DOMAIN s
      /\ \A n \in DOMAIN s : Place(n) \in DOMAIN s /\ ds[n] = s[Place(n)]
      /\ \A i \in DOMAIN s : \E n \in DOMAIN s : Place(n) = i
      /\ \A n, m \in DOMAIN s : n < m <=> <<Place(n), Place(m)>> \in Order(s)
  BY <1>1, SortedFrom
<1>3. L \in SUBSET Int /\ IsFiniteSet(L) /\ N \in Nat
  <2>1. L \in SUBSET (1..Len(nodes)) /\ Len(nodes) \in Nat
    BY DEF LargeScans, InputTyped
  <2>2. IsFiniteSet(1..Len(nodes)) /\ 1..Len(nodes) \subseteq Int
    BY <2>1, FS_Interval
  <2> HIDE DEF L
  <2>3. IsFiniteSet(L)
    BY <2>1, <2>2, FS_Subset
  <2> QED BY <2>1, <2>2, <2>3, FS_CardinalityType
<1>4. scanned = [k \in 1..N |-> ScanDiagnostic(in, Of(k))]
  BY DEF LargeSequentialScans, ScanDiagnostic, Ascending
<1>5. PICK from \in [DOMAIN scanned -> DOMAIN s] :
        /\ \A i, j \in DOMAIN scanned : i < j => from[i] < from[j]
        /\ \A j \in DOMAIN s : s[j].rule \in {102} <=> \E i \in DOMAIN scanned : from[i] = j
        /\ \A i \in DOMAIN scanned : scanned[i] = s[from[i]]
  BY RaisedApart DEF Thinned
<1>6. \A d \in Members(s) : d.rule = 102 => d.severity = "warning"
  BY <1>1, KindsRaised
<1> HIDE DEF s, L, N, scanned, Place
<1>7. /\ \A k \in 1..N : Of(k) \in L
      /\ \A i \in L : \E k \in 1..N : Of(k) = i
      /\ \A k, m \in 1..N : k < m <=> Of(k) < Of(m)
  <2>1. LinearOrder(L, Ascending(L))
    BY <1>3, AscendingLinear
  <2>2. /\ \A k \in 1..N : Of(k) \in L
        /\ \A i \in L : \E k \in 1..N : Of(k) = i
    BY <1>3, <2>1, NthEnumerates DEF N
  <2>3. \A k, m \in 1..N : k < m <=> <<Of(k), Of(m)>> \in Ascending(L)
    BY <1>3, <2>1, NthIncreasing DEF N
  <2> HIDE DEF Of
  <2> QED BY <2>2, <2>3 DEF Ascending
<1> HIDE DEF Of
<1>8. DOMAIN scanned = 1..N /\ DOMAIN s \subseteq Int
  <2>1. DOMAIN s = 1..Len(s)
    BY <1>1 DEF Listing
  <2> QED BY <1>1, <1>4, <2>1
<1>9. \A k \in 1..N : /\ s[from[k]].rule = 102 /\ s[from[k]].relation = nodes[Of(k)].relation
                     /\ s[from[k]].evidence = {nodes[Of(k)].alias}
                     /\ from[k] \in DOMAIN s
  BY <1>4, <1>5, <1>8 DEF ScanDiagnostic, Diagnostic
<1>10. \A k, m \in 1..N : (k < m <=> from[k] < from[m]) /\ (from[k] = from[m] => k = m)
  <2>1. \A k \in 1..N : k \in Int /\ from[k] \in Int
    BY <1>8, <1>9
  <2> QED BY <1>5, <1>8, <2>1
<1> DEFINE Which(n) == CHOOSE k \in 1..N : from[k] = Place(n)
           f == [n \in A |-> Of(Which(n))]
<1>11. \A n \in A : n \in DOMAIN s /\ n \in Int /\ Which(n) \in 1..N /\ from[Which(n)] = Place(n)
  <2> SUFFICES ASSUME NEW n \in A
               PROVE  n \in DOMAIN s /\ n \in Int /\ \E k \in 1..N : from[k] = Place(n)
    OBVIOUS
  <2>1. n \in DOMAIN s /\ s[Place(n)].rule = 102 /\ Place(n) \in DOMAIN s
    BY <1>2
  <2> QED BY <1>5, <1>8, <2>1
<1> HIDE DEF Which
<1>12. f \in [A -> C]
  <2> SUFFICES ASSUME NEW n \in A PROVE Of(Which(n)) \in C
    OBVIOUS
  <2>1. Of(Which(n)) \in L /\ nodes[Of(Which(n))].relation = s[Place(n)].relation
    BY <1>7, <1>9, <1>11
  <2>2. s[Place(n)].relation = r
    BY <1>2, <1>11
  <2> QED BY <2>1, <2>2
<1>13. \A i \in C : \E n \in A : f[n] = i
  <2> SUFFICES ASSUME NEW i \in C PROVE \E n \in A : Of(Which(n)) = i
    OBVIOUS
  <2>1. PICK k \in 1..N : Of(k) = i
    BY <1>7
  <2>2. PICK n \in DOMAIN s : Place(n) = from[k]
    BY <1>2, <1>9
  <2>3. ds[n] = s[from[k]] /\ n \in DOMAIN ds
    BY <1>2, <2>2
  <2>4. n \in A
    BY <1>9, <2>1, <2>3
  <2> QED BY <1>10, <1>11, <2>1, <2>2, <2>4
<1>14. \A n, m \in A : <<n, m>> \in Ascending(A) <=> <<f[n], f[m]>> \in Ascending(C)
  <2> SUFFICES ASSUME NEW n \in A, NEW m \in A PROVE n < m <=> f[n] < f[m]
    BY <1>12 DEF Ascending
  <2>1. n < m <=> <<Place(n), Place(m)>> \in Order(s)
    BY <1>2, <1>11
  <2> DEFINE x == Place(n)
             y == Place(m)
  <2>2. x \in DOMAIN s /\ y \in DOMAIN s /\ ds[n] = s[x] /\ ds[m] = s[y]
    BY <1>2, <1>11
  <2>3. s[x].rule = 102 /\ s[y].rule = 102 /\ s[x].relation = r /\ s[y].relation = r
    BY <2>2
  <2>4. Rank(s[x]) = 1 /\ Rank(s[y]) = 1
    BY <1>6, <2>2, <2>3 DEF Members, Rank
  <2>5. ~Before(s[x], s[y]) /\ ~Before(s[y], s[x])
    <3>1. r \in Int
      BY <1>1, <2>2, <2>3 DEF Comparable, Members
    <3> QED BY <2>3, <2>4, <3>1, BeforeLexicographic
  <2>6. <<x, y>> \in Order(s) <=> x < y
    BY <2>2, <2>5 DEF Order
  <2>7. x < y <=> Which(n) < Which(m)
    BY <1>10, <1>11
  <2>8. Which(n) < Which(m) <=> f[n] < f[m]
    BY <1>7, <1>11
  <2> QED BY <2>1, <2>6, <2>7, <2>8
<1>15. /\ A \in SUBSET Int /\ IsFiniteSet(A) /\ C \in SUBSET Int
  <2>1. IsFiniteSet(DOMAIN s)
    <3>1. DOMAIN s = 1..Len(s)
      BY <1>1 DEF Listing
    <3> QED BY <1>1, <3>1, FS_Interval
  <2>2. A \in SUBSET (DOMAIN s)
    BY <1>2
  <2> HIDE DEF A
  <2>3. IsFiniteSet(A)
    BY <2>1, <2>2, FS_Subset
  <2> QED BY <1>3, <1>8, <2>2, <2>3
<1>16. /\ Cardinality(C) = Cardinality(A)
       /\ \A n \in 1..Cardinality(A) : Nth(C, Ascending(C), n) = f[Nth(A, Ascending(A), n)]
  <2>1. Embedding(f, A, Ascending(A), C, Ascending(C))
    <3> HIDE DEF f, A, C
    <3> QED BY <1>12, <1>13, <1>14 DEF Embedding
  <2> HIDE DEF f, A, C
  <2>2. LinearOrder(A, Ascending(A)) /\ LinearOrder(C, Ascending(C))
    BY <1>15, AscendingLinear
  <2> QED BY <1>15, <2>1, <2>2, NthIso
<1>17. \A n \in A : ds[n].evidence = {nodes[f[n]].alias}
  <2> SUFFICES ASSUME NEW n \in A PROVE ds[n].evidence = {nodes[Of(Which(n))].alias}
    OBVIOUS
  <2>1. ds[n] = s[from[Which(n)]]
    BY <1>2, <1>11
  <2> QED BY <1>9, <1>11, <2>1
<1> HIDE DEF A, C, f
<1>18. \A n \in 1..Cardinality(A) : Nth(A, Ascending(A), n) \in A
  BY <1>15, AscendingLinear, NthEnumerates
<1> DEFINE reported == Selected(ds, A)
           planned == Selected(nodes, C)
<1>19. /\ reported = [n \in 1..Cardinality(A) |-> ds[Nth(A, Ascending(A), n)]]
       /\ planned = [n \in 1..Cardinality(A) |-> nodes[Nth(C, Ascending(C), n)]]
  BY <1>16 DEF Selected
<1> HIDE DEF reported, planned
<1>20. /\ DOMAIN reported = 1..Cardinality(A) /\ DOMAIN planned = 1..Cardinality(A)
       /\ \A n \in 1..Cardinality(A) : reported[n].evidence = {planned[n].alias}
  BY <1>16, <1>17, <1>18, <1>19
<1>21. [n \in DOMAIN reported |-> reported[n].evidence]
         = [n \in DOMAIN planned |-> {planned[n].alias}]
  BY <1>20
<1> QED BY <1>21 DEF ScansReported, reported, planned, A, C, L

\* For every plan and catalog the diagnostics come by severity, rule and relation,
\* and the scans of a relation in the order of the plan (rules.rs 26-32, 130-153).
THEOREM ReportDeterministic == Spec => []OrderDeterministic
<1>1. ASSUME AInv, Done PROVE OrderDeterministic
  <2>1. config \in Configs /\ Diagnostics = Analyze(input, config).diagnostics
    BY <1>1 DEF AInv, Done, Diagnostics
  <2>2. InputTyped(input)
    BY <1>1, DoneRaised
  <2>3. \A i, j \in DOMAIN Diagnostics : i < j =>
          LET a == Diagnostics[i]
              b == Diagnostics[j]
          IN /\ a.severity = b.severity \/ a.severity = "error"
             /\ \/ a.rule < b.rule
                \/ a.rule = b.rule /\ a.relation < b.relation
                \/ a.rule = 102 /\ b.rule = 102 /\ a.relation = b.relation
    BY <2>1, <2>2, ReportOrdered
  <2>4. \A r : ScansReported(input, config, Diagnostics, r)
    BY <2>1, <2>2, ScansInOrder
  <2> QED BY <2>3, <2>4 DEF OrderDeterministic
<1>2. ASSUME AInv, ~Done PROVE OrderDeterministic
  <2>1. Diagnostics = <<>>
    BY <1>2 DEF AInv, Done, Diagnostics, Report
  <2>2. DOMAIN Diagnostics = {}
    BY <2>1
  <2> QED BY <1>2, <2>2 DEF OrderDeterministic
<1> QED BY <1>1, <1>2, AnalysisInvariant, PTL
=============================================================================
