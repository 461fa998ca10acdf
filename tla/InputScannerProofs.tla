--------------------------- MODULE InputScannerProofs ---------------------------
(***************************************************************************)
(* Proofs about InputScanner, for every input: the offsets stay between    *)
(* characters, the depth in its range, and the scan decides what the       *)
(* grammar of blank texts says.  The grammar is recursive: what is left of *)
(* the text gets shorter, so its rules define functions, and each step of  *)
(* the scan is one unfolding of them.                                      *)
(***************************************************************************)
EXTENDS InputScanner, SequenceTheorems, WellFoundedInduction, TLAPS

\* The inductive invariant.
SInv ==
  /\ TypeOK
  /\ pc = "read" => offset = 0
  /\ pc \in {"top", "line", "block"} => Utf8(text)
  /\ OnBoundary

-----------------------------------------------------------------------------
\* A character ends where the next one begins.
LEMMA NextBegins ==
  ASSUME NEW s \in Seq(Bytes), Utf8(s), NEW i \in Begins(s)
  PROVE  i + Width(s, i) \in Begins(s) \union {Len(s) + 1}
<1> DEFINE j == i + Width(s, i)
<1>1. \A k \in Begins(s) : k \in 1..Len(s) /\ Width(s, k) \in {1, 2, 3}
  BY DEF Begins, Width
<1>2. j \in Int /\ i < j /\ j <= Len(s) + 1
  BY <1>1 DEF Utf8
<1>3. ASSUME j <= Len(s), s[j] = "cont" PROVE FALSE
  <2>1. PICK k \in Begins(s) : k < j /\ j < k + Width(s, k)
    BY <1>1, <1>2, <1>3 DEF Utf8
  <2>2. CASE k < i
    <3>1. i < k + Width(s, k)
      BY <1>1, <1>2, <2>1
    <3>2. s[i] = "cont"
      BY <1>1, <2>2, <3>1 DEF Utf8
    <3> QED BY <3>2 DEF Begins
  <2>3. CASE i < k
    <3>1. s[k] = "cont"
      BY <1>1, <2>1, <2>3 DEF Utf8
    <3> QED BY <3>1 DEF Begins
  <2> QED BY <1>1, <2>1, <2>2, <2>3
<1> QED BY <1>1, <1>2, <1>3 DEF Begins

\* What follows two ASCII characters begins as well.
LEMMA PairEnds ==
  ASSUME NEW s \in Seq(Bytes), Utf8(s), NEW i \in Begins(s), i + 1 <= Len(s),
         Width(s, i) = 1, Width(s, i + 1) = 1
  PROVE  i + 2 \in Begins(s) \union {Len(s) + 1}
<1>1. i \in 1..Len(s)
  BY DEF Begins
<1>2. i + 1 \in Begins(s)
  BY <1>1, NextBegins
<1>3. i + 1 + 1 = i + 2
  BY <1>1
<1> QED BY <1>2, <1>3, NextBegins

\* Without its mark a text still is well-formed.
LEMMA WithoutMark ==
  ASSUME NEW s \in Seq(Bytes), Utf8(s), s # <<>>, s[1] = "mark"
  PROVE  SubSeq(s, 4, Len(s)) \in Seq(Bytes) /\ Utf8(SubSeq(s, 4, Len(s)))
<1> DEFINE t == SubSeq(s, 4, Len(s))
<1> HIDE DEF t
<1>1. 1 \in Begins(s) /\ Width(s, 1) = 3
  BY DEF Begins, Width
<1>2. Len(s) >= 3
  BY <1>1 DEF Utf8
<1>3. /\ t \in Seq(Bytes) /\ Len(t) = Len(s) - 3
      /\ \A i \in 1..Len(t) : i + 3 \in 1..Len(s) /\ t[i] = s[i + 3]
  <2>1. 4 \in Int /\ Len(s) \in Int /\ \A i \in 4..Len(s) : s[i] \in Bytes
    OBVIOUS
  <2>2. t \in Seq(Bytes) /\ Len(t) = Len(s) - 4 + 1
    <3>1. t \in Seq(Bytes)
      BY <2>1, SubSeqProperties DEF t
    <3>2. Len(t) = IF 4 <= Len(s) THEN Len(s) - 4 + 1 ELSE 0
      BY <2>1, SubSeqProperties DEF t
    <3>3. Len(s) \in Int
      BY <2>1
    <3>4. 4 <= Len(s) \/ Len(s) = 3
      BY <1>2, <3>3
    <3> QED BY <3>1, <3>2, <3>3, <3>4
  <2>3. \A i \in 1..(Len(s) - 4 + 1) : t[i] = s[4 + i - 1]
    BY <2>1, SubSeqProperties DEF t
  <2>4. \A i \in 1..Len(t) : i + 3 \in 1..Len(s) /\ 4 + i - 1 = i + 3
    BY <1>2, <2>2
  <2> QED BY <1>2, <2>2, <2>3, <2>4
<1>4. \A i \in Int : i \in Begins(t) <=> i > 0 /\ i + 3 \in Begins(s)
  BY <1>2, <1>3 DEF Begins
<1>5. \A i \in Begins(t) : i \in 1..Len(t) /\ Width(t, i) = Width(s, i + 3)
  BY <1>3 DEF Begins, Width
<1>6. \A k \in Begins(s) : k \in 1..Len(s) /\ Width(s, k) \in {1, 2, 3}
  BY DEF Begins, Width
<1>7. \A k \in Begins(s) : k = 1 \/ k > 3
  <2>1. \A k \in {2, 3} : s[k] = "cont"
    BY <1>1, <1>2 DEF Utf8
  <2> QED BY <1>6, <2>1 DEF Begins
<1>8. ASSUME NEW i \in 1..Len(t)
      PROVE  t[i] = "cont" <=> \E k \in Begins(t) : k < i /\ i < k + Width(t, k)
  <2>1. t[i] = "cont" <=> \E k \in Begins(s) : k < i + 3 /\ i + 3 < k + Width(s, k)
    BY <1>3 DEF Utf8
  <2>2. ASSUME NEW k \in Begins(s), k < i + 3, i + 3 < k + Width(s, k)
        PROVE  k - 3 \in Begins(t) /\ k - 3 < i /\ i < (k - 3) + Width(t, k - 3)
    <3>1. k > 3
      BY <1>1, <1>6, <1>7, <2>2
    <3>2. k - 3 \in Begins(t) /\ (k - 3) + 3 = k
      BY <1>4, <1>6, <3>1
    <3> QED BY <1>5, <1>6, <2>2, <3>2
  <2>3. ASSUME NEW k \in Begins(t), k < i, i < k + Width(t, k)
        PROVE  k + 3 \in Begins(s) /\ k + 3 < i + 3 /\ i + 3 < (k + 3) + Width(s, k + 3)
    <3>1. k \in 1..Len(t) /\ k + 3 \in Begins(s)
      BY <1>4, <1>5
    <3> QED BY <1>5, <1>6, <2>3, <3>1
  <2> QED BY <2>1, <2>2, <2>3
<1>9. \A i \in Begins(t) : i + Width(t, i) - 1 <= Len(t)
  <2> SUFFICES ASSUME NEW i \in Begins(t) PROVE i + Width(t, i) - 1 <= Len(t)
    OBVIOUS
  <2>1. i \in 1..Len(t) /\ i + 3 \in Begins(s)
    BY <1>4, <1>5
  <2>2. (i + 3) + Width(s, i + 3) - 1 <= Len(s)
    BY <2>1 DEF Utf8
  <2> QED BY <1>2, <1>3, <1>5, <1>6, <2>1, <2>2
<1> QED BY <1>3, <1>8, <1>9 DEF Utf8, t

-----------------------------------------------------------------------------
\* The offset after a character and after a pair (input.rs 40-48, 64-68, 84-98).
LEMMA Advances ==
  ASSUME SInv, pc \in {"top", "line", "block"}, offset < Len(text)
  PROVE  /\ offset + 1 \in Begins(text)
         /\ NextCharacter \in Nat /\ NextCharacter + 1 \in Begins(text) \union {Len(text) + 1}
         /\ \A pair \in {<<"-", "-">>, <<"/", "*">>, <<"*", "/">>} :
              StartsWith(pair) => offset + 3 \in Begins(text) \union {Len(text) + 1}
<1>1. text \in Seq(Bytes) /\ offset \in Nat /\ Utf8(text) /\ text[offset + 1] # "cont"
  BY DEF SInv, TypeOK, OnBoundary
<1>2. offset + 1 \in Begins(text)
  BY <1>1 DEF Begins
<1>3. Width(text, offset + 1) \in {1, 2, 3}
  BY DEF Width
<1>4. NextCharacter \in Nat /\ NextCharacter + 1 \in Begins(text) \union {Len(text) + 1}
  <2>1. offset + 1 + Width(text, offset + 1) = NextCharacter + 1
    BY <1>1, <1>3 DEF NextCharacter
  <2> QED BY <1>1, <1>2, <1>3, <2>1, NextBegins DEF NextCharacter
<1>5. ASSUME NEW pair \in {<<"-", "-">>, <<"/", "*">>, <<"*", "/">>}, StartsWith(pair)
      PROVE  offset + 3 \in Begins(text) \union {Len(text) + 1}
  <2>1. offset + 2 <= Len(text) /\ SubSeq(text, offset + 1, offset + 2) = pair
    BY <1>5 DEF StartsWith
  <2>2. text[offset + 1] = pair[1] /\ text[offset + 2] = pair[2]
    BY <1>1, <2>1
  <2>3. Width(text, offset + 1) = 1 /\ Width(text, offset + 2) = 1
    BY <2>2 DEF Width
  <2>4. (offset + 1) + 1 = offset + 2 /\ (offset + 1) + 2 = offset + 3
    BY <1>1
  <2> QED BY <1>1, <1>2, <2>1, <2>3, <2>4, PairEnds
<1> QED BY <1>2, <1>4, <1>5

\* Being between characters, in one step.
LEMMA Settled ==
  ASSUME text' \in Seq(Bytes), offset' \in Nat,
         offset' + 1 \in Begins(text') \union {Len(text') + 1}
  PROVE  OnBoundary'
<1>1. offset' <= Len(text')
  <2>1. Len(text') \in Nat /\ \A i \in Begins(text') : i \in Int /\ i <= Len(text')
    BY DEF Begins
  <2> QED BY <2>1
<1>2. offset' < Len(text') => offset' + 1 \in Begins(text')
  OBVIOUS
<1> QED BY <1>1, <1>2 DEF OnBoundary, Begins

LEMMA InitSInv == Init => SInv
BY InputsAssumption, MaxDepthAssumption DEF Init, SInv, TypeOK, OnBoundary

LEMMA FinishStep ==
  ASSUME SInv, NEW r \in {"io", "not_utf8", "empty", "sql"}, Finish(r), text' = text
  PROVE  SInv'
BY DEF SInv, TypeOK, Finish, OnBoundary

LEMMA ReadStep == ASSUME SInv, ReadSql PROVE SInv'
<1>1. CASE pc' = "top"
  <2>1. /\ pc = "read" /\ Utf8(text) /\ UNCHANGED <<offset, depth, result>> /\ offset = 0
        /\ text' = IF text # <<>> /\ text[1] = "mark" THEN SubSeq(text, 4, Len(text)) ELSE text
    BY <1>1 DEF ReadSql, Finish, SInv
  <2>2. text' \in Seq(Bytes) /\ Utf8(text')
    BY <2>1, WithoutMark DEF SInv, TypeOK
  <2>3. text' # <<>> => text'[1] # "cont"
    <3> SUFFICES ASSUME text' # <<>>, text'[1] = "cont" PROVE FALSE
      OBVIOUS
    <3>1. 1 \in 1..Len(text')
      BY <2>2
    <3>2. PICK k \in Begins(text') : k < 1
      BY <2>2, <3>1 DEF Utf8
    <3> QED BY <3>2 DEF Begins
  <2>4. OnBoundary'
    <3>1. offset' = 0 /\ offset' <= Len(text') /\ offset' + 1 = 1
      BY <2>1, <2>2
    <3>2. offset' < Len(text') => text' # <<>>
      BY <2>2, <3>1
    <3> QED BY <2>3, <3>1, <3>2 DEF OnBoundary
  <2>5. Utf8(text)'
    BY <2>2 DEF Utf8, Begins, Width
  <2> QED BY <1>1, <2>1, <2>2, <2>4, <2>5 DEF SInv, TypeOK
<1>2. CASE pc' # "top"
  BY <1>2, FinishStep DEF ReadSql
<1> QED BY <1>1, <1>2

\* A step of the scan that moves on in the text.
LEMMA MoveStep ==
  ASSUME SInv, pc \in {"top", "line", "block"}, pc' \in {"top", "line", "block"},
         text' = text, result' = result, offset' \in Nat,
         offset' + 1 \in Begins(text) \union {Len(text) + 1},
         depth' \in 0..MaxDepth, pc' = "block" => depth' > 0
  PROVE  SInv'
<1>1. OnBoundary'
  BY Settled DEF SInv, TypeOK
<1>2. Utf8(text)'
  BY DEF SInv, Utf8, Begins, Width
<1> QED BY <1>1, <1>2 DEF SInv, TypeOK

LEMMA ScanStep == ASSUME SInv, Scan PROVE SInv'
<1>1. /\ pc = "top" /\ text' = text /\ text \in Seq(Bytes) /\ offset \in Nat
      /\ depth \in 0..MaxDepth /\ MaxDepth \in Nat \ {0} /\ offset <= Len(text)
  BY MaxDepthAssumption DEF Scan, SInv, TypeOK, OnBoundary
<1>2. CASE pc' = "done"
  BY <1>1, <1>2, FinishStep DEF Scan
<1>3. CASE pc' # "done"
  <2>1. offset < Len(text) /\ result' = result
    BY <1>1, <1>3 DEF Scan, Finish
  <2>2. pc' \in {"top", "line", "block"}
    BY <1>1, <1>3 DEF Scan, Finish
  <2>3. depth' \in 0..MaxDepth /\ (pc' = "block" => depth' > 0)
    BY <1>1, <1>3 DEF Scan, Finish
  <2>4. offset' \in Nat /\ offset' + 1 \in Begins(text) \union {Len(text) + 1}
    <3>1. \/ offset' = NextCharacter
          \/ /\ offset' = offset + 2
             /\ StartsWith(<<"-", "-">>) \/ StartsWith(<<"/", "*">>)
      BY <1>1, <1>3 DEF Scan, Finish
    <3>2. offset + 2 + 1 = offset + 3
      BY <1>1
    <3> QED BY <1>1, <2>1, <3>1, <3>2, Advances
  <2> QED BY <1>1, <2>1, <2>2, <2>3, <2>4, MoveStep
<1> QED BY <1>2, <1>3

LEMMA LineStep == ASSUME SInv, LineComment PROVE SInv'
<1>1. /\ pc = "line" /\ text' = text /\ text \in Seq(Bytes) /\ offset \in Nat
      /\ depth \in 0..MaxDepth /\ offset <= Len(text) /\ UNCHANGED <<text, depth, result>>
      /\ pc' \in {"top", "line"}
  BY DEF LineComment, SInv, TypeOK, OnBoundary
<1>2. offset' \in Nat /\ offset' + 1 \in Begins(text) \union {Len(text) + 1}
  <2>1. CASE offset = Len(text)
    BY <1>1, <2>1 DEF LineComment
  <2>2. CASE offset < Len(text)
    BY <1>1, <2>2, Advances DEF LineComment
  <2> QED BY <1>1, <2>1, <2>2
<1> QED BY <1>1, <1>2, MoveStep

LEMMA BlockStep == ASSUME SInv, BlockComment PROVE SInv'
<1>1. /\ pc = "block" /\ text' = text /\ text \in Seq(Bytes) /\ offset \in Nat
      /\ depth \in 1..MaxDepth /\ MaxDepth \in Nat \ {0} /\ offset <= Len(text)
  BY MaxDepthAssumption DEF BlockComment, SInv, TypeOK, OnBoundary
<1>2. CASE pc' = "done"
  <2>1. Finish("sql")
    BY <1>1, <1>2 DEF BlockComment, Open, Close
  <2> QED BY <1>1, <2>1, FinishStep
<1>3. CASE pc' # "done"
  <2>1. offset < Len(text) /\ result' = result
    BY <1>1, <1>3 DEF BlockComment, Open, Close, Finish
  <2>2. pc' \in {"top", "line", "block"}
    BY <1>1, <1>3 DEF BlockComment, Open, Close, Finish
  <2>3. depth' \in 0..MaxDepth /\ (pc' = "block" => depth' > 0)
    BY <1>1, <1>3 DEF BlockComment, Open, Close, Finish
  <2>4. offset' \in Nat /\ offset' + 1 \in Begins(text) \union {Len(text) + 1}
    <3>1. \/ offset' = NextCharacter
          \/ /\ offset' = offset + 2
             /\ StartsWith(<<"*", "/">>) \/ StartsWith(<<"/", "*">>)
      BY <1>1, <1>3 DEF BlockComment, Open, Close, Finish
    <3>2. offset + 2 + 1 = offset + 3
      BY <1>1
    <3> QED BY <1>1, <2>1, <3>1, <3>2, Advances
  <2> QED BY <1>1, <2>1, <2>2, <2>3, <2>4, MoveStep
<1> QED BY <1>2, <1>3

LEMMA SInvInductive == SInv /\ [Next]_vars => SInv'
<1> SUFFICES ASSUME SInv, [Next]_vars PROVE SInv'
  OBVIOUS
<1>1. CASE UNCHANGED vars
  BY <1>1 DEF vars, SInv, TypeOK, OnBoundary, Utf8, Begins, Width
<1> QED BY <1>1, ReadStep, ScanStep, LineStep, BlockStep DEF Next

-----------------------------------------------------------------------------
\* The invariant holds for every input.
THEOREM ScannerInvariant == Spec => []SInv
BY InitSInv, SInvInductive, PTL DEF Spec

\* Type correctness: the depth neither wraps nor exceeds its type.
THEOREM ScannerTyped == Spec => []TypeOK
<1>1. SInv => TypeOK
  BY DEF SInv
<1> QED BY <1>1, ScannerInvariant, PTL

\* No slice of the text begins inside a character (input.rs 40, 45, 83, 97).
THEOREM SlicesOnBoundaries == Spec => []OnBoundary
<1>1. SInv => OnBoundary
  BY DEF SInv
<1> QED BY <1>1, ScannerInvariant, PTL

-----------------------------------------------------------------------------
\* A set of naturals that is not empty has a least member.
LEMMA Least ==
  ASSUME NEW T \in SUBSET Nat, T # {}
  PROVE  \E m \in T : \A n \in T : m <= n
<1> DEFINE R == OpToRel(<, Nat)
<1>1. \A m, n \in Nat : <<n, m>> \in R <=> n < m
  BY DEF OpToRel
<1>2. IsWellFoundedOn(R, Nat)
  BY NatLessThanWellFounded
<1> HIDE DEF R
<1>3. PICK m \in T : \A n \in T : <<n, m>> \notin R
  BY <1>2, WFMin
<1>4. \A n \in T : ~(n < m)
  BY <1>1, <1>3
<1> QED BY <1>4

\* Induction, for a set that is closed under successors up to N.
LEMMA Climb ==
  ASSUME NEW N \in Nat, NEW S, 0 \in S, \A m \in 0..(N - 1) : m \in S => m + 1 \in S
  PROVE  N \in S
<1> DEFINE T == {m \in 0..N : m \notin S}
<1> SUFFICES ASSUME N \notin S PROVE FALSE
  OBVIOUS
<1>1. T \in SUBSET Nat /\ N \in T
  OBVIOUS
<1>2. PICK m \in T : \A n \in T : m <= n
  BY <1>1, Least
<1>3. m - 1 \in 0..(N - 1) /\ (m - 1) + 1 = m /\ m - 1 \notin T
  BY <1>2
<1> QED BY <1>3

InsideDomain(s, limit) == (0..Len(s)) \X (0..limit)
InsideRanges(s, limit) == [InsideDomain(s, limit) -> SUBSET Nat]

\* ends is right about the places from which less than m bytes are left.
InsideTo(s, limit, ends, m) ==
  /\ ends \in InsideRanges(s, limit)
  /\ \A i \in 0..Len(s), d \in 0..limit :
       Len(s) - i < m => /\ ends[<<i, d>>] = InsideEnds(s, limit, ends, i, d)
                         /\ ends[<<i, d>>] \subseteq i..Len(s)

\* e and f are the same, and in their bounds, at what is after i.
AgreeAfter(s, limit, e, f, i) ==
  \A j \in (i + 1)..Len(s), c \in 0..limit :
    e[<<j, c>>] = f[<<j, c>>] /\ e[<<j, c>>] \subseteq j..Len(s)

\* The rule reads what is further in the text.
LEMMA InsideReads ==
  ASSUME NEW s \in Seq(Bytes), NEW limit \in Nat, NEW e, NEW f,
         NEW i \in 0..Len(s), NEW d \in 0..limit, AgreeAfter(s, limit, e, f, i)
  PROVE  /\ InsideEnds(s, limit, e, i, d) = InsideEnds(s, limit, f, i, d)
         /\ InsideEnds(s, limit, e, i, d) \subseteq i..Len(s)
<1> DEFINE n == Len(s)
<1>1. n \in Nat
  OBVIOUS
<1> USE DEF AgreeAfter
<1>2. i < n => i + 1 \in (i + 1)..n
  BY <1>1
<1>3. Opens(s, i) => i + 2 \in (i + 1)..n
  BY <1>1 DEF Opens, At
<1>4. d < limit => d + 1 \in 0..limit
  OBVIOUS
<1>5. ASSUME Opens(s, i), d < limit
      PROVE  /\ e[<<i + 2, d + 1>>] = f[<<i + 2, d + 1>>]
             /\ \A k \in e[<<i + 2, d + 1>>] :
                  Closes(s, k) => k + 2 \in (i + 1)..n /\ i <= k + 2
  <2>1. e[<<i + 2, d + 1>>] = f[<<i + 2, d + 1>>] /\ e[<<i + 2, d + 1>>] \subseteq (i + 2)..n
    BY <1>3, <1>4, <1>5
  <2>2. \A k \in (i + 2)..n : Closes(s, k) => k + 2 \in (i + 1)..n /\ i <= k + 2
    BY <1>1 DEF Closes, At
  <2> QED BY <2>1, <2>2
<1> DEFINE Deeper(g) == {k \in g[<<i + 2, d + 1>>] : Closes(s, k)}
           Nested(g) == UNION {g[<<k + 2, d>>] : k \in Deeper(g)}
<1>6. ASSUME Opens(s, i), d < limit
      PROVE  Nested(e) = Nested(f) /\ Nested(e) \subseteq i..n
  <2>1. Deeper(e) = Deeper(f)
    BY <1>5, <1>6
  <2>2. ASSUME NEW k \in Deeper(e)
        PROVE  e[<<k + 2, d>>] = f[<<k + 2, d>>] /\ e[<<k + 2, d>>] \subseteq i..n
    <3>1. k + 2 \in (i + 1)..n /\ i <= k + 2
      BY <1>5, <1>6, <2>2
    <3>2. e[<<k + 2, d>>] = f[<<k + 2, d>>] /\ e[<<k + 2, d>>] \subseteq (k + 2)..n
      BY <3>1
    <3> QED BY <3>1, <3>2
  <2> HIDE DEF Deeper
  <2> QED BY <2>1, <2>2
<1>7. i < n => e[<<i + 1, d>>] = f[<<i + 1, d>>] /\ e[<<i + 1, d>>] \subseteq i..n
  <2>1. i < n => e[<<i + 1, d>>] = f[<<i + 1, d>>] /\ e[<<i + 1, d>>] \subseteq (i + 1)..n
    BY <1>2
  <2> QED BY <2>1
<1> DEFINE Skipping(g) == IF i < n /\ ~Opens(s, i) /\ ~Closes(s, i) THEN g[<<i + 1, d>>] ELSE {}
           Nesting(g) == IF Opens(s, i) /\ d < limit THEN Nested(g) ELSE {}
<1>8. /\ InsideEnds(s, limit, e, i, d) = {i} \union Skipping(e) \union Nesting(e)
      /\ InsideEnds(s, limit, f, i, d) = {i} \union Skipping(f) \union Nesting(f)
  BY Zenon DEF InsideEnds
<1>9. Skipping(e) = Skipping(f) /\ Skipping(e) \subseteq i..n
  BY <1>7
<1> HIDE DEF Nested
<1>10. Nesting(e) = Nesting(f) /\ Nesting(e) \subseteq i..n
  BY <1>6
<1> HIDE DEF Skipping, Nesting
<1>11. {i} \subseteq i..n
  BY <1>1
<1> QED BY <1>8, <1>9, <1>10, <1>11

\* So the rule defines a function, the one Insides names.
LEMMA InsideDefined ==
  ASSUME NEW s \in Seq(Bytes), NEW limit \in Nat, NEW i \in 0..Len(s), NEW d \in 0..limit
  PROVE  LET ends == Insides(s, limit)
         IN ends[<<i, d>>] = InsideEnds(s, limit, ends, i, d) /\ ends[<<i, d>>] \subseteq i..Len(s)
<1> DEFINE n == Len(s)
           D == InsideDomain(s, limit)
           Right == {m \in Nat : \E e \in InsideRanges(s, limit) : InsideTo(s, limit, e, m)}
<1>1. n \in Nat
  OBVIOUS
<1>2. 0 \in Right
  <2>1. [p \in D |-> {}] \in InsideRanges(s, limit)
    BY DEF InsideRanges
  <2>2. InsideTo(s, limit, [p \in D |-> {}], 0)
    BY <1>1, <2>1 DEF InsideTo
  <2> QED BY <2>1, <2>2
<1>3. ASSUME NEW m \in 0..n, m \in Right PROVE m + 1 \in Right
  <2>1. PICK e \in InsideRanges(s, limit) : InsideTo(s, limit, e, m)
    BY <1>3
  <2> DEFINE f == [p \in D |-> IF n - p[1] < m THEN e[p]
                               ELSE IF n - p[1] = m THEN InsideEnds(s, limit, e, p[1], p[2])
                               ELSE {}]
  <2>2. \A j \in 0..n, c \in 0..limit :
          /\ n - j < m => f[<<j, c>>] = e[<<j, c>>]
          /\ n - j = m => f[<<j, c>>] = InsideEnds(s, limit, e, j, c)
          /\ n - j > m => f[<<j, c>>] = {}
    BY <1>1 DEF InsideDomain
  <2>3. \A j \in 0..n, c \in 0..limit :
          n - j < m => e[<<j, c>>] = InsideEnds(s, limit, e, j, c) /\ e[<<j, c>>] \subseteq j..n
    BY <2>1 DEF InsideTo
  <2> HIDE DEF f
  <2>4. ASSUME NEW j \in 0..n, NEW c \in 0..limit, n - j <= m
        PROVE  /\ f[<<j, c>>] = InsideEnds(s, limit, f, j, c)
               /\ f[<<j, c>>] \subseteq j..n
    <3>1. AgreeAfter(s, limit, e, f, j)
      <4>1. \A k \in (j + 1)..n : k \in 0..n /\ n - k < m
        BY <1>1, <2>4
      <4> QED BY <2>2, <2>3, <4>1 DEF AgreeAfter
    <3>3. /\ InsideEnds(s, limit, e, j, c) = InsideEnds(s, limit, f, j, c)
          /\ InsideEnds(s, limit, e, j, c) \subseteq j..Len(s)
      BY <3>1, InsideReads
    <3>4. f[<<j, c>>] = InsideEnds(s, limit, e, j, c)
      BY <1>1, <2>2, <2>3, <2>4
    <3> QED BY <3>3, <3>4
  <2>5. f \in InsideRanges(s, limit)
    <3>1. ASSUME NEW p \in D PROVE f[p] \in SUBSET Nat
      <4>1. PICK j \in 0..n, c \in 0..limit : p = <<j, c>>
        BY DEF InsideDomain
      <4>2. CASE n - j <= m
        BY <1>1, <2>4, <4>1, <4>2
      <4>3. CASE ~(n - j <= m)
        BY <1>1, <2>2, <4>1, <4>3
      <4> QED BY <4>2, <4>3
    <3> QED BY <3>1 DEF InsideRanges, f
  <2>6. InsideTo(s, limit, f, m + 1)
    BY <1>1, <2>4, <2>5 DEF InsideTo
  <2> QED BY <2>5, <2>6
<1>4. n + 1 \in Right
  <2> HIDE DEF Right
  <2> QED BY <1>1, <1>2, <1>3, Climb
<1>5. PICK e \in InsideRanges(s, limit) : InsideTo(s, limit, e, n + 1)
  BY <1>4
<1>6. \A j \in 0..n, c \in 0..limit :
        e[<<j, c>>] = InsideEnds(s, limit, e, j, c) /\ e[<<j, c>>] \subseteq j..n
  <2>1. \A j \in 0..n : n - j < n + 1
    BY <1>1
  <2> QED BY <1>5, <2>1 DEF InsideTo
<1>7. e = [p \in D |-> InsideEnds(s, limit, e, p[1], p[2])]
  <2>1. e = [p \in D |-> e[p]]
    BY DEF InsideRanges
  <2>2. \A p \in D : e[p] = InsideEnds(s, limit, e, p[1], p[2])
    BY <1>6 DEF InsideDomain
  <2> QED BY <2>1, <2>2
<1> DEFINE g == Insides(s, limit)
<1>8. g = [p \in D |-> InsideEnds(s, limit, g, p[1], p[2])]
  <2>1. g = CHOOSE h : h = [p \in D |-> InsideEnds(s, limit, h, p[1], p[2])]
    BY DEF Insides, InsideDomain
  <2> HIDE DEF g
  <2> QED BY <1>7, <2>1
<1>9. \A j \in 0..n, c \in 0..limit : g[<<j, c>>] = InsideEnds(s, limit, g, j, c)
  <2> HIDE DEF g
  <2> QED BY <1>8 DEF InsideDomain
<1> HIDE DEF g
<1> DEFINE Bounded == {m \in Nat : \A j \in 0..n, c \in 0..limit :
                                    n - j < m => g[<<j, c>>] \subseteq j..n}
<1>10. 0 \in Bounded
  BY <1>1
<1>11. ASSUME NEW m \in 0..n, m \in Bounded PROVE m + 1 \in Bounded
  <2> SUFFICES ASSUME NEW j \in 0..n, NEW c \in 0..limit, n - j < m + 1
               PROVE  g[<<j, c>>] \subseteq j..n
    BY <1>1
  <2>1. AgreeAfter(s, limit, g, g, j)
    <3>1. \A k \in (j + 1)..n : k \in 0..n /\ n - k < m
      BY <1>1
    <3> QED BY <1>11, <3>1 DEF AgreeAfter
  <2>2. InsideEnds(s, limit, g, j, c) \subseteq j..Len(s)
    BY <2>1, InsideReads
  <2> QED BY <1>9, <2>2
<1>12. n + 1 \in Bounded
  <2> HIDE DEF Bounded
  <2> QED BY <1>1, <1>10, <1>11, Climb
<1>13. n - i < n + 1 /\ i \in 0..n
  BY <1>1
<1>14. g[<<i, d>>] \subseteq i..n
  BY <1>12, <1>13
<1> QED BY <1>9, <1>14 DEF g

-----------------------------------------------------------------------------
BlankRanges(s) == [0..Len(s) -> SUBSET Nat]

BlankTo(s, limit, ends, m) ==
  /\ ends \in BlankRanges(s)
  /\ \A i \in 0..Len(s) :
       Len(s) - i < m => /\ ends[i] = BlankEnds(s, limit, ends, i)
                         /\ ends[i] \subseteq i..Len(s)

SameAfter(s, e, f, i) ==
  \A j \in (i + 1)..Len(s) : e[j] = f[j] /\ e[j] \subseteq j..Len(s)

\* A comment has at least its two marks.
LEMMA CommentsEndLater ==
  ASSUME NEW s \in Seq(Bytes), NEW limit \in Nat \ {0}, NEW i \in 0..Len(s)
  PROVE  CommentEnds(s, limit, i) \subseteq (i + 2)..Len(s)
<1> DEFINE n == Len(s)
           ends == Insides(s, limit)
<1>1. n \in Nat
  OBVIOUS
<1>2. Opens(s, i) => ends[<<i + 2, 1>>] \subseteq (i + 2)..n
  <2>1. Opens(s, i) => i + 2 \in 0..n
    BY <1>1 DEF Opens, At
  <2> QED BY <2>1, InsideDefined
<1> HIDE DEF ends
<1>3. \A k \in (i + 2)..n : Closes(s, k) => k + 2 \in (i + 2)..n
  BY <1>1 DEF Closes, At
<1> QED BY <1>2, <1>3 DEF CommentEnds, ends

\* As for comments, the rule for blank texts reads what is further in the text.
LEMMA BlankReads ==
  ASSUME NEW s \in Seq(Bytes), NEW limit \in Nat \ {0}, NEW e, NEW f,
         NEW i \in 0..Len(s), SameAfter(s, e, f, i)
  PROVE  /\ BlankEnds(s, limit, e, i) = BlankEnds(s, limit, f, i)
         /\ BlankEnds(s, limit, e, i) \subseteq i..Len(s)
<1> DEFINE n == Len(s)
           Skipping(g) == IF i < n /\ s[i + 1] \in Blanks \union {"cont"} THEN g[i + 1] ELSE {}
           After(g) == UNION {g[k] : k \in CommentEnds(s, limit, i)}
<1>1. n \in Nat
  OBVIOUS
<1>2. Skipping(e) = Skipping(f) /\ Skipping(e) \subseteq i..n
  <2>1. i < n => i + 1 \in (i + 1)..n
    BY <1>1
  <2>2. i < n => e[i + 1] = f[i + 1] /\ e[i + 1] \subseteq (i + 1)..n
    BY <2>1 DEF SameAfter
  <2> QED BY <2>2
<1>3. After(e) = After(f) /\ After(e) \subseteq i..n
  <2>1. \A k \in CommentEnds(s, limit, i) : k \in (i + 1)..n /\ i <= k
    BY <1>1, CommentsEndLater
  <2>2. \A k \in CommentEnds(s, limit, i) : e[k] = f[k] /\ e[k] \subseteq k..n
    BY <2>1 DEF SameAfter
  <2>3. \A k \in CommentEnds(s, limit, i) : e[k] \subseteq i..n
    BY <2>1, <2>2
  <2> QED BY <2>2, <2>3
<1>4. /\ BlankEnds(s, limit, e, i) = {i} \union Skipping(e) \union After(e)
      /\ BlankEnds(s, limit, f, i) = {i} \union Skipping(f) \union After(f)
  BY Zenon DEF BlankEnds
<1> HIDE DEF Skipping, After
<1>5. {i} \subseteq i..n
  BY <1>1
<1> QED BY <1>2, <1>3, <1>4, <1>5

\* The rule for blank texts defines a function as well.
LEMMA BlankDefined ==
  ASSUME NEW s \in Seq(Bytes), NEW limit \in Nat \ {0}, NEW i \in 0..Len(s)
  PROVE  LET ends == BlankRuns(s, limit)
         IN ends[i] = BlankEnds(s, limit, ends, i) /\ ends[i] \subseteq i..Len(s)
<1> DEFINE n == Len(s)
           Right == {m \in Nat : \E e \in BlankRanges(s) : BlankTo(s, limit, e, m)}
<1>1. n \in Nat
  OBVIOUS
<1>2. 0 \in Right
  <2>1. [p \in 0..n |-> {}] \in BlankRanges(s)
    BY DEF BlankRanges
  <2>2. BlankTo(s, limit, [p \in 0..n |-> {}], 0)
    BY <1>1, <2>1 DEF BlankTo
  <2> QED BY <2>1, <2>2
<1>3. ASSUME NEW m \in 0..n, m \in Right PROVE m + 1 \in Right
  <2>1. PICK e \in BlankRanges(s) : BlankTo(s, limit, e, m)
    BY <1>3
  <2> DEFINE f == [j \in 0..n |-> IF n - j < m THEN e[j]
                                  ELSE IF n - j = m THEN BlankEnds(s, limit, e, j) ELSE {}]
  <2>2. \A j \in 0..n : /\ n - j < m => f[j] = e[j]
                        /\ n - j = m => f[j] = BlankEnds(s, limit, e, j)
                        /\ n - j > m => f[j] = {}
    BY <1>1
  <2>3. \A j \in 0..n : n - j < m => /\ e[j] = BlankEnds(s, limit, e, j)
                                     /\ e[j] \subseteq j..n
    BY <2>1 DEF BlankTo
  <2> HIDE DEF f
  <2>4. ASSUME NEW j \in 0..n, n - j <= m
        PROVE  f[j] = BlankEnds(s, limit, f, j) /\ f[j] \subseteq j..n
    <3>1. SameAfter(s, e, f, j)
      <4>1. \A k \in (j + 1)..n : k \in 0..n /\ n - k < m
        BY <1>1, <2>4
      <4> QED BY <2>2, <2>3, <4>1 DEF SameAfter
    <3>2. /\ BlankEnds(s, limit, e, j) = BlankEnds(s, limit, f, j)
          /\ BlankEnds(s, limit, e, j) \subseteq j..Len(s)
      BY <3>1, BlankReads
    <3>3. f[j] = BlankEnds(s, limit, e, j)
      BY <1>1, <2>2, <2>3, <2>4
    <3> QED BY <3>2, <3>3
  <2>5. f \in BlankRanges(s)
    <3>1. ASSUME NEW j \in 0..n PROVE f[j] \in SUBSET Nat
      BY <1>1, <2>2, <2>4
    <3> QED BY <3>1 DEF BlankRanges, f
  <2>6. BlankTo(s, limit, f, m + 1)
    BY <1>1, <2>4, <2>5 DEF BlankTo
  <2> QED BY <2>5, <2>6
<1>4. n + 1 \in Right
  <2> HIDE DEF Right
  <2> QED BY <1>1, <1>2, <1>3, Climb
<1>5. PICK e \in BlankRanges(s) : BlankTo(s, limit, e, n + 1)
  BY <1>4
<1>6. \A j \in 0..n : e[j] = BlankEnds(s, limit, e, j) /\ e[j] \subseteq j..n
  <2>1. \A j \in 0..n : n - j < n + 1
    BY <1>1
  <2> QED BY <1>5, <2>1 DEF BlankTo
<1>7. e = [j \in 0..n |-> BlankEnds(s, limit, e, j)]
  <2>1. e = [j \in 0..n |-> e[j]]
    BY DEF BlankRanges
  <2> QED BY <1>6, <2>1
<1> DEFINE g == BlankRuns(s, limit)
<1>8. g = [j \in 0..n |-> BlankEnds(s, limit, g, j)]
  <2>1. g = CHOOSE h : h = [j \in 0..n |-> BlankEnds(s, limit, h, j)]
    BY DEF BlankRuns
  <2> HIDE DEF g
  <2> QED BY <1>7, <2>1
<1>9. \A j \in 0..n : g[j] = BlankEnds(s, limit, g, j)
  <2> HIDE DEF g
  <2> QED BY <1>8
<1> HIDE DEF g
<1> DEFINE Bounded == {m \in Nat : \A j \in 0..n : n - j < m => g[j] \subseteq j..n}
<1>10. 0 \in Bounded
  BY <1>1
<1>11. ASSUME NEW m \in 0..n, m \in Bounded PROVE m + 1 \in Bounded
  <2> SUFFICES ASSUME NEW j \in 0..n, n - j < m + 1 PROVE g[j] \subseteq j..n
    BY <1>1
  <2>1. SameAfter(s, g, g, j)
    <3>1. \A k \in (j + 1)..n : k \in 0..n /\ n - k < m
      BY <1>1
    <3> QED BY <1>11, <3>1 DEF SameAfter
  <2>2. BlankEnds(s, limit, g, j) \subseteq j..Len(s)
    BY <2>1, BlankReads
  <2> QED BY <1>9, <2>2
<1>12. n + 1 \in Bounded
  <2> HIDE DEF Bounded
  <2> QED BY <1>1, <1>10, <1>11, Climb
<1>13. n - i < n + 1 /\ i \in 0..n
  BY <1>1
<1>14. g[i] \subseteq i..n
  BY <1>12, <1>13
<1> QED BY <1>9, <1>14 DEF g

-----------------------------------------------------------------------------
\* The rest after i is blank.
BlankFrom(s, limit, i) == Len(s) \in BlankRuns(s, limit)[i]

\* The rest after i is what is left of a line comment, and blank after it.
BlankAfterLine(s, limit, i) ==
  \E k \in i..Len(s) :
    /\ \A m \in (i + 1)..(k - 1) : s[m] # "newline"
    /\ k = Len(s) \/ (k > i /\ s[k] = "newline")
    /\ BlankFrom(s, limit, k)

\* Where d comments are open and are all closed, with blanks after them: the end
\* of the innermost is followed by what is left of the others.
ClosingRule(s, limit, closing, d) ==
  IF d = 0 THEN {i \in 0..Len(s) : BlankFrom(s, limit, i)}
  ELSE {i \in 0..Len(s) : \E k \in Insides(s, limit)[<<i, d>>] :
                           Closes(s, k) /\ k + 2 \in closing[d - 1]}
Closing(s, limit) ==
  LET closing[d \in 0..limit] == ClosingRule(s, limit, closing, d) IN closing

\* The rule for d comments reads the one for d - 1.
LEMMA ClosingDefined ==
  ASSUME NEW s \in Seq(Bytes), NEW limit \in Nat, NEW d \in 0..limit
  PROVE  Closing(s, limit)[d] = ClosingRule(s, limit, Closing(s, limit), d)
<1> DEFINE Ranges == [0..limit -> SUBSET (0..Len(s))]
           To(c, m) == \A b \in 0..limit : b < m => c[b] = ClosingRule(s, limit, c, b)
           Right == {m \in Nat : \E c \in Ranges : To(c, m)}
<1>1. ASSUME NEW c, NEW f, NEW b \in 0..limit, b > 0 => c[b - 1] = f[b - 1]
      PROVE  /\ ClosingRule(s, limit, c, b) = ClosingRule(s, limit, f, b)
             /\ ClosingRule(s, limit, c, b) \subseteq 0..Len(s)
  <2>1. CASE b = 0
    BY <2>1 DEF ClosingRule
  <2>2. CASE b # 0
    <3>1. c[b - 1] = f[b - 1]
      BY <1>1, <2>2
    <3> QED BY <2>2, <3>1, Zenon DEF ClosingRule
  <2> QED BY <2>1, <2>2
<1>2. 0 \in Right
  <2> DEFINE z == [b \in 0..limit |-> {}]
  <2>1. z \in Ranges
    OBVIOUS
  <2>2. To(z, 0)
    OBVIOUS
  <2> HIDE DEF z, To
  <2> QED BY <2>1, <2>2
<1>3. ASSUME NEW m \in 0..limit, m \in Right PROVE m + 1 \in Right
  <2>1. PICK c \in Ranges : To(c, m)
    BY <1>3
  <2> DEFINE f == [b \in 0..limit |-> IF b = m THEN ClosingRule(s, limit, c, m) ELSE c[b]]
  <2>2. \A b \in 0..limit : f[b] = IF b = m THEN ClosingRule(s, limit, c, m) ELSE c[b]
    OBVIOUS
  <2>3. f \in Ranges
    <3>1. ClosingRule(s, limit, c, m) \subseteq 0..Len(s)
      BY <1>1
    <3> QED BY <3>1
  <2> HIDE DEF f
  <2>4. ASSUME NEW b \in 0..limit, b < m + 1 PROVE f[b] = ClosingRule(s, limit, f, b)
    <3>1. b > 0 => c[b - 1] = f[b - 1]
      <4>1. b > 0 => b - 1 \in 0..limit /\ b - 1 # m
        BY <2>4
      <4> QED BY <2>2, <4>1
    <3>2. ClosingRule(s, limit, c, b) = ClosingRule(s, limit, f, b)
      BY <1>1, <3>1
    <3>3. f[b] = ClosingRule(s, limit, c, b)
      BY <2>1, <2>2, <2>4
    <3> QED BY <3>2, <3>3
  <2> QED BY <2>3, <2>4
<1>4. limit + 1 \in Right
  <2> HIDE DEF Right
  <2> QED BY <1>2, <1>3, Climb
<1>5. PICK c \in Ranges : To(c, limit + 1)
  BY <1>4
<1>6. c = [b \in 0..limit |-> ClosingRule(s, limit, c, b)]
  BY <1>5
<1> DEFINE g == Closing(s, limit)
<1>7. g = [b \in 0..limit |-> ClosingRule(s, limit, g, b)]
  <2>1. g = CHOOSE h : h = [b \in 0..limit |-> ClosingRule(s, limit, h, b)]
    BY DEF Closing
  <2> HIDE DEF g
  <2> QED BY <1>6, <2>1
<1> HIDE DEF g
<1>8. g[d] = ClosingRule(s, limit, g, d)
  BY <1>7
<1> QED BY <1>8 DEF g

-----------------------------------------------------------------------------
\* What d open comments need, by what comes first (input.rs 80-100).
LEMMA InsideStep ==
  ASSUME NEW s \in Seq(Bytes), NEW limit \in Nat \ {0},
         NEW i \in 0..Len(s), NEW d \in 1..limit
  PROVE  LET C == Closing(s, limit)
         IN /\ i = Len(s) => i \notin C[d]
            /\ i < Len(s) /\ ~Opens(s, i) /\ ~Closes(s, i) => (i \in C[d] <=> i + 1 \in C[d])
            /\ Opens(s, i) => (i \in C[d] <=> d < limit /\ i + 2 \in C[d + 1])
            /\ Closes(s, i) => (i \in C[d] <=> i + 2 \in C[d - 1])
<1> DEFINE n == Len(s)
           C == Closing(s, limit)
           E == Insides(s, limit)
<1>1. n \in Nat
  OBVIOUS
<1>2. \A j \in 0..n, c \in 1..limit :
        j \in C[c] <=> \E k \in E[<<j, c>>] : Closes(s, k) /\ k + 2 \in C[c - 1]
  <2> SUFFICES ASSUME NEW j \in 0..n, NEW c \in 1..limit
               PROVE  j \in C[c] <=> \E k \in E[<<j, c>>] : Closes(s, k) /\ k + 2 \in C[c - 1]
    OBVIOUS
  <2>1. C[c] = ClosingRule(s, limit, C, c)
    BY ClosingDefined
  <2>2. c # 0
    OBVIOUS
  <2> HIDE DEF C, E
  <2>3. C[c] = {b \in 0..n : \E k \in E[<<b, c>>] : Closes(s, k) /\ k + 2 \in C[c - 1]}
    BY <2>1, <2>2, Zenon DEF ClosingRule, E
  <2> QED BY <2>3
<1>3. E[<<i, d>>] = InsideEnds(s, limit, E, i, d)
  BY InsideDefined
<1>4. ~(Opens(s, i) /\ Closes(s, i))
  BY DEF Opens, Closes, At
<1>5. /\ Opens(s, i) => i + 2 \in 0..n
      /\ \A k \in Nat : Closes(s, k) => k + 2 \in 0..n /\ k < n
  BY <1>1 DEF Opens, Closes, At
<1> HIDE DEF C, E
<1>6. i = n => i \notin C[d]
  <2>1. ASSUME i = n PROVE E[<<i, d>>] = {i}
    <3>1. ~(i < n) /\ ~Opens(s, i)
      BY <1>1, <2>1 DEF Opens, At
    <3> QED BY <1>3, <3>1 DEF InsideEnds
  <2> QED BY <1>1, <1>2, <1>5, <2>1
<1>7. ASSUME i < n, ~Opens(s, i), ~Closes(s, i) PROVE i \in C[d] <=> i + 1 \in C[d]
  <2>1. E[<<i, d>>] = {i} \union E[<<i + 1, d>>]
    BY <1>3, <1>7 DEF InsideEnds
  <2>2. i + 1 \in 0..n
    BY <1>1, <1>7
  <2> QED BY <1>2, <1>7, <2>1, <2>2
<1>8. ASSUME Opens(s, i) PROVE i \in C[d] <=> d < limit /\ i + 2 \in C[d + 1]
  <2>1. ~Closes(s, i)
    BY <1>4, <1>8
  <2>2. CASE d < limit
    <3> DEFINE M == {m \in E[<<i + 2, d + 1>>] : Closes(s, m)}
    <3>1. E[<<i, d>>] = {i} \union UNION {E[<<k + 2, d>>] : k \in M}
      BY <1>3, <1>8, <2>1, <2>2 DEF InsideEnds
    <3>2. i + 2 \in 0..n /\ d + 1 \in 1..limit /\ (d + 1) - 1 = d
      BY <1>5, <1>8, <2>2
    <3>3. E[<<i + 2, d + 1>>] \subseteq Nat
      <4>1. E[<<i + 2, d + 1>>] \subseteq (i + 2)..n
        BY <3>2, InsideDefined DEF E
      <4> QED BY <4>1
    <3>4. i + 2 \in C[d + 1] <=> \E m \in M : m + 2 \in C[d]
      BY <1>2, <3>2
    <3>5. \A m \in M : m + 2 \in 0..n
      BY <1>5, <3>3
    <3>6. \A m \in M : m + 2 \in C[d] <=> \E k \in E[<<m + 2, d>>] : Closes(s, k) /\ k + 2 \in C[d - 1]
      BY <1>2, <3>5
    <3>7. i \in C[d] <=> \E k \in E[<<i, d>>] : Closes(s, k) /\ k + 2 \in C[d - 1]
      BY <1>2
    <3> HIDE DEF M
    <3>8. i \in C[d] <=> \E m \in M : \E k \in E[<<m + 2, d>>] : Closes(s, k) /\ k + 2 \in C[d - 1]
      BY <2>1, <3>1, <3>7
    <3> QED BY <2>2, <3>4, <3>6, <3>8
  <2>3. CASE ~(d < limit)
    <3>1. E[<<i, d>>] = {i}
      BY <1>3, <1>8, <2>3 DEF InsideEnds
    <3> QED BY <1>2, <2>1, <2>3, <3>1
  <2> QED BY <2>2, <2>3
<1>9. ASSUME Closes(s, i) PROVE i \in C[d] <=> i + 2 \in C[d - 1]
  <2>1. E[<<i, d>>] = {i}
    BY <1>3, <1>4, <1>9 DEF InsideEnds
  <2> QED BY <1>2, <1>9, <2>1
<1> QED BY <1>6, <1>7, <1>8, <1>9 DEF C

\* A pair of bytes.
LEMMA AtReads ==
  ASSUME NEW s \in Seq(Bytes), NEW i \in 0..Len(s), NEW a, NEW b, At(s, i, <<a, b>>)
  PROVE  i + 2 <= Len(s) /\ s[i + 1] = a /\ s[i + 2] = b
<1>1. i + 2 <= Len(s) /\ SubSeq(s, i + 1, i + 2) = <<a, b>>
  BY DEF At
<1>2. i \in Nat /\ Len(s) \in Nat
  OBVIOUS
<1>3. SubSeq(s, i + 1, i + 2)[1] = s[i + 1] /\ SubSeq(s, i + 1, i + 2)[2] = s[i + 2]
  BY <1>1, <1>2
<1>4. <<a, b>>[1] = a /\ <<a, b>>[2] = b
  OBVIOUS
<1> QED BY <1>1, <1>3, <1>4

\* A blank text by what it begins with (input.rs 39-72).
LEMMA BlankStep ==
  ASSUME NEW s \in Seq(Bytes), NEW limit \in Nat \ {0}, NEW i \in 0..Len(s)
  PROVE  /\ i = Len(s) => BlankFrom(s, limit, i)
         /\ At(s, i, <<"-", "-">>) =>
              (BlankFrom(s, limit, i) <=> BlankAfterLine(s, limit, i + 2))
         /\ Opens(s, i) => (BlankFrom(s, limit, i) <=> i + 2 \in Closing(s, limit)[1])
         /\ i < Len(s) /\ ~At(s, i, <<"-", "-">>) /\ ~Opens(s, i) =>
              (BlankFrom(s, limit, i) <=>
                 s[i + 1] \in Blanks \union {"cont"} /\ BlankFrom(s, limit, i + 1))
<1> DEFINE n == Len(s)
           B == BlankRuns(s, limit)
           Ends == CommentEnds(s, limit, i)
<1>1. n \in Nat
  OBVIOUS
<1>2. B[i] = BlankEnds(s, limit, B, i)
  BY BlankDefined
<1> HIDE DEF B
<1>3. \A j : BlankFrom(s, limit, j) <=> n \in B[j]
  BY DEF BlankFrom, B
<1>4. n \in B[i] <=>
        \/ n = i
        \/ i < n /\ s[i + 1] \in Blanks \union {"cont"} /\ n \in B[i + 1]
        \/ \E k \in Ends : n \in B[k]
  BY <1>2 DEF BlankEnds
<1>5. ASSUME At(s, i, <<"-", "-">>)
      PROVE  BlankFrom(s, limit, i) <=> BlankAfterLine(s, limit, i + 2)
  <2>1. i + 2 <= n /\ s[i + 1] = "-" /\ s[i + 2] = "-"
    BY <1>5, AtReads
  <2>2. ~Opens(s, i)
    BY <1>5 DEF At, Opens
  <2>3. s[i + 1] \notin Blanks \union {"cont"} /\ n # i
    BY <1>1, <2>1 DEF Blanks
  <2>4. n \in B[i] <=> \E k \in Ends : n \in B[k]
    BY <1>4, <2>3
  <2>5. \A k : k \in Ends <=> /\ k \in (i + 2)..n
                              /\ \A m \in (i + 3)..(k - 1) : s[m] # "newline"
                              /\ k = n \/ s[k] = "newline"
    BY <1>5, <2>2 DEF CommentEnds
  <2>6. \A k \in (i + 2)..n : s[k] = "newline" => k > i + 2
    BY <1>1, <2>1
  <2>7. (i + 2) + 1 = i + 3
    OBVIOUS
  <2> HIDE DEF Ends
  <2> QED BY <1>3, <2>4, <2>5, <2>6, <2>7 DEF BlankAfterLine
<1>6. ASSUME Opens(s, i)
      PROVE  BlankFrom(s, limit, i) <=> i + 2 \in Closing(s, limit)[1]
  <2> DEFINE E == Insides(s, limit)[<<i + 2, 1>>]
             C == Closing(s, limit)
  <2>1. i + 2 <= n /\ s[i + 1] = "/"
    BY <1>6, AtReads DEF Opens
  <2>2. ~At(s, i, <<"-", "-">>)
    BY <1>6 DEF At, Opens
  <2>3. s[i + 1] \notin Blanks \union {"cont"} /\ n # i
    BY <1>1, <2>1 DEF Blanks
  <2>4. n \in B[i] <=> \E k \in Ends : n \in B[k]
    BY <1>4, <2>3
  <2>5. Ends = {k + 2 : k \in {m \in E : Closes(s, m)}}
    BY <1>6, <2>2 DEF CommentEnds
  <2>6. E \subseteq (i + 2)..n /\ i + 2 \in 0..n
    <3>1. i + 2 \in 0..n /\ 1 \in 0..limit
      BY <1>1, <2>1
    <3> QED BY <3>1, InsideDefined
  <2>7. C[1] = {j \in 0..n : \E k \in Insides(s, limit)[<<j, 1>>] :
                              Closes(s, k) /\ k + 2 \in C[0]}
    <3>1. C[1] = ClosingRule(s, limit, C, 1)
      BY ClosingDefined
    <3>2. 1 # 0 /\ 1 - 1 = 0
      OBVIOUS
    <3> HIDE DEF C
    <3> QED BY <3>1, <3>2 DEF ClosingRule
  <2>8. C[0] = {j \in 0..n : n \in B[j]}
    <3>1. C[0] = ClosingRule(s, limit, C, 0)
      BY ClosingDefined
    <3> HIDE DEF C
    <3> QED BY <1>3, <3>1 DEF ClosingRule
  <2>9. \A k \in E : Closes(s, k) => k + 2 \in 0..n
    BY <1>1, <2>6 DEF Closes, At
  <2> HIDE DEF Ends, C
  <2>10. i + 2 \in C[1] <=> \E k \in E : Closes(s, k) /\ n \in B[k + 2]
    BY <2>6, <2>7, <2>8, <2>9
  <2> HIDE DEF E
  <2> QED BY <1>3, <2>4, <2>5, <2>10 DEF C
<1>7. ASSUME i < n, ~At(s, i, <<"-", "-">>), ~Opens(s, i)
      PROVE  BlankFrom(s, limit, i) <=>
               s[i + 1] \in Blanks \union {"cont"} /\ BlankFrom(s, limit, i + 1)
  <2>1. Ends = {}
    BY <1>7 DEF CommentEnds
  <2> HIDE DEF Ends
  <2> QED BY <1>3, <1>4, <1>7, <2>1
<1>8. i = n => BlankFrom(s, limit, i)
  BY <1>3, <1>4
<1> HIDE DEF Ends
<1> QED BY <1>5, <1>6, <1>7, <1>8

\* A line comment ends at the end of its line or of the text (input.rs 43-52).
LEMMA LineStepReads ==
  ASSUME NEW s \in Seq(Bytes), NEW limit \in Nat, NEW i \in 0..Len(s)
  PROVE  /\ i = Len(s) => (BlankAfterLine(s, limit, i) <=> BlankFrom(s, limit, i))
         /\ i < Len(s) /\ s[i + 1] = "newline" =>
              (BlankAfterLine(s, limit, i) <=> BlankFrom(s, limit, i + 1))
         /\ i < Len(s) /\ s[i + 1] # "newline" =>
              (BlankAfterLine(s, limit, i) <=> BlankAfterLine(s, limit, i + 1))
<1> DEFINE n == Len(s)
           Line(j, k) == /\ \A m \in (j + 1)..(k - 1) : s[m] # "newline"
                         /\ k = n \/ (k > j /\ s[k] = "newline")
<1>1. n \in Nat
  OBVIOUS
<1>2. \A j : BlankAfterLine(s, limit, j) <=> \E k \in j..n : Line(j, k) /\ BlankFrom(s, limit, k)
  BY DEF BlankAfterLine
<1>3. ASSUME i = n PROVE \A k \in i..n : Line(i, k) <=> k = i
  BY <1>1, <1>3
<1>4. ASSUME i < n, s[i + 1] = "newline" PROVE \A k \in i..n : Line(i, k) <=> k = i + 1
  <2> SUFFICES ASSUME NEW k \in i..n PROVE Line(i, k) <=> k = i + 1
    OBVIOUS
  <2>1. CASE k = i
    BY <1>1, <1>4, <2>1
  <2>2. CASE k = i + 1
    BY <1>1, <1>4, <2>2
  <2>3. CASE k > i + 1
    <3>1. i + 1 \in (i + 1)..(k - 1)
      BY <1>1, <2>3
    <3> QED BY <1>4, <2>3, <3>1
  <2> QED BY <2>1, <2>2, <2>3
<1>5. ASSUME i < n, s[i + 1] # "newline"
      PROVE  \A k \in i..n : Line(i, k) <=> k \in (i + 1)..n /\ Line(i + 1, k)
  <2> SUFFICES ASSUME NEW k \in i..n
               PROVE  Line(i, k) <=> k \in (i + 1)..n /\ Line(i + 1, k)
    OBVIOUS
  <2>1. CASE k = i
    BY <1>1, <1>5, <2>1
  <2>2. CASE k = i + 1
    BY <1>1, <1>5, <2>2
  <2>3. CASE k > i + 1
    <3>1. \A m \in (i + 1)..(k - 1) : m = i + 1 \/ m \in ((i + 1) + 1)..(k - 1)
      BY <1>1
    <3>2. \A m \in ((i + 1) + 1)..(k - 1) : m \in (i + 1)..(k - 1)
      BY <1>1
    <3> QED BY <1>1, <1>5, <2>3, <3>1, <3>2
  <2> QED BY <2>1, <2>2, <2>3
<1> HIDE DEF Line
<1>6. i = n => (BlankAfterLine(s, limit, i) <=> BlankFrom(s, limit, i))
  <2>1. i \in i..n
    BY <1>1
  <2> QED BY <1>2, <1>3, <2>1
<1>7. i < n /\ s[i + 1] = "newline" => (BlankAfterLine(s, limit, i) <=> BlankFrom(s, limit, i + 1))
  <2>1. i < n => i + 1 \in i..n
    BY <1>1
  <2> QED BY <1>2, <1>4, <2>1
<1>8. i < n /\ s[i + 1] # "newline" =>
        (BlankAfterLine(s, limit, i) <=> BlankAfterLine(s, limit, i + 1))
  <2>1. \A k \in (i + 1)..n : k \in i..n
    BY <1>1
  <2> QED BY <1>2, <1>5, <2>1
<1> QED BY <1>6, <1>7, <1>8

\* From a character to the next one.
LEMMA Bytewise ==
  ASSUME SInv, pc \in {"top", "line", "block"}, offset < Len(text), NEW P,
         \A j \in offset..(Len(text) - 1) :
           j = offset \/ text[j + 1] = "cont" => (j \in P <=> j + 1 \in P)
  PROVE  NextCharacter <= Len(text) /\ (offset \in P <=> NextCharacter \in P)
<1>1. /\ text \in Seq(Bytes) /\ offset \in Nat /\ Utf8(text) /\ Len(text) \in Nat
      /\ offset + 1 \in Begins(text)
  BY Advances DEF SInv, TypeOK
<1>2. /\ Width(text, offset + 1) \in {1, 2, 3}
      /\ NextCharacter = offset + Width(text, offset + 1)
  BY DEF Width, NextCharacter
<1>3. NextCharacter <= Len(text)
  <2>1. offset + 1 + Width(text, offset + 1) - 1 <= Len(text)
    BY <1>1 DEF Utf8
  <2> QED BY <1>1, <1>2, <2>1
<1>4. offset \in P <=> offset + 1 \in P
  BY <1>1
<1>5. \A j \in {1, 2} : j < Width(text, offset + 1) =>
        (offset + j \in P <=> (offset + j) + 1 \in P)
  <2> SUFFICES ASSUME NEW j \in {1, 2}, j < Width(text, offset + 1)
               PROVE  offset + j \in P <=> (offset + j) + 1 \in P
    OBVIOUS
  <2>1. text[(offset + j) + 1] = "cont"
    <3>1. /\ (offset + j) + 1 > offset + 1
          /\ (offset + j) + 1 < (offset + 1) + Width(text, offset + 1)
      BY <1>1, <1>2
    <3>2. (offset + j) + 1 \in 1..Len(text)
      BY <1>1, <1>2, <1>3
    <3> QED BY <1>1, <3>1, <3>2 DEF Utf8
  <2>2. offset + j \in offset..(Len(text) - 1)
    BY <1>1, <1>2, <1>3
  <2> QED BY <2>1, <2>2
<1>6. CASE Width(text, offset + 1) = 1
  BY <1>2, <1>3, <1>4, <1>6
<1>7. CASE Width(text, offset + 1) = 2
  <2>1. NextCharacter = (offset + 1) + 1
    BY <1>1, <1>2, <1>7
  <2> QED BY <1>3, <1>4, <1>5, <1>7, <2>1
<1>8. CASE Width(text, offset + 1) = 3
  <2>1. NextCharacter = (offset + 2) + 1 /\ (offset + 1) + 1 = offset + 2
    BY <1>1, <1>2, <1>8
  <2> QED BY <1>3, <1>4, <1>5, <1>8, <2>1
<1> QED BY <1>2, <1>3, <1>6, <1>7, <1>8

-----------------------------------------------------------------------------
\* What is left of the text decides what the whole is.
EInv ==
  /\ SInv
  /\ pc # "done" => result = "none"
  /\ pc = "top" => (BlankText(text, MaxDepth) <=> BlankFrom(text, MaxDepth, offset))
  /\ pc = "line" => (BlankText(text, MaxDepth) <=> BlankAfterLine(text, MaxDepth, offset))
  /\ pc = "block" =>
       (BlankText(text, MaxDepth) <=> offset \in Closing(text, MaxDepth)[depth])
  /\ EmptyExact

\* The value of a state function in the next state.
LEMMA Primes ==
  /\ BlankText(text, MaxDepth)' <=> BlankText(text', MaxDepth)
  /\ BlankFrom(text, MaxDepth, offset)' <=> BlankFrom(text', MaxDepth, offset')
  /\ BlankAfterLine(text, MaxDepth, offset)' <=> BlankAfterLine(text', MaxDepth, offset')
  /\ (offset \in Closing(text, MaxDepth)[depth])' <=>
       offset' \in Closing(text', MaxDepth)[depth']
<1> USE DEF BlankText, BlankFrom, BlankRuns, BlankEnds, CommentEnds, Insides, InsideEnds,
            Opens, Closes, At, Blanks
<1>1. BlankText(text, MaxDepth)' <=> BlankText(text', MaxDepth)
  BY Zenon
<1>2. BlankFrom(text, MaxDepth, offset)' <=> BlankFrom(text', MaxDepth, offset')
  BY Zenon
<1>3. BlankAfterLine(text, MaxDepth, offset)' <=> BlankAfterLine(text', MaxDepth, offset')
  BY Zenon DEF BlankAfterLine
<1>4. (offset \in Closing(text, MaxDepth)[depth])' <=>
        offset' \in Closing(text', MaxDepth)[depth']
  BY Zenon DEF Closing, ClosingRule
<1> QED BY <1>1, <1>2, <1>3, <1>4

\* Steps that move on keep the invariant when what is left still decides.
LEMMA EMove ==
  ASSUME EInv, SInv', text' = text, result' = result,
         pc # "done", pc' \in {"top", "line", "block"},
         pc' = "top" => (BlankText(text, MaxDepth) <=> BlankFrom(text, MaxDepth, offset')),
         pc' = "line" =>
           (BlankText(text, MaxDepth) <=> BlankAfterLine(text, MaxDepth, offset')),
         pc' = "block" =>
           (BlankText(text, MaxDepth) <=> offset' \in Closing(text, MaxDepth)[depth'])
  PROVE  EInv'
<1>1. result' = "none"
  BY DEF EInv
<1>2. EmptyExact'
  BY <1>1 DEF EmptyExact
<1> QED BY <1>1, <1>2, Primes DEF EInv

\* So do steps that end the scan with what the grammar says.
LEMMA EFinish ==
  ASSUME EInv, SInv', text' = text, NEW r, Finish(r),
         r = "empty" => BlankText(text, MaxDepth), r = "sql" => ~BlankText(text, MaxDepth)
  PROVE  EInv'
<1>1. EmptyExact'
  BY Primes DEF EmptyExact, Finish
<1> QED BY <1>1 DEF EInv, Finish

\* What the scan relies on at its offset.
LEMMA Scanning ==
  ASSUME EInv, pc \in {"top", "line", "block"}
  PROVE  /\ SInv /\ text \in Seq(Bytes) /\ MaxDepth \in Nat \ {0} /\ Len(text) \in Nat
         /\ offset \in 0..Len(text) /\ depth \in 0..MaxDepth /\ result = "none"
         /\ \A i : Opens(text, i) <=> At(text, i, <<"/", "*">>)
         /\ \A i : Closes(text, i) <=> At(text, i, <<"*", "/">>)
         /\ \A pair : StartsWith(pair) <=> At(text, offset, pair)
<1>1. /\ SInv /\ text \in Seq(Bytes) /\ MaxDepth \in Nat \ {0} /\ depth \in 0..MaxDepth
      /\ offset \in Nat /\ offset <= Len(text) /\ result = "none"
  BY MaxDepthAssumption DEF EInv, SInv, TypeOK, OnBoundary
<1>2. Len(text) \in Nat
  BY <1>1
<1> QED BY <1>1, <1>2 DEF Opens, Closes, StartsWith, At

\* Nothing is decided at first.
LEMMA InitEInv == Init => EInv
<1> SUFFICES ASSUME Init PROVE EInv
  OBVIOUS
<1>1. SInv
  BY InitSInv
<1> QED BY <1>1 DEF Init, EInv, EmptyExact

\* What was read is scanned from its beginning.
LEMMA EReadStep == ASSUME EInv, ReadSql PROVE EInv'
<1>1. SInv' /\ pc = "read" /\ offset = 0 /\ result = "none"
  BY ReadStep DEF EInv, SInv, ReadSql
<1>2. CASE pc' = "top"
  <2>1. offset' = 0 /\ result' = "none"
    BY <1>1, <1>2 DEF ReadSql, Finish
  <2>2. BlankText(text', MaxDepth) <=> BlankFrom(text', MaxDepth, offset')
    BY <2>1 DEF BlankText, BlankFrom
  <2>3. EmptyExact'
    BY <2>1 DEF EmptyExact
  <2> QED BY <1>1, <1>2, <2>1, <2>2, <2>3, Primes DEF EInv
<1>3. CASE pc' # "top"
  <2>1. \/ Finish("io") /\ text' = text
        \/ Finish("not_utf8") /\ text' = text
    BY <1>3 DEF ReadSql
  <2> QED BY <1>1, <2>1, EFinish
<1> QED BY <1>2, <1>3

\* Between comments: one unfolding of the rule for blank texts.
LEMMA EScanStep == ASSUME EInv, Scan PROVE EInv'
<1> DEFINE n == Len(text)
           At0(pair) == At(text, offset, pair)
           Blank == BlankText(text, MaxDepth)
           From(i) == BlankFrom(text, MaxDepth, i)
<1>1. pc = "top" /\ text' = text /\ (Blank <=> From(offset))
  BY DEF Scan, EInv
<1>2. /\ SInv /\ SInv' /\ text \in Seq(Bytes) /\ MaxDepth \in Nat \ {0} /\ n \in Nat
      /\ offset \in 0..n /\ depth \in 0..MaxDepth /\ result = "none"
      /\ \A i : Opens(text, i) <=> At(text, i, <<"/", "*">>)
      /\ \A pair : StartsWith(pair) <=> At(text, offset, pair)
  BY <1>1, ScanStep, Scanning
<1>3. /\ offset = n => From(offset)
      /\ At0(<<"-", "-">>) => (From(offset) <=> BlankAfterLine(text, MaxDepth, offset + 2))
      /\ Opens(text, offset) =>
           (From(offset) <=> offset + 2 \in Closing(text, MaxDepth)[1])
      /\ offset < n /\ ~At0(<<"-", "-">>) /\ ~Opens(text, offset) =>
           (From(offset) <=> text[offset + 1] \in Blanks \union {"cont"} /\ From(offset + 1))
  BY <1>2, BlankStep
<1>4. CASE offset = n
  <2>1. Finish("empty")
    BY <1>4 DEF Scan
  <2> QED BY <1>1, <1>2, <1>3, <1>4, <2>1, EFinish
<1>5. CASE offset # n /\ At0(<<"-", "-">>)
  <2>1. pc' = "line" /\ offset' = offset + 2 /\ result' = result
    BY <1>2, <1>5 DEF Scan
  <2> QED BY <1>1, <1>2, <1>3, <1>5, <2>1, EMove
<1>6. CASE offset # n /\ ~At0(<<"-", "-">>) /\ Opens(text, offset)
  <2>1. pc' = "block" /\ offset' = offset + 2 /\ depth' = 1 /\ result' = result
    BY <1>2, <1>6 DEF Scan
  <2> QED BY <1>1, <1>2, <1>3, <1>6, <2>1, EMove
<1>7. CASE offset # n /\ ~At0(<<"-", "-">>) /\ ~Opens(text, offset)
  <2>1. offset < n /\ text[offset + 1] # "cont"
    BY <1>1, <1>2, <1>7 DEF SInv, OnBoundary
  <2>2. CASE text[offset + 1] \in Blanks
    <3>1. pc' = "top" /\ offset' = NextCharacter /\ result' = result
      BY <1>1, <1>2, <1>7, <2>2 DEF Scan
    <3> DEFINE P == {j \in 0..n : From(j)}
    <3>2. \A j \in offset..(n - 1) :
            j = offset \/ text[j + 1] = "cont" => (j \in P <=> j + 1 \in P)
      <4> SUFFICES ASSUME NEW j \in offset..(n - 1), j = offset \/ text[j + 1] = "cont"
                   PROVE  From(j) <=> From(j + 1)
        BY <1>2
      <4>1. j \in 0..n /\ j < n
        BY <1>2
      <4>2. ~At(text, j, <<"-", "-">>) /\ ~Opens(text, j)
        BY <1>2, <1>7, <4>1, AtReads
      <4>3. text[j + 1] \in Blanks \union {"cont"}
        BY <2>2
      <4> QED BY <1>2, <4>1, <4>2, <4>3, BlankStep
    <3> HIDE DEF P
    <3>3. NextCharacter <= n /\ (offset \in P <=> NextCharacter \in P)
      BY <1>1, <1>2, <2>1, <3>2, Bytewise
    <3>4. NextCharacter \in 0..n
      BY <1>1, <1>2, <2>1, <3>3, Advances
    <3>5. From(offset) <=> From(NextCharacter)
      BY <1>2, <3>3, <3>4 DEF P
    <3> QED BY <1>1, <1>2, <3>1, <3>5, EMove
  <2>3. CASE text[offset + 1] \notin Blanks
    <3>1. Finish("sql")
      BY <1>2, <1>7, <2>3 DEF Scan
    <3>2. ~From(offset)
      BY <1>3, <1>7, <2>1, <2>3
    <3> QED BY <1>1, <1>2, <3>1, <3>2, EFinish
  <2> QED BY <2>2, <2>3
<1> QED BY <1>4, <1>5, <1>6, <1>7

\* In a line comment.
LEMMA ELineStep == ASSUME EInv, LineComment PROVE EInv'
<1> DEFINE n == Len(text)
           Blank == BlankText(text, MaxDepth)
           From(i) == BlankFrom(text, MaxDepth, i)
           Line(i) == BlankAfterLine(text, MaxDepth, i)
<1>1. pc = "line" /\ text' = text /\ result' = result /\ (Blank <=> Line(offset))
  BY DEF LineComment, EInv
<1>2. /\ SInv /\ SInv' /\ text \in Seq(Bytes) /\ MaxDepth \in Nat \ {0} /\ n \in Nat
      /\ offset \in 0..n
  BY <1>1, LineStep, Scanning
<1>3. \A j \in 0..n :
        /\ j = n => (Line(j) <=> From(j))
        /\ j < n /\ text[j + 1] = "newline" => (Line(j) <=> From(j + 1))
        /\ j < n /\ text[j + 1] # "newline" => (Line(j) <=> Line(j + 1))
  BY <1>2, LineStepReads
<1> HIDE DEF From, Line
<1>4. CASE offset = n
  <2>1. pc' = "top" /\ offset' = offset
    BY <1>4 DEF LineComment
  <2> QED BY <1>1, <1>2, <1>3, <1>4, <2>1, EMove DEF From
<1>5. CASE offset # n /\ text[offset + 1] = "newline"
  <2>1. pc' = "top" /\ offset' = offset + 1
    BY <1>2, <1>5 DEF LineComment, NextCharacter, Width
  <2> QED BY <1>1, <1>2, <1>3, <1>5, <2>1, EMove DEF From
<1>6. CASE offset # n /\ text[offset + 1] # "newline"
  <2>1. pc' = "line" /\ offset' = NextCharacter
    BY <1>6 DEF LineComment
  <2> DEFINE P == {j \in 0..n : Line(j)}
  <2>2. \A j \in offset..(n - 1) :
          j = offset \/ text[j + 1] = "cont" => (j \in P <=> j + 1 \in P)
    <3> SUFFICES ASSUME NEW j \in offset..(n - 1), j = offset \/ text[j + 1] = "cont"
                 PROVE  Line(j) <=> Line(j + 1)
      BY <1>2
    <3>1. j \in 0..n /\ j < n
      BY <1>2
    <3>2. text[j + 1] # "newline"
      BY <1>6
    <3> QED BY <1>3, <3>1, <3>2
  <2> HIDE DEF P
  <2>3. offset < n
    BY <1>2, <1>6
  <2>4. NextCharacter <= n /\ (offset \in P <=> NextCharacter \in P)
    BY <1>1, <1>2, <2>2, <2>3, Bytewise
  <2>5. NextCharacter \in 0..n
    BY <1>1, <1>2, <2>3, <2>4, Advances
  <2>6. Line(offset) <=> Line(NextCharacter)
    BY <1>2, <2>4, <2>5 DEF P
  <2> QED BY <1>1, <1>2, <2>1, <2>6, EMove DEF Line
<1> QED BY <1>4, <1>5, <1>6

\* In block comments: one unfolding of the rule for their insides.
LEMMA EBlockStep == ASSUME EInv, BlockComment PROVE EInv'
<1> DEFINE n == Len(text)
           Blank == BlankText(text, MaxDepth)
           C == Closing(text, MaxDepth)
<1>1. pc = "block" /\ text' = text /\ (Blank <=> offset \in C[depth])
  BY DEF BlockComment, EInv
<1>2. /\ SInv /\ SInv' /\ text \in Seq(Bytes) /\ MaxDepth \in Nat \ {0} /\ n \in Nat
      /\ offset \in 0..n /\ depth \in 1..MaxDepth /\ result = "none"
      /\ \A i : Opens(text, i) <=> At(text, i, <<"/", "*">>)
      /\ \A i : Closes(text, i) <=> At(text, i, <<"*", "/">>)
      /\ \A pair : StartsWith(pair) <=> At(text, offset, pair)
  <2>1. depth > 0
    BY <1>1 DEF EInv, SInv, TypeOK
  <2> QED BY <1>1, <2>1, BlockStep, Scanning
<1>3. \A j \in 0..n :
        /\ j = n => j \notin C[depth]
        /\ j < n /\ ~Opens(text, j) /\ ~Closes(text, j) =>
             (j \in C[depth] <=> j + 1 \in C[depth])
        /\ Opens(text, j) => (j \in C[depth] <=> depth < MaxDepth /\ j + 2 \in C[depth + 1])
        /\ Closes(text, j) => (j \in C[depth] <=> j + 2 \in C[depth - 1])
  BY <1>2, InsideStep
<1>4. \A j \in 0..n : j \in C[0] <=> BlankFrom(text, MaxDepth, j)
  <2>1. C[0] = ClosingRule(text, MaxDepth, C, 0)
    BY <1>2, ClosingDefined
  <2> HIDE DEF C
  <2> QED BY <2>1 DEF ClosingRule
<1>5. CASE offset = n
  <2>1. Finish("sql")
    BY <1>5 DEF BlockComment
  <2> QED BY <1>1, <1>2, <1>3, <1>5, <2>1, EFinish
<1>6. CASE offset # n /\ Opens(text, offset)
  <2>1. CASE depth = MaxDepth
    <3>1. Finish("sql")
      BY <1>2, <1>6, <2>1 DEF BlockComment, Open
    <3> QED BY <1>1, <1>2, <1>3, <1>6, <2>1, <3>1, EFinish
  <2>2. CASE depth # MaxDepth
    <3>1. pc' = "block" /\ offset' = offset + 2 /\ depth' = depth + 1 /\ result' = result
      BY <1>1, <1>2, <1>6, <2>2 DEF BlockComment, Open
    <3> HIDE DEF C
    <3>2. Blank <=> offset' \in C[depth']
      BY <1>1, <1>2, <1>3, <1>6, <2>2, <3>1
    <3> QED BY <1>1, <1>2, <3>1, <3>2, EMove DEF C
  <2> QED BY <2>1, <2>2
<1>7. CASE offset # n /\ ~Opens(text, offset) /\ Closes(text, offset)
  <2>1. /\ offset' = offset + 2 /\ depth' = depth - 1 /\ result' = result
        /\ pc' = IF depth = 1 THEN "top" ELSE "block"
    BY <1>1, <1>2, <1>7 DEF BlockComment, Close
  <2> HIDE DEF C
  <2>2. Blank <=> offset' \in C[depth']
    BY <1>1, <1>2, <1>3, <1>7, <2>1
  <2>3. offset' \in 0..n
    BY <1>2, <1>7, <2>1 DEF At
  <2>4. CASE depth = 1
    <3>1. pc' = "top" /\ depth' = 0
      BY <2>1, <2>4
    <3> QED BY <1>1, <1>2, <1>4, <2>1, <2>2, <2>3, <3>1, EMove
  <2>5. CASE depth # 1
    BY <1>1, <1>2, <2>1, <2>2, <2>5, EMove DEF C
  <2> QED BY <2>4, <2>5
<1>8. CASE offset # n /\ ~Opens(text, offset) /\ ~Closes(text, offset)
  <2>1. pc' = "block" /\ offset' = NextCharacter /\ depth' = depth /\ result' = result
    BY <1>1, <1>2, <1>8 DEF BlockComment
  <2> DEFINE P == {j \in 0..n : j \in C[depth]}
  <2>2. offset < n
    BY <1>2, <1>8
  <2>3. \A j \in offset..(n - 1) :
          j = offset \/ text[j + 1] = "cont" => (j \in P <=> j + 1 \in P)
    <3> SUFFICES ASSUME NEW j \in offset..(n - 1), j = offset \/ text[j + 1] = "cont"
                 PROVE  j \in C[depth] <=> j + 1 \in C[depth]
      BY <1>2
    <3>1. j \in 0..n /\ j < n
      BY <1>2
    <3>2. ~Opens(text, j) /\ ~Closes(text, j)
      BY <1>2, <1>8, <3>1, AtReads
    <3> HIDE DEF C
    <3> QED BY <1>3, <3>1, <3>2
  <2> HIDE DEF P
  <2>4. NextCharacter <= n /\ (offset \in P <=> NextCharacter \in P)
    BY <1>1, <1>2, <2>2, <2>3, Bytewise
  <2>5. NextCharacter \in 0..n
    BY <1>1, <1>2, <2>2, <2>4, Advances
  <2>6. offset \in C[depth] <=> NextCharacter \in C[depth]
    BY <1>2, <2>4, <2>5 DEF P
  <2> QED BY <1>1, <1>2, <2>1, <2>6, EMove
<1> QED BY <1>5, <1>6, <1>7, <1>8

\* The stronger invariant is inductive.
LEMMA EInvInductive == EInv /\ [Next]_vars => EInv'
<1> SUFFICES ASSUME EInv, [Next]_vars PROVE EInv'
  OBVIOUS
<1>1. CASE UNCHANGED vars
  <2>1. SInv'
    BY <1>1, SInvInductive DEF EInv
  <2>2. EmptyExact'
    BY <1>1, Primes DEF vars, EInv, EmptyExact
  <2> QED BY <1>1, <2>1, <2>2, Primes DEF vars, EInv
<1> QED BY <1>1, EReadStep, EScanStep, ELineStep, EBlockStep DEF Next

\* A text is dropped as empty exactly when it is made of blanks, semicolons and
\* whole comments, for every text and every depth (input.rs 29-31, 36-103).
THEOREM EmptyIsBlank == Spec => []EmptyExact
<1>1. EInv => EmptyExact
  BY DEF EInv
<1> QED BY <1>1, InitEInv, EInvInductive, PTL DEF Spec

-----------------------------------------------------------------------------
(* The scan ends: every iteration consumes a character or leaves a loop.    *)

Left ==
  CASE pc = "done" -> 0
    [] pc = "top"  -> 3 * (Len(text) - offset) + 1
    [] pc = "read" -> 3 * (Len(text) - offset) + 3
    [] OTHER       -> 3 * (Len(text) - offset) + 2

LEMMA LeftCounts == SInv => Left \in Nat
<1> SUFFICES ASSUME SInv PROVE Left \in Nat
  OBVIOUS
<1>1. /\ offset \in Nat /\ Len(text) \in Nat /\ pc \in {"read", "top", "line", "block", "done"}
      /\ pc # "done" => offset <= Len(text)
  BY DEF SInv, TypeOK, OnBoundary
<1> QED BY <1>1 DEF Left

LEMMA IterationConsumes == ASSUME SInv, Next PROVE Left' < Left
<1>1. /\ offset \in Nat /\ Len(text) \in Nat /\ text \in Seq(Bytes)
      /\ pc \in {"read", "top", "line", "block", "done"}
      /\ pc # "done" => offset <= Len(text)
      /\ pc = "read" => offset = 0
  BY DEF SInv, TypeOK, OnBoundary
<1>2. NextCharacter \in Nat /\ NextCharacter > offset
  <2>1. Width(text, offset + 1) \in {1, 2, 3}
    BY DEF Width
  <2> QED BY <1>1, <2>1 DEF NextCharacter
<1>3. pc # "done"
  BY DEF Next, ReadSql, Scan, LineComment, BlockComment
<1>4. CASE pc' = "done"
  BY <1>1, <1>3, <1>4 DEF Left
<1>5. CASE pc = "read" /\ pc' = "top"
  <2>1. offset' = 0 /\ Len(text') \in Nat /\ Len(text') <= Len(text)
    BY <1>1, <1>5 DEF Next, ReadSql, Scan, LineComment, BlockComment, Finish
  <2> QED BY <1>1, <1>5, <2>1 DEF Left
<1>6. CASE /\ pc \in {"top", "line", "block"} /\ pc' \in {"top", "line", "block"}
           /\ text' = text /\ offset' \in Nat /\ offset' > offset
  BY <1>1, <1>6 DEF Left
<1>7. CASE pc = "line" /\ pc' = "top" /\ text' = text /\ offset' = offset
  BY <1>1, <1>7 DEF Left
<1>8. CASE ReadSql
  BY <1>4, <1>5, <1>8 DEF ReadSql, Finish
<1>9. CASE Scan
  <2>1. \/ pc' = "done"
        \/ /\ pc = "top" /\ pc' \in {"top", "line", "block"} /\ text' = text
           /\ offset' = offset + 2 \/ offset' = NextCharacter
    BY <1>9 DEF Scan, Finish
  <2> QED BY <1>1, <1>2, <1>4, <1>6, <2>1
<1>10. CASE LineComment
  <2>1. /\ pc = "line" /\ text' = text
        /\ \/ pc' = "top" /\ offset' = offset
           \/ pc' \in {"top", "line"} /\ offset' = NextCharacter
    BY <1>10 DEF LineComment
  <2> QED BY <1>2, <1>6, <1>7, <2>1
<1>11. CASE BlockComment
  <2>1. \/ pc' = "done"
        \/ /\ pc = "block" /\ pc' \in {"top", "block"} /\ text' = text
           /\ offset' = offset + 2 \/ offset' = NextCharacter
    BY <1>11 DEF BlockComment, Open, Close, Finish
  <2> QED BY <1>1, <1>2, <1>4, <1>6, <2>1
<1> QED BY <1>8, <1>9, <1>10, <1>11 DEF Next

\* Every iteration of the scan lowers a natural number, so that no input makes it
\* go round for ever (input.rs 36-103).
THEOREM ScanAdvances == Spec => [](Left \in Nat) /\ [][Left' < Left]_vars
<1>1. SInv /\ [Next]_vars => [Left' < Left]_vars
  BY IterationConsumes
<1> QED BY <1>1, InitSInv, SInvInductive, LeftCounts, PTL DEF Spec
=============================================================================
