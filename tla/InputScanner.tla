------------------------------ MODULE InputScanner ------------------------------
(***************************************************************************)
(* read_sql with is_effectively_empty and skip_block_comment (input.rs):   *)
(* the bytes of the input are decoded, a byte order mark is removed, and a *)
(* scan by byte offsets decides whether there is any SQL in the text.      *)
(*                                                                         *)
(* A byte is an ASCII character, "x" for all that are neither blank nor    *)
(* special, or a byte of a longer one: "two" begins a letter and "wide" a  *)
(* blank of two bytes, "mark" the byte order mark, which has three.        *)
(***************************************************************************)
EXTENDS Integers, Sequences

CONSTANTS
  Inputs,      \* what can be read: sequences of bytes
  MaxDepth     \* u32::MAX, as far as comments can nest

Bytes == {"space", "newline", ";", "x", "/", "*", "-", "two", "wide", "mark", "cont"}

ASSUME InputsAssumption == Inputs \subseteq Seq(Bytes)
ASSUME MaxDepthAssumption == MaxDepth \in Nat \ {0}

VARIABLES
  text,        \* the bytes, later the text without its mark
  pc,          \* "read", "top", "line", "block", "done"
  offset,      \* bytes scanned
  depth,       \* depth of block comments
  result       \* "none", then "io", "not_utf8", "empty" or "sql"

vars == <<text, pc, offset, depth, result>>

Init == /\ text \in Inputs
        /\ pc = "read" /\ offset = 0 /\ depth = 0 /\ result = "none"

-----------------------------------------------------------------------------
Width(s, i) == CASE s[i] \in {"two", "wide"} -> 2 [] s[i] = "mark" -> 3 [] OTHER -> 1

\* String::from_utf8: where characters begin, and that they cover the bytes.
Begins(s) == {i \in 1..Len(s) : s[i] # "cont"}
Utf8(s) ==
  /\ \A i \in 1..Len(s) :
       s[i] = "cont" <=> \E k \in Begins(s) : k < i /\ i < k + Width(s, k)
  /\ \A i \in Begins(s) : i + Width(s, i) - 1 <= Len(s)

\* rest.starts_with(pair) for the text after the offset.
StartsWith(pair) ==
  offset + 2 <= Len(text) /\ SubSeq(text, offset + 1, offset + 2) = pair

\* Mutant: an offset grows by one for every character.
NextByte == offset + 1

NextCharacter == offset + Width(text, offset + 1)

\* White space and semicolons.
Blanks == {"space", "newline", "wide", ";"}

Finish(r) == pc' = "done" /\ result' = r /\ UNCHANGED <<offset, depth>>

ReadSql ==
  /\ pc = "read"
  /\ \/ Finish("io") /\ UNCHANGED text
     \/ ~Utf8(text) /\ Finish("not_utf8") /\ UNCHANGED text
     \/ /\ Utf8(text)
        /\ text' = IF text # <<>> /\ text[1] = "mark"
                     THEN SubSeq(text, 4, Len(text)) ELSE text
        /\ pc' = "top"
        /\ UNCHANGED <<offset, depth, result>>

\* One iteration of is_effectively_empty.
Scan ==
  /\ pc = "top"
  /\ IF offset = Len(text) THEN Finish("empty")
     ELSE IF StartsWith(<<"-", "-">>)
       THEN pc' = "line" /\ offset' = offset + 2 /\ UNCHANGED <<depth, result>>
     ELSE IF StartsWith(<<"/", "*">>)
       THEN /\ pc' = "block" /\ offset' = offset + 2 /\ depth' = 1
            /\ UNCHANGED result
     ELSE IF text[offset + 1] \in Blanks
       THEN offset' = NextCharacter /\ UNCHANGED <<pc, depth, result>>
       ELSE Finish("sql")
  /\ UNCHANGED text

\* Mutant: the end of the text does not end a comment.
LineToNewline ==
  /\ pc = "line" /\ offset < Len(text)
  /\ offset' = NextCharacter
  /\ pc' = IF text[offset + 1] = "newline" THEN "top" ELSE "line"
  /\ UNCHANGED <<text, depth, result>>

LineComment ==
  /\ pc = "line"
  /\ IF offset = Len(text)
       THEN pc' = "top" /\ UNCHANGED offset
       ELSE /\ offset' = NextCharacter
            /\ pc' = IF text[offset + 1] = "newline" THEN "top" ELSE "line"
  /\ UNCHANGED <<text, depth, result>>

\* Mutant: comments do not nest.
OpenFlat == depth' = depth /\ offset' = offset + 2 /\ UNCHANGED <<pc, result>>

\* Mutant: the depth is not checked.
OpenUnchecked == depth' = depth + 1 /\ offset' = offset + 2 /\ UNCHANGED <<pc, result>>

\* checked_add: a depth that is out of range counts as an unfinished comment.
Open ==
  IF depth = MaxDepth
    THEN Finish("sql")
    ELSE depth' = depth + 1 /\ offset' = offset + 2 /\ UNCHANGED <<pc, result>>

Close ==
  /\ depth' = depth - 1 /\ offset' = offset + 2
  /\ pc' = IF depth = 1 THEN "top" ELSE "block"
  /\ UNCHANGED result

\* One iteration of skip_block_comment.
BlockComment ==
  /\ pc = "block"
  /\ IF offset = Len(text) THEN Finish("sql")
     ELSE IF StartsWith(<<"/", "*">>) THEN Open
     ELSE IF StartsWith(<<"*", "/">>) THEN Close
     ELSE offset' = NextCharacter /\ UNCHANGED <<pc, depth, result>>
  /\ UNCHANGED text

Next == ReadSql \/ Scan \/ LineComment \/ BlockComment
Spec == Init /\ [][Next]_vars
FairSpec == Spec /\ WF_vars(Next)

-----------------------------------------------------------------------------
(* Blank texts by a grammar.  A continuation byte adds nothing to what its  *)
(* character is.                                                            *)

At(s, i, pair) == i + 2 <= Len(s) /\ SubSeq(s, i + 1, i + 2) = pair
Opens(s, i) == At(s, i, <<"/", "*">>)
Closes(s, i) == At(s, i, <<"*", "/">>)

\* Where the inside of a comment of depth d that begins after i can end: at
\* once, after a byte that begins no mark, or after a whole comment, comments
\* nesting up to the limit.
InsideEnds(s, limit, ends, i, d) ==
  {i}
  \union (IF i < Len(s) /\ ~Opens(s, i) /\ ~Closes(s, i) THEN ends[<<i + 1, d>>] ELSE {})
  \union (IF Opens(s, i) /\ d < limit
          THEN UNION {ends[<<k + 2, d>>] : k \in {m \in ends[<<i + 2, d + 1>>] : Closes(s, m)}}
          ELSE {})
Insides(s, limit) ==
  LET ends[p \in (0..Len(s)) \X (0..limit)] == InsideEnds(s, limit, ends, p[1], p[2])
  IN ends

\* Where a comment that begins after i ends.
CommentEnds(s, limit, i) ==
  (IF Opens(s, i)
   THEN {k + 2 : k \in {m \in Insides(s, limit)[<<i + 2, 1>>] : Closes(s, m)}} ELSE {})
  \union {k \in (i + 2)..Len(s) :
            /\ At(s, i, <<"-", "-">>)
            /\ \A m \in (i + 3)..(k - 1) : s[m] # "newline"
            /\ k = Len(s) \/ s[k] = "newline"}

\* Where a blank text that begins after i can end.
BlankEnds(s, limit, ends, i) ==
  {i}
  \union (IF i < Len(s) /\ s[i + 1] \in Blanks \union {"cont"} THEN ends[i + 1] ELSE {})
  \union UNION {ends[k] : k \in CommentEnds(s, limit, i)}
BlankRuns(s, limit) ==
  LET ends[i \in 0..Len(s)] == BlankEnds(s, limit, ends, i) IN ends
BlankText(s, limit) == Len(s) \in BlankRuns(s, limit)[0]

\* Type invariant.  In a comment the depth is positive and within its range, so
\* that depth -= 1 does not wrap.
TypeOK ==
  /\ text \in Seq(Bytes)
  /\ pc \in {"read", "top", "line", "block", "done"}
  /\ offset \in Nat
  /\ depth \in 0..MaxDepth
  /\ pc = "block" => depth > 0
  /\ result \in {"none", "io", "not_utf8", "empty", "sql"}

\* The offset is in the text and never inside a character, where &sql[offset..]
\* would panic (input.rs 39-46, 82-98).
OnBoundary ==
  pc \in {"top", "line", "block"} =>
    /\ offset <= Len(text)
    /\ offset < Len(text) => text[offset + 1] # "cont"

\* A text is dropped as empty exactly when it is made of blanks, semicolons and
\* whole comments, line comments without an end of line and nested ones included,
\* and SQL is never taken for a comment (input.rs 29-31, 36-103).
EmptyExact ==
  result \in {"empty", "sql"} => (result = "empty" <=> BlankText(text, MaxDepth))

\* The scan ends for every input.
Terminates == <>(pc = "done")
=============================================================================
