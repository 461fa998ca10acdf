------------------------------ MODULE MCJoinGraph ------------------------------
(* Instances of JoinGraph for TLC. *)
EXTENDS JoinGraphProofs, TLC

Ident(value, name) == [value |-> value, name |-> name]
t == Ident("t", "t")
upperT == Ident("T", "t")        \* T, not quoted
x == Ident("x", "x")
public == Ident("public", "public")
audit == Ident("audit", "audit")
MCSearchPath == "public"

Table(name, alias) == [is |-> "table", name |-> name, alias |-> alias]
Derived(alias) == [is |-> "other", name |-> alias, alias |-> alias]
First(f) == f @@ [lead |-> TRUE]
Joined(f) == f @@ [lead |-> FALSE]
Direct(clause) == [direct |-> TRUE, from |-> clause]

Join(is) == [is |-> is]
On(p) == [is |-> "on", predicate |-> p]
Plainly == {Join("using"), Join("natural"), Join("cross"), Join("none"), Join("other")}

\* Names: up to three factors, each written in every way.
NamesIdents == {t, upperT, x, public, audit}
NamedTables ==
  {Table(<<t>>, <<>>), Table(<<upperT>>, <<>>), Table(<<public, t>>, <<>>),
   Table(<<audit, t>>, <<>>), Table(<<t>>, <<x>>), Table(<<x>>, <<upperT>>),
   Table(<<x, public, t>>, <<>>), Derived(<<x>>)}
AnyPlace == {First(f) : f \in NamedTables} \union {Joined(f) : f \in NamedTables}
NamesStatements ==
  {Direct(<<>>), [direct |-> FALSE, from |-> <<First(Table(<<t>>, <<>>))>>]}
    \union {Direct(<<First(f)>>) : f \in NamedTables}
    \union {Direct(<<First(f), g>>) : f \in NamedTables, g \in AnyPlace}
    \union {Direct(<<First(f), g, h>>) : f \in NamedTables, g, h \in AnyPlace}
NamesQualifiers == {<<t>>, <<upperT>>, <<x>>, <<public, t>>, <<audit, t>>, <<>>}
NamesPredicates == {{}} \union {{{p, q}} : p, q \in NamesQualifiers}
NamesJoins == Plainly \union {On(p) : p \in NamesPredicates}

\* Shapes: up to four tables with aliases of their own.
a == Ident("a", "a")
b == Ident("b", "b")
c == Ident("c", "c")
d == Ident("d", "d")
ShapeIdents == {a, b, c, d}
Aliased == [i \in 1..4 |-> Table(<<a>>, <<<<a, b, c, d>>[i]>>)]
ShapeStatements ==
  {Direct([i \in 1..n |-> IF i \in firsts THEN First(Aliased[i]) ELSE Joined(Aliased[i])]) :
     n \in 1..4, firsts \in {s \in SUBSET (1..4) : 1 \in s}}
ShapeQualifiers == {<<a>>, <<b>>, <<c>>, <<d>>}
ShapePredicates ==
  {{}} \union {{e} : e \in SUBSET ShapeQualifiers \ {{}}}
    \union {{{<<a>>, <<c>>}, {<<b>>}}, {{<<c>>, <<d>>}, {<<a>>, <<b>>}},
            {{<<a>>, <<b>>}, {<<b>>, <<c>>}}, {{<<b>>, <<d>>}, {<<a>>, <<>>}}}
ShapeJoins == Plainly \union {On(p) : p \in ShapePredicates}

MCIdents == NamesIdents \union ShapeIdents
MCStatements == NamesStatements \union ShapeStatements
MCPredicates == NamesPredicates \union ShapePredicates
MCJoins == NamesJoins \union ShapeJoins
=============================================================================
