-------------------------- MODULE ConnectivityProofs --------------------------
(***************************************************************************)
(* Facts about Connectivity, for every graph.                              *)
(***************************************************************************)
EXTENDS Connectivity, TLAPS

\* Being connected is an equivalence that contains every edge.
LEMMA ConnectedRefl == \A V, E, v : Connected(V, E, v, v)
  BY DEF Connected

LEMMA ConnectedStep ==
  ASSUME NEW V, NEW E, NEW s, NEW v \in V, NEW w \in V,
         Connected(V, E, s, v), Adjacent(E, v, w)
  PROVE  Connected(V, E, s, w)
  BY DEF Connected, Closed

LEMMA ConnectedTrans ==
  ASSUME NEW V, NEW E, NEW u, NEW v, NEW w,
         Connected(V, E, u, v), Connected(V, E, v, w)
  PROVE  Connected(V, E, u, w)
  BY DEF Connected

LEMMA ConnectedSym ==
  ASSUME NEW V, NEW E, NEW v \in V, NEW w \in V, Connected(V, E, v, w)
  PROVE  Connected(V, E, w, v)
<1> SUFFICES ASSUME NEW S \in SUBSET V, w \in S, Closed(V, E, S), v \notin S
             PROVE  FALSE
  BY DEF Connected
<1>1. Closed(V, E, V \ S)
  BY DEF Closed, Adjacent
<1> QED BY <1>1 DEF Connected

\* A closed set whose members are all connected to one of them is a component.
LEMMA ClosedIsComponent ==
  ASSUME NEW V, NEW E, NEW S \in SUBSET V, NEW s \in S, Closed(V, E, S),
         \A v \in S : Connected(V, E, s, v)
  PROVE  S = Component(V, E, s)
  BY DEF Connected, Component

\* Members of a component have the same component.
LEMMA SameComponent ==
  ASSUME NEW V, NEW E, NEW s \in V, NEW v \in Component(V, E, s)
  PROVE  Component(V, E, v) = Component(V, E, s)
<1>1. v \in V /\ Connected(V, E, s, v) /\ Connected(V, E, v, s)
  BY ConnectedSym DEF Component
<1> QED BY <1>1, ConnectedTrans DEF Component

\* A closed set contains all of a connected operand or nothing of it.
LEMMA ConnectedTogether ==
  ASSUME NEW V, NEW E, NEW L \in SUBSET V, NEW v \in L, Component(L, E, v) = L,
         NEW S \in SUBSET V, Closed(V, E, S)
  PROVE  \A w \in L : w \in S <=> v \in S
<1>1. \A w \in L, T \in SUBSET L : v \in T /\ Closed(L, E, T) => w \in T
  BY DEF Component, Connected
<1>2. CASE v \in S
  <2>1. Closed(L, E, S \intersect L)
    BY DEF Closed
  <2> QED BY <1>1, <1>2, <2>1
<1>3. CASE v \notin S
  <2>1. \A x, y : Adjacent(E, x, y) => Adjacent(E, y, x)
    BY DEF Adjacent
  <2>2. Closed(L, E, L \ S)
    BY <2>1 DEF Closed
  <2> QED BY <1>1, <1>3, <2>2
<1> QED BY <1>2, <1>3
=============================================================================
