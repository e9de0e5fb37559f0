----------------------------- MODULE Iteration -----------------------------
(***************************************************************************)
(* Functions that are iterated: what a recursive definition over 0 .. n    *)
(* defines, and how to reason about it.  Induction is over a set of        *)
(* numbers, for which the well-foundedness of < is enough.                 *)
(***************************************************************************)
EXTENDS Integers, WellFoundedInduction, TLAPS

LEMMA Least == ASSUME NEW T \in SUBSET Nat, T # {} PROVE \E m \in T : \A k \in T : m <= k
<1>1. PICK m \in T : \A k \in T : ~ (<<k, m>> \in OpToRel(<, Nat))
  BY WFMin, NatLessThanWellFounded
<1>2. \A k \in T : ~ (k < m)
  BY <1>1 DEF OpToRel
<1> QED  BY <1>2

(* Induction over 0 .. n, of the property of being in S *)
LEMMA Climb ==
  ASSUME NEW n \in Nat, NEW S, 0 \in S, \A k \in 1 .. n : k - 1 \in S => k \in S
  PROVE  0 .. n \subseteq S
<1> SUFFICES ASSUME 0 .. n \ S # {} PROVE FALSE
  OBVIOUS
<1>1. PICK k \in 0 .. n \ S : \A j \in 0 .. n \ S : k <= j
  <2>1. 0 .. n \ S \in SUBSET Nat
    OBVIOUS
  <2> QED  BY <2>1, Least
<1>2. k - 1 \in 0 .. n /\ k - 1 \notin 0 .. n \ S
  BY <1>1
<1> QED  BY <1>1, <1>2

(* f starts at a and follows G, n times. *)
Follows(f, G, a, n) == f[0] = a /\ \A k \in 1 .. n : f[k] = G[f[k - 1]]

LEMMA FollowsExists ==
  ASSUME NEW X, NEW G \in [X -> X], NEW a \in X, NEW n \in Nat
  PROVE  \E f \in [0 .. n -> X] : Follows(f, G, a, n)
<1> DEFINE S == {m \in 0 .. n : \E f \in [0 .. m -> X] : Follows(f, G, a, m)}
<1>1. 0 \in S
  <2>1. [k \in 0 .. 0 |-> a] \in [0 .. 0 -> X] /\ Follows([k \in 0 .. 0 |-> a], G, a, 0)
    BY DEF Follows
  <2> QED  BY <2>1
<1>2. ASSUME NEW m \in 1 .. n, m - 1 \in S PROVE m \in S
  <2>1. PICK f \in [0 .. m - 1 -> X] : Follows(f, G, a, m - 1)
    BY <1>2
  <2> DEFINE g == [k \in 0 .. m |-> IF k = m THEN G[f[m - 1]] ELSE f[k]]
  <2>2. g \in [0 .. m -> X]
    BY <2>1
  <2>3. g[0] = a
    BY <2>1 DEF Follows
  <2>4. ASSUME NEW k \in 1 .. m PROVE g[k] = G[g[k - 1]]
    BY <2>1 DEF Follows
  <2>5. Follows(g, G, a, m)
    BY <2>3, <2>4 DEF Follows
  <2> QED  BY <2>2, <2>5
<1> HIDE DEF S
<1>3. 0 .. n \subseteq S
  BY <1>1, <1>2, Climb
<1> QED  BY <1>3 DEF S

(* What at[k \in 0 .. n] == IF k = 0 THEN a ELSE G[at[k - 1]] defines *)
LEMMA RecursionFollows ==
  ASSUME NEW X, NEW G \in [X -> X], NEW a \in X, NEW n \in Nat, NEW at,
         at = [k \in 0 .. n |-> IF k = 0 THEN a ELSE G[at[k - 1]]]
  PROVE  at \in [0 .. n -> X] /\ Follows(at, G, a, n)
<1>1. at = [k \in 0 .. n |-> at[k]] /\ Follows(at, G, a, n)
  BY DEF Follows
<1>2. ASSUME NEW k \in 0 .. n PROVE at[k] \in X
  <2> DEFINE S == {j \in 0 .. n : at[j] \in X}
  <2>1. 0 \in S /\ \A j \in 1 .. n : j - 1 \in S => j \in S
    BY <1>1 DEF Follows
  <2> HIDE DEF S
  <2>2. k \in S
    BY <2>1, Climb
  <2> QED  BY <2>2 DEF S
<1> QED  BY <1>1, <1>2
=============================================================================
