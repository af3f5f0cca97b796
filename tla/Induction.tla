----------------------------- MODULE Induction ------------------------------
(***************************************************************************)
(* Induction over bounded numbers, with the property given as a set, and   *)
(* the existence of iterates: what the proofs about the recursive          *)
(* functions of the project rest on.                                       *)
(***************************************************************************)
EXTENDS Integers, TLAPS, WellFoundedInduction
-----------------------------------------------------------------------------
\* A set of numbers has a least one.
LEMMA LeastNumber ==
  ASSUME NEW T \in SUBSET Nat, T # {}
  PROVE  \E x \in T : \A y \in T : x <= y
<1>1. PICK x \in T : \A y \in T : ~ (<<y, x>> \in OpToRel(<, Nat))
  BY NatLessThanWellFounded, WFMin
<1>2. \A y \in T : ~ (y < x)
  BY <1>1 DEF OpToRel
<1> QED
  BY <1>2

\* What holds at the first round and is kept by every round holds at all of them.
LEMMA Rounds ==
  ASSUME NEW N \in Nat, NEW G, 0 \in G, \A n \in 1 .. N : n - 1 \in G => n \in G
  PROVE  \A n \in 0 .. N : n \in G
<1> SUFFICES ASSUME {n \in 0 .. N : n \notin G} # {} PROVE FALSE
  OBVIOUS
<1> DEFINE Bad == {n \in 0 .. N : n \notin G}
<1>0. Bad \in SUBSET Nat /\ Bad # {}
  OBVIOUS
<1>1. PICK x \in Bad : \A y \in Bad : x <= y
  <2> HIDE DEF Bad
  <2> QED
    BY <1>0, LeastNumber
<1>2. x \in 1 .. N /\ x - 1 \in 0 .. N /\ ~ (x <= x - 1)
  BY <1>1
<1>3. x - 1 \in G
  BY <1>1, <1>2
<1> QED
  BY <1>1, <1>2, <1>3

\* The same from the top down.
LEMMA Downwards ==
  ASSUME NEW N \in Nat, NEW G, \A s \in 1 .. N : (\A t \in s + 1 .. N : t \in G) => s \in G
  PROVE  \A s \in 1 .. N : s \in G
<1> SUFFICES ASSUME {s \in 1 .. N : s \notin G} # {} PROVE FALSE
  OBVIOUS
<1> DEFINE Bad == {n \in 0 .. N : N - n \in 1 .. N /\ N - n \notin G}
<1>1. PICK s \in 1 .. N : s \notin G
  OBVIOUS
<1>2. N - s \in Bad
  BY <1>1
<1>3. PICK x \in Bad : \A y \in Bad : x <= y
  <2>1. Bad \in SUBSET Nat
    OBVIOUS
  <2> HIDE DEF Bad
  <2> QED
    BY <1>2, <2>1, LeastNumber
<1>4. x \in 0 .. N /\ N - x \in 1 .. N /\ N - x \notin G
  BY <1>3
<1>5. ASSUME NEW t \in (N - x) + 1 .. N PROVE t \in G
  <2>1. N - t \in 0 .. N /\ N - (N - t) = t /\ t \in 1 .. N /\ ~ (x <= N - t)
    BY <1>4
  <2>2. N - t \notin Bad
    BY <1>3, <2>1
  <2> QED
    BY <2>1, <2>2
<1> QED
  BY <1>4, <1>5

Iterated(f, N, x0, F) == f[0] = x0 /\ \A n \in 1 .. N : f[n] = F[f[n - 1]]

\* A function can be applied over and over.
LEMMA Iterates ==
  ASSUME NEW N \in Nat, NEW S, NEW x0 \in S, NEW F \in [S -> S]
  PROVE  \E f \in [0 .. N -> S] : Iterated(f, N, x0, F)
<1> DEFINE Is(f, m) == f[0] = x0 /\ \A n \in 1 .. m : f[n] = F[f[n - 1]]
           G == {m \in 0 .. N : \E f \in [0 .. m -> S] : Is(f, m)}
<1>1. 0 \in G
  <2> DEFINE f == [n \in 0 .. 0 |-> x0]
  <2>1. f \in [0 .. 0 -> S] /\ f[0] = x0
    OBVIOUS
  <2>2. 1 .. 0 = {} /\ 0 \in 0 .. N
    OBVIOUS
  <2> HIDE DEF f
  <2>3. Is(f, 0)
    BY <2>1, <2>2
  <2> HIDE DEF Is
  <2> QED
    BY <2>1, <2>2, <2>3
<1>2. ASSUME NEW m \in 1 .. N, m - 1 \in G PROVE m \in G
  <2>1. PICK f \in [0 .. m - 1 -> S] : Is(f, m - 1)
    BY <1>2
  <2> DEFINE g == [n \in 0 .. m |-> IF n = m THEN F[f[m - 1]] ELSE f[n]]
  <2>2. g \in [0 .. m -> S]
    OBVIOUS
  <2>3. g[0] = x0 /\ g[m] = F[f[m - 1]] /\ \A n \in 0 .. m - 1 : g[n] = f[n]
    BY <2>1
  <2> HIDE DEF g
  <2>4. ASSUME NEW n \in 1 .. m PROVE g[n] = F[g[n - 1]]
    <3>1. n - 1 \in 0 .. m - 1
      OBVIOUS
    <3>2. CASE n = m
      BY <2>3, <3>1, <3>2
    <3>3. CASE n # m
      <4>1. n \in 1 .. m - 1 /\ n \in 0 .. m - 1
        BY <3>3
      <4> QED
        BY <2>1, <2>3, <3>1, <4>1
    <3> QED
      BY <3>2, <3>3
  <2> QED
    BY <2>2, <2>3, <2>4
<1> HIDE DEF G
<1>3. N \in G
  BY <1>1, <1>2, Rounds
<1> QED
  BY <1>3 DEF G, Iterated
=============================================================================
