--------------------------- MODULE SnapshotLemmas ---------------------------
(***************************************************************************)
(* Lemmas on the operators of module Snapshots: the ancestor chain, the    *)
(* sweep of unreferenced snapshots, and what is visible through a chain.   *)
(***************************************************************************)
EXTENDS Snapshots, Induction
-----------------------------------------------------------------------------
(***************************************************************************)
(* ancestor_chain: the least set that holds a snap_id and its parents.     *)
(***************************************************************************)
HasParent(snaps, s) == s \in DOMAIN snaps /\ snaps[s] # NO_PARENT_SNAP /\ snaps[s] > s

Closed(snaps, C) == \A s \in C : HasParent(snaps, s) => snaps[s] \in C

IsMeta(snaps) ==
  /\ DOMAIN snaps \subseteq SnapId
  /\ \A s \in DOMAIN snaps : snaps[s] \in SnapId \cup {NO_PARENT_SNAP}

LEMMA ChainEquation ==
  ASSUME NEW snaps, IsMeta(snaps)
  PROVE  \E up \in [SnapId -> SUBSET SnapId] :
           /\ \A s \in SnapId : ancestor_chain(snaps, s) = up[s]
           /\ \A s \in SnapId :
                up[s] = {s} \cup IF HasParent(snaps, s) THEN up[snaps[s]] ELSE {}
<1> DEFINE Eq(f) == f = [s \in SnapId |->
                          {s} \cup IF s \in DOMAIN snaps /\ snaps[s] # NO_PARENT_SNAP /\ snaps[s] > s
                                   THEN f[snaps[s]] ELSE {}]
           reach == [s \in SnapId |-> {t \in SnapId : \A C \in SUBSET SnapId :
                                         s \in C /\ Closed(snaps, C) => t \in C}]
           up == CHOOSE f : Eq(f)
<1>1. \A s \in SnapId : HasParent(snaps, s) => snaps[s] \in SnapId
  BY DEF HasParent, IsMeta
<1>2. ASSUME NEW s \in SnapId
      PROVE  reach[s] = {s} \cup IF HasParent(snaps, s) THEN reach[snaps[s]] ELSE {}
  <2>1. CASE ~ HasParent(snaps, s)
    <3>1. Closed(snaps, {s})
      BY <2>1 DEF Closed
    <3> QED
      BY <2>1, <3>1
  <2>2. CASE HasParent(snaps, s)
    <3> DEFINE p == snaps[s]
    <3>1. p \in SnapId
      BY <1>1, <2>2
    <3>2. ASSUME NEW C \in SUBSET SnapId, s \in C, Closed(snaps, C) PROVE p \in C
      BY <2>2, <3>2 DEF Closed
    <3>3. reach[p] \subseteq reach[s]
      BY <3>1, <3>2
    <3>4. s \in reach[s]
      OBVIOUS
    <3>5. Closed(snaps, {s} \cup reach[p])
      <4>1. p \in reach[p]
        BY <3>1
      <4>2. Closed(snaps, reach[p])
        <5> SUFFICES ASSUME NEW t \in reach[p], HasParent(snaps, t) PROVE snaps[t] \in reach[p]
          BY DEF Closed
        <5>1. t \in SnapId /\ snaps[t] \in SnapId
          BY <1>1, <3>1
        <5> QED
          BY <3>1, <5>1 DEF Closed
      <4> HIDE DEF reach
      <4> QED
        BY <4>1, <4>2 DEF Closed
    <3>6. {s} \cup reach[p] \in SUBSET SnapId
      BY <3>1
    <3>7. reach[s] \subseteq {s} \cup reach[p]
      BY <3>5, <3>6
    <3> HIDE DEF reach
    <3> QED
      BY <2>2, <3>3, <3>4, <3>7
  <2> QED
    BY <2>1, <2>2
<1>3. reach \in [SnapId -> SUBSET SnapId]
  OBVIOUS
<1>4. Eq(reach)
  <2> HIDE DEF reach
  <2> QED
    BY <1>2, <1>3 DEF HasParent
<1>5. Eq(up)
  <2> HIDE DEF Eq, reach
  <2> QED
    BY <1>4
<1>6. \A s \in SnapId : ancestor_chain(snaps, s) = up[s]
  BY DEF ancestor_chain
<1> HIDE DEF up
<1>7. \A s \in SnapId : up[s] = {s} \cup IF HasParent(snaps, s) THEN up[snaps[s]] ELSE {}
  BY <1>5 DEF HasParent
<1>8. up \in [SnapId -> SUBSET SnapId]
  <2> DEFINE G == {s \in SnapId : up[s] \in SUBSET SnapId}
  <2>1. ASSUME NEW s \in 1 .. ROOT_SNAP, \A t \in s + 1 .. ROOT_SNAP : t \in G PROVE s \in G
    <3>1. s \in SnapId
      BY DEF SnapId
    <3>2. HasParent(snaps, s) => snaps[s] \in s + 1 .. ROOT_SNAP
      BY <1>1, <3>1, SnapshotConstants DEF HasParent, SnapId
    <3>3. HasParent(snaps, s) => up[snaps[s]] \in SUBSET SnapId
      BY <2>1, <3>2
    <3> QED
      BY <1>7, <3>1, <3>3
  <2> HIDE DEF G
  <2>2. \A s \in 1 .. ROOT_SNAP : s \in G
    BY <2>1, SnapshotConstants, Downwards
  <2> QED
    BY <1>5, <2>2 DEF G, SnapId
<1> QED
  BY <1>6, <1>7, <1>8

\* It is closed under parents, and inside every closed set that has the snap_id.
LEMMA ChainIsLeast ==
  ASSUME NEW snaps, IsMeta(snaps), NEW snap \in SnapId
  PROVE  /\ ancestor_chain(snaps, snap) \in SUBSET SnapId
         /\ snap \in ancestor_chain(snaps, snap)
         /\ Closed(snaps, ancestor_chain(snaps, snap))
         /\ \A C \in SUBSET SnapId :
              snap \in C /\ Closed(snaps, C) => ancestor_chain(snaps, snap) \subseteq C
<1>1. PICK up \in [SnapId -> SUBSET SnapId] :
        /\ \A s \in SnapId : ancestor_chain(snaps, s) = up[s]
        /\ \A s \in SnapId :
             up[s] = {s} \cup IF HasParent(snaps, s) THEN up[snaps[s]] ELSE {}
  BY ChainEquation
<1>2. \A s \in SnapId : HasParent(snaps, s) => snaps[s] \in s + 1 .. ROOT_SNAP /\ snaps[s] \in SnapId
  BY SnapshotConstants DEF HasParent, IsMeta, SnapId
<1>3. \A s \in SnapId : Closed(snaps, up[s])
  <2> DEFINE G == {s \in SnapId : Closed(snaps, up[s])}
  <2>1. ASSUME NEW s \in 1 .. ROOT_SNAP, \A t \in s + 1 .. ROOT_SNAP : t \in G PROVE s \in G
    <3>1. s \in SnapId
      BY DEF SnapId
    <3>2. CASE HasParent(snaps, s)
      <4>1. snaps[s] \in SnapId /\ Closed(snaps, up[snaps[s]]) /\ snaps[s] \in up[snaps[s]]
        BY <1>1, <1>2, <2>1, <3>1, <3>2
      <4>2. up[s] = {s} \cup up[snaps[s]]
        BY <1>1, <3>1, <3>2
      <4> QED
        BY <3>1, <4>1, <4>2 DEF Closed
    <3>3. CASE ~ HasParent(snaps, s)
      <4>1. up[s] = {s}
        BY <1>1, <3>1, <3>3
      <4> QED
        BY <3>1, <3>3, <4>1 DEF Closed
    <3> QED
      BY <3>2, <3>3
  <2> HIDE DEF G
  <2>2. \A s \in 1 .. ROOT_SNAP : s \in G
    BY <2>1, SnapshotConstants, Downwards
  <2> QED
    BY <2>2 DEF G, SnapId
<1>4. ASSUME NEW C \in SUBSET SnapId, Closed(snaps, C)
      PROVE  \A s \in SnapId : s \in C => up[s] \subseteq C
  <2> DEFINE G == {s \in SnapId : s \in C => up[s] \subseteq C}
  <2>1. ASSUME NEW s \in 1 .. ROOT_SNAP, \A t \in s + 1 .. ROOT_SNAP : t \in G PROVE s \in G
    <3>1. s \in SnapId
      BY DEF SnapId
    <3>2. SUFFICES ASSUME s \in C PROVE up[s] \subseteq C
      BY <3>1
    <3>3. CASE HasParent(snaps, s)
      <4>1. snaps[s] \in C /\ up[snaps[s]] \subseteq C
        BY <1>2, <1>4, <2>1, <3>1, <3>2, <3>3 DEF Closed
      <4> QED
        BY <1>1, <3>1, <3>2, <4>1
    <3>4. CASE ~ HasParent(snaps, s)
      BY <1>1, <3>1, <3>2, <3>4
    <3> QED
      BY <3>3, <3>4
  <2> HIDE DEF G
  <2>2. \A s \in 1 .. ROOT_SNAP : s \in G
    BY <2>1, SnapshotConstants, Downwards
  <2> QED
    BY <2>2 DEF G, SnapId
<1> QED
  BY <1>1, <1>3, <1>4

\* Two trees that agree on a set closed in one of them have the same chains there.
LEMMA SameChain ==
  ASSUME NEW snaps, IsMeta(snaps), NEW snaps2, IsMeta(snaps2), NEW C \in SUBSET SnapId,
         NEW snap \in C, Closed(snaps, C),
         \A s \in C : /\ HasParent(snaps, s) <=> HasParent(snaps2, s)
                      /\ HasParent(snaps, s) => snaps2[s] = snaps[s]
  PROVE  ancestor_chain(snaps2, snap) = ancestor_chain(snaps, snap)
<1> DEFINE A == ancestor_chain(snaps, snap)
           B == ancestor_chain(snaps2, snap)
<1>1. /\ A \in SUBSET SnapId /\ snap \in A /\ Closed(snaps, A)
      /\ \A D \in SUBSET SnapId : snap \in D /\ Closed(snaps, D) => A \subseteq D
  BY ChainIsLeast
<1>2. /\ B \in SUBSET SnapId /\ snap \in B /\ Closed(snaps2, B)
      /\ \A D \in SUBSET SnapId : snap \in D /\ Closed(snaps2, D) => B \subseteq D
  BY ChainIsLeast
<1> HIDE DEF A, B
<1>3. A \subseteq C
  BY <1>1
<1>4. Closed(snaps2, A)
  BY <1>1, <1>3 DEF Closed
<1>5. B \subseteq A
  BY <1>1, <1>2, <1>4
<1>6. Closed(snaps, B)
  BY <1>2, <1>3, <1>5 DEF Closed
<1>7. A \subseteq B
  BY <1>1, <1>2, <1>6
<1> QED
  BY <1>5, <1>7 DEF A, B
-----------------------------------------------------------------------------
(***************************************************************************)
(* sweep_unreferenced_snapshots.                                           *)
(***************************************************************************)
Metas(S) == UNION {[D -> SnapId \cup {NO_PARENT_SNAP}] : D \in SUBSET S}

Round(snaps, svs) == Restrict(snaps, DOMAIN snaps \ Candidates(snaps, svs))

\* The rounds of the sweep.
LEMMA SweepRounds ==
  ASSUME NEW S \in SUBSET SnapId, NEW snaps \in [S -> SnapId \cup {NO_PARENT_SNAP}], NEW svs
  PROVE  \E after \in [0 .. ROOT_SNAP -> Metas(S)] :
           /\ after[0] = snaps
           /\ \A n \in 1 .. ROOT_SNAP : after[n] = Round(after[n - 1], svs)
           /\ sweep_unreferenced_snapshots(snaps, svs) = after[ROOT_SNAP]
<1> DEFINE N == ROOT_SNAP
           Eq(f) == f = [n \in 0 .. N |->
                           IF n = 0 THEN snaps
                           ELSE Restrict(f[n - 1], DOMAIN f[n - 1] \ Candidates(f[n - 1], svs))]
           after == CHOOSE f : Eq(f)
           F == [g \in Metas(S) |-> Round(g, svs)]
<1>1. N \in Nat
  BY SnapshotConstants
<1>2. snaps \in Metas(S)
  BY DEF Metas
<1>3. F \in [Metas(S) -> Metas(S)]
  <2> SUFFICES ASSUME NEW g \in Metas(S) PROVE Round(g, svs) \in Metas(S)
    OBVIOUS
  <2>1. PICK D \in SUBSET S : g \in [D -> SnapId \cup {NO_PARENT_SNAP}]
    BY DEF Metas
  <2> DEFINE E == DOMAIN g \ Candidates(g, svs)
  <2>2. E \in SUBSET S /\ E \subseteq D
    BY <2>1
  <2> HIDE DEF E
  <2>3. Restrict(g, E) \in [E -> SnapId \cup {NO_PARENT_SNAP}]
    BY <2>1, <2>2 DEF Restrict
  <2> QED
    BY <2>2, <2>3 DEF Round, Metas, E
<1>4. PICK f \in [0 .. N -> Metas(S)] : f[0] = snaps /\ \A n \in 1 .. N : f[n] = F[f[n - 1]]
  <2> DEFINE M == Metas(S)
  <2>1. snaps \in M /\ F \in [M -> M]
    BY <1>2, <1>3
  <2> HIDE DEF F, N, M
  <2>2. \E f \in [0 .. N -> M] : Iterated(f, N, snaps, F)
    BY <1>1, <2>1, Iterates, Zenon
  <2> QED
    BY <2>2 DEF M, Iterated
<1>5. \A n \in 1 .. N : n \in 0 .. N /\ n - 1 \in 0 .. N /\ n # 0
  BY <1>1
<1>6. \A n \in 1 .. N : f[n] = Restrict(f[n - 1], DOMAIN f[n - 1] \ Candidates(f[n - 1], svs))
  BY <1>4, <1>5 DEF Round
<1>7. Eq(f)
  <2>1. \A n \in 0 .. N : n = 0 \/ n \in 1 .. N
    BY <1>1
  <2> HIDE DEF N
  <2> QED
    BY <1>4, <1>6, <2>1
<1>8. Eq(after)
  <2> HIDE DEF Eq
  <2> QED
    BY <1>7
<1>9. sweep_unreferenced_snapshots(snaps, svs) = after[N]
  BY DEF sweep_unreferenced_snapshots
<1> HIDE DEF after, N
<1>10. /\ after[0] = snaps
       /\ \A n \in 1 .. N : after[n] = Round(after[n - 1], svs)
  <2>1. 0 \in 0 .. N
    BY <1>1
  <2> QED
    BY <1>5, <1>8, <2>1 DEF Round
<1>11. after \in [0 .. N -> Metas(S)]
  <2> DEFINE G == {n \in 0 .. N : after[n] \in Metas(S)}
  <2>1. 0 \in G
    BY <1>1, <1>2, <1>10
  <2>2. ASSUME NEW n \in 1 .. N, n - 1 \in G PROVE n \in G
    BY <1>3, <1>5, <1>10, <2>2
  <2> HIDE DEF G
  <2>3. \A n \in 0 .. N : n \in G
    BY <1>1, <2>1, <2>2, Rounds
  <2> QED
    BY <1>8, <2>3 DEF G
<1> QED
  BY <1>9, <1>10, <1>11 DEF N

(***************************************************************************)
(* What the sweep leaves of the snapshots: the root, those of the          *)
(* subvolumes, the parents of those it leaves, and no candidate.           *)
(***************************************************************************)
Swept(r, snaps, svs) ==
  /\ DOMAIN r \subseteq DOMAIN snaps
  /\ \A s \in DOMAIN r : r[s] = snaps[s]
  /\ ROOT_SNAP \in DOMAIN snaps => ROOT_SNAP \in DOMAIN r
  /\ \A id \in DOMAIN svs : svs[id].snap_id \in DOMAIN snaps => svs[id].snap_id \in DOMAIN r
  /\ \A s \in DOMAIN r : snaps[s] \in DOMAIN snaps => snaps[s] \in DOMAIN r

\* A round takes candidates only.
LEMMA RoundSwept ==
  ASSUME NEW g, NEW snaps, NEW svs, Swept(g, snaps, svs)
  PROVE  Swept(Round(g, svs), snaps, svs)
<1> DEFINE r == Round(g, svs)
<1>1. DOMAIN r = DOMAIN g \ Candidates(g, svs) /\ \A s \in DOMAIN r : r[s] = g[s]
  BY DEF Round, Restrict
<1>2. /\ ROOT_SNAP \notin Candidates(g, svs)
      /\ \A id \in DOMAIN svs : svs[id].snap_id \notin Candidates(g, svs)
      /\ \A s \in DOMAIN g : g[s] \notin Candidates(g, svs)
  BY DEF Candidates
<1> HIDE DEF r
<1> QED
  BY <1>1, <1>2 DEF Swept, r

\* A candidate after a round was not one before: the round took a child of it.
LEMMA RoundProgress ==
  ASSUME NEW g, NEW svs, NEW s \in Candidates(Round(g, svs), svs)
  PROVE  \E c \in Candidates(g, svs) : g[c] = s
<1> DEFINE r == Round(g, svs)
<1>1. DOMAIN r = DOMAIN g \ Candidates(g, svs) /\ \A c \in DOMAIN r : r[c] = g[c]
  BY DEF Round, Restrict
<1> HIDE DEF r
<1>2. s \in DOMAIN r /\ s # ROOT_SNAP /\ \A id \in DOMAIN svs : svs[id].snap_id # s
  BY DEF Candidates, r
<1>3. s \in DOMAIN g /\ s \notin Candidates(g, svs)
  BY <1>1, <1>2
<1>4. PICK c \in DOMAIN g : g[c] = s
  BY <1>2, <1>3 DEF Candidates
<1>5. c \notin DOMAIN r
  BY <1>1, <1>4 DEF Candidates, r
<1> QED
  BY <1>1, <1>4, <1>5

(***************************************************************************)
(* The sweep stops when no candidate is left: parents are larger, so the   *)
(* candidates of round n are larger than n, and ROOT_SNAP rounds are       *)
(* enough.                                                                 *)
(***************************************************************************)
LEMMA SweepResult ==
  ASSUME NEW S \in SUBSET SnapId, NEW snaps \in [S -> SnapId \cup {NO_PARENT_SNAP}], NEW svs,
         \A s \in S : snaps[s] = NO_PARENT_SNAP \/ snaps[s] > s
  PROVE  /\ sweep_unreferenced_snapshots(snaps, svs) \in Metas(S)
         /\ Swept(sweep_unreferenced_snapshots(snaps, svs), snaps, svs)
         /\ Candidates(sweep_unreferenced_snapshots(snaps, svs), svs) = {}
<1> DEFINE N == ROOT_SNAP
<1>1. PICK after \in [0 .. N -> Metas(S)] :
        /\ after[0] = snaps
        /\ \A n \in 1 .. N : after[n] = Round(after[n - 1], svs)
        /\ sweep_unreferenced_snapshots(snaps, svs) = after[N]
  BY SweepRounds
<1>2. N \in Nat
  BY SnapshotConstants
<1>3. SnapId = 1 .. N
  BY DEF SnapId
<1> HIDE DEF N
<1>4. \A n \in 1 .. N : n \in 0 .. N /\ n - 1 \in 0 .. N
  BY <1>2
<1>5. \A n \in 0 .. N : Swept(after[n], snaps, svs)
  <2> DEFINE G == {n \in 0 .. N : Swept(after[n], snaps, svs)}
  <2>1. 0 \in G
    BY <1>1, <1>2 DEF Swept
  <2>2. ASSUME NEW n \in 1 .. N, n - 1 \in G PROVE n \in G
    <3>1. Swept(Round(after[n - 1], svs), snaps, svs)
      BY <2>2, RoundSwept
    <3> QED
      BY <1>1, <1>4, <3>1
  <2> HIDE DEF G
  <2>3. \A n \in 0 .. N : n \in G
    BY <1>2, <2>1, <2>2, Rounds
  <2> QED
    BY <2>3 DEF G
<1>6. \A n \in 0 .. N : \A s \in Candidates(after[n], svs) : s \in SnapId /\ s > n
  <2> DEFINE G == {n \in 0 .. N : \A s \in Candidates(after[n], svs) : s \in SnapId /\ s > n}
  <2>1. 0 \in G
    <3>1. \A s \in Candidates(snaps, svs) : s \in SnapId
      BY DEF Candidates
    <3> QED
      BY <1>1, <1>2, <1>3, <3>1
  <2>2. ASSUME NEW n \in 1 .. N, n - 1 \in G PROVE n \in G
    <3> SUFFICES ASSUME NEW s \in Candidates(after[n], svs) PROVE s \in SnapId /\ s > n
      BY <1>4
    <3>1. PICK c \in Candidates(after[n - 1], svs) : after[n - 1][c] = s
      BY <1>1, RoundProgress
    <3>2. c \in SnapId /\ c > n - 1
      BY <2>2
    <3>3. c \in DOMAIN after[n - 1] /\ s \in DOMAIN after[n]
      BY <3>1 DEF Candidates
    <3>4. c \in S /\ snaps[c] = s /\ s \in S
      BY <1>4, <1>5, <3>1, <3>3 DEF Swept
    <3>5. s # NO_PARENT_SNAP /\ s \in SnapId
      BY <1>2, <1>3, <3>4 DEF NO_PARENT_SNAP
    <3>6. s > c
      BY <3>4, <3>5
    <3> QED
      BY <1>2, <1>3, <3>2, <3>5, <3>6
  <2> HIDE DEF G
  <2>3. \A n \in 0 .. N : n \in G
    BY <1>2, <2>1, <2>2, Rounds
  <2> QED
    BY <2>3 DEF G
<1>7. N \in 0 .. N
  BY <1>2
<1>8. Candidates(after[N], svs) = {}
  <2> SUFFICES ASSUME NEW s \in Candidates(after[N], svs) PROVE FALSE
    OBVIOUS
  <2>1. s \in SnapId /\ s > N
    BY <1>6, <1>7
  <2> QED
    BY <1>2, <1>3, <2>1
<1> QED
  BY <1>1, <1>5, <1>7, <1>8

\* The functions of Metas.
LEMMA MetasFacts ==
  ASSUME NEW S \in SUBSET SnapId, NEW snaps \in Metas(S)
  PROVE  /\ DOMAIN snaps \in SUBSET S
         /\ snaps \in [DOMAIN snaps -> SnapId \cup {NO_PARENT_SNAP}]
         /\ IsMeta(snaps)
<1>1. PICK D \in SUBSET S : snaps \in [D -> SnapId \cup {NO_PARENT_SNAP}]
  BY DEF Metas
<1>2. DOMAIN snaps = D
  BY <1>1
<1> QED
  BY <1>1, <1>2 DEF IsMeta
-----------------------------------------------------------------------------
(***************************************************************************)
(* Visibility.                                                             *)
(***************************************************************************)
\* The least member of a nonempty set of numbers.
LEMMA MinOf ==
  ASSUME NEW T \in SUBSET Nat, T # {}
  PROVE  Min(T) \in T /\ \A y \in T : Min(T) <= y
BY LeastNumber DEF Min

SameOn(t, t2, k, chain) == \A s \in chain : t2[k][s] = t[k][s]

SameShown(t, t2, k, chain) == find_visible(t2, k, chain) = find_visible(t, k, chain)

\* What is visible depends on the versions on the chain only.
LEMMA SameVisible ==
  ASSUME NEW t, NEW t2, NEW k, NEW chain \in SUBSET SnapId, SameOn(t, t2, k, chain)
  PROVE  SameShown(t, t2, k, chain)
<1> USE DEF SameOn, SameShown
<1> DEFINE V == Versions(t, k, chain)
<1>1. Versions(t2, k, chain) = V
  BY DEF Versions
<1>2. V \in SUBSET Nat /\ V \subseteq chain
  BY DEF Versions, SnapId
<1> HIDE DEF V
<1>3. CASE V = {}
  BY <1>1, <1>3 DEF find_visible, V
<1>4. CASE V # {}
  <2>1. Min(V) \in chain
    BY <1>2, <1>4, MinOf
  <2>2. t2[k][Min(V)] = t[k][Min(V)]
    BY <2>1
  <2> QED
    BY <1>1, <2>2 DEF find_visible, V
<1> QED
  BY <1>3, <1>4

\* A version at the head of the chain decides.
LEMMA HeadDecides ==
  ASSUME NEW t, NEW k, NEW chain \in SUBSET SnapId, NEW head \in chain,
         \A s \in chain : head <= s, t[k][head] # NoEntry
  PROVE  find_visible(t, k, chain) = IF t[k][head].kind = "Live" THEN t[k][head] ELSE NoEntry
<1> DEFINE V == Versions(t, k, chain)
<1>1. V \in SUBSET Nat /\ head \in V /\ V \subseteq chain
  <2>1. head \in V /\ V \subseteq chain
    BY DEF Versions
  <2>2. SnapId \subseteq Nat
    BY DEF SnapId
  <2> QED
    BY <2>1, <2>2
<1> HIDE DEF V
<1>2. Min(V) \in V /\ Min(V) <= head
  BY <1>1, MinOf
<1>3. Min(V) = head
  BY <1>1, <1>2
<1> QED
  BY <1>1, <1>3 DEF find_visible, V

\* What is visible is a live entry.
LEMMA VisibleIsLive ==
  ASSUME NEW t \in Tree, NEW k \in Keys, NEW chain \in SUBSET SnapId,
         find_visible(t, k, chain) # NoEntry
  PROVE  find_visible(t, k, chain).value # None
<1> DEFINE V == Versions(t, k, chain)
<1>1. V \in SUBSET Nat /\ V \subseteq SnapId
  <2>1. V \subseteq chain
    BY DEF Versions
  <2>2. SnapId \subseteq Nat
    BY DEF SnapId
  <2> QED
    BY <2>1, <2>2
<1> HIDE DEF V
<1>2. V # {} /\ find_visible(t, k, chain) = t[k][Min(V)] /\ t[k][Min(V)].kind = "Live"
  BY DEF find_visible, V
<1>3. Min(V) \in SnapId
  BY <1>1, <1>2, MinOf
<1>4. t[k][Min(V)] \in Entry
  BY <1>3 DEF Tree
<1>5. \A e \in Entry : e.kind = "Live" => e.value \in Values
  BY DEF Entry, Live, Deleted, Whiteout, NoEntry
<1> QED
  BY <1>2, <1>4, <1>5, SnapshotConstants
=============================================================================
