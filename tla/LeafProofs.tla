----------------------------- MODULE LeafProofs ------------------------------
(***************************************************************************)
(* Proofs about module LeafNode, for any number of keys, bsets, entries    *)
(* and leaves: a search finds what was written last, and a leaf never      *)
(* outgrows its block.                                                     *)
(***************************************************************************)
EXTENDS LeafNode, Induction, FiniteSetTheorems

EntryMap == UNION {[D -> Entries] : D \in SUBSET Keys}

Bsets(next) == [seq : 0 .. next - 1, entries : EntryMap, needs_whiteout : BOOLEAN]

Flagged(bset) == HasWhiteout(bset.entries) => bset.needs_whiteout

(***************************************************************************)
(* Of a leaf: seqs grow from bset to bset and are below the next one, and  *)
(* every bset with a whiteout is flagged.                                  *)
(***************************************************************************)
NodeOK(node, next) ==
  /\ next \in Nat
  /\ node \in Seq(Bsets(next))
  /\ Len(node) \in 1 .. BSET_TREE_NR_MAX
  /\ \A b, c \in 1 .. Len(node) : b < c => node[b].seq < node[c].seq
  /\ \A b \in 1 .. Len(node) : Flagged(node[b])

\* What a search for k in this leaf returns, as a set of at most one entry.
Shows(node, k) == IF Hits(node, k) = {} THEN {} ELSE {node[merged_find(node, k)].entries[k]}

Stored(node) == {k \in Keys : Hits(node, k) # {}}

\* The bset is the last one with a copy of k.
Newest(node, k, b) == b \in Hits(node, k) /\ \A c \in Hits(node, k) : c <= b
-----------------------------------------------------------------------------
\* The entries of a bset.
LEMMA EntryMapFacts ==
  ASSUME NEW f \in EntryMap
  PROVE  /\ DOMAIN f \in SUBSET Keys
         /\ f \in [DOMAIN f -> Entries]
<1>1. PICK D \in SUBSET Keys : f \in [D -> Entries]
  BY DEF EntryMap
<1> QED
  BY <1>1

\* The bsets of a leaf.
LEMMA NodeFacts ==
  ASSUME NEW node, NEW next, NodeOK(node, next)
  PROVE  /\ Len(node) \in Nat \ {0} /\ DOMAIN node = 1 .. Len(node) /\ node # <<>>
         /\ \A b \in 1 .. Len(node) :
              /\ node[b] \in Bsets(next)
              /\ node[b].entries \in EntryMap
              /\ DOMAIN node[b].entries \in SUBSET Keys
              /\ node[b].seq \in 0 .. next - 1
         /\ \A k : Hits(node, k) \subseteq 1 .. Len(node)
<1>1. /\ Len(node) \in Nat \ {0} /\ DOMAIN node = 1 .. Len(node) /\ node # <<>>
      /\ \A b \in 1 .. Len(node) : node[b] \in Bsets(next)
  BY LeafConstants DEF NodeOK
<1>2. \A b \in 1 .. Len(node) : node[b].entries \in EntryMap /\ node[b].seq \in 0 .. next - 1
  BY <1>1 DEF Bsets
<1>3. \A b \in 1 .. Len(node) : DOMAIN node[b].entries \in SUBSET Keys
  BY <1>2, EntryMapFacts
<1>4. \A k : Hits(node, k) \subseteq 1 .. Len(node)
  BY <1>1 DEF Hits
<1> QED
  BY <1>1, <1>2, <1>3, <1>4

\* merged_find takes the last bset with a copy of the key.
LEMMA FindsNewest ==
  ASSUME NEW node, NEW next, NodeOK(node, next), NEW k, Hits(node, k) # {}
  PROVE  Newest(node, k, merged_find(node, k))
<1> DEFINE H == Hits(node, k)
           n == Len(node)
           Good(b) == \A c \in H : node[b].seq > node[c].seq \/ (node[b].seq = node[c].seq /\ b <= c)
<1>1. H \subseteq 1 .. n /\ n \in Nat
  BY NodeFacts
<1>2. \A b, c \in 1 .. n : b < c => node[b].seq < node[c].seq
  BY DEF NodeOK
<1>3. \A b \in 1 .. n : node[b].seq \in Nat
  BY NodeFacts DEF NodeOK
<1>4. merged_find(node, k) = CHOOSE b \in H : Good(b)
  BY DEF merged_find
<1> HIDE DEF H, n
<1>5. PICK m \in H : \A c \in H : c <= m
  <2> DEFINE T == {n - b : b \in H}
  <2>1. T \in SUBSET Nat /\ T # {}
    BY <1>1 DEF H
  <2>2. PICK x \in T : \A y \in T : x <= y
    <3> HIDE DEF T
    <3> QED
      BY <2>1, LeastNumber
  <2>3. PICK m \in H : x = n - m
    BY <2>2
  <2>4. \A c \in H : n - m <= n - c
    BY <2>2, <2>3
  <2> QED
    BY <1>1, <2>3, <2>4
<1>6. Good(m)
  <2> SUFFICES ASSUME NEW c \in H
               PROVE  node[m].seq > node[c].seq \/ (node[m].seq = node[c].seq /\ m <= c)
    OBVIOUS
  <2>1. m \in 1 .. n /\ c \in 1 .. n /\ c <= m
    BY <1>1, <1>5
  <2>2. CASE c = m
    BY <2>1, <2>2
  <2>3. CASE c < m
    BY <1>2, <1>3, <2>1, <2>3
  <2> QED
    BY <2>1, <2>2, <2>3
<1>7. \E b \in H : Good(b)
  BY <1>6
<1>8. merged_find(node, k) \in H /\ Good(merged_find(node, k))
  <2> HIDE DEF Good
  <2> QED
    BY <1>4, <1>7
<1> DEFINE f == merged_find(node, k)
<1> HIDE DEF f
<1>9. ASSUME NEW c \in H PROVE c <= f
  <2>1. f \in 1 .. n /\ c \in 1 .. n
    BY <1>1, <1>8 DEF f
  <2>2. ~ (f < c)
    BY <1>2, <1>3, <1>8, <2>1 DEF f
  <2> QED
    BY <1>1, <2>1, <2>2
<1> QED
  BY <1>8, <1>9 DEF Newest, H, f

\* The newest copy is what shows.
LEMMA NewestShows ==
  ASSUME NEW node, NEW next, NodeOK(node, next), NEW k, NEW b, Newest(node, k, b)
  PROVE  Shows(node, k) = {node[b].entries[k]}
<1>1. Hits(node, k) # {} /\ Hits(node, k) \subseteq 1 .. Len(node) /\ Len(node) \in Nat
  BY NodeFacts DEF Newest
<1>2. Newest(node, k, merged_find(node, k))
  BY <1>1, FindsNewest
<1>3. merged_find(node, k) = b
  BY <1>1, <1>2 DEF Newest
<1> QED
  BY <1>1, <1>3 DEF Shows

\* The copies of k are the same in node2, which may have more bsets.
SameCopies(node, node2, k) ==
  /\ Len(node) <= Len(node2)
  /\ \A b \in 1 .. Len(node) :
       /\ k \in DOMAIN node2[b].entries <=> k \in DOMAIN node[b].entries
       /\ k \in DOMAIN node[b].entries => node2[b].entries[k] = node[b].entries[k]
  /\ \A b \in Len(node) + 1 .. Len(node2) : k \notin DOMAIN node2[b].entries

SameShown(node, node2, k) == Hits(node2, k) = Hits(node, k) /\ Shows(node2, k) = Shows(node, k)

\* A key that is not touched shows what it did.
LEMMA SameShows ==
  ASSUME NEW node, NEW next, NodeOK(node, next), NEW node2, NEW next2, NodeOK(node2, next2),
         NEW k, SameCopies(node, node2, k)
  PROVE  SameShown(node, node2, k)
<1>1. /\ Len(node) \in Nat /\ DOMAIN node = 1 .. Len(node)
      /\ Len(node2) \in Nat /\ DOMAIN node2 = 1 .. Len(node2)
  BY NodeFacts
<1>2. \A b : b \in Hits(node2, k) <=> b \in Hits(node, k)
  BY <1>1 DEF SameCopies, Hits
<1>3. Hits(node2, k) = Hits(node, k)
  BY <1>2
<1>4. CASE Hits(node, k) = {}
  BY <1>3, <1>4 DEF SameShown, Shows
<1>5. CASE Hits(node, k) # {}
  <2> DEFINE m == merged_find(node, k)
  <2>1. Newest(node, k, m)
    BY <1>5, FindsNewest
  <2> HIDE DEF m
  <2>2. Newest(node2, k, m)
    BY <1>3, <2>1 DEF Newest
  <2>3. Shows(node, k) = {node[m].entries[k]}
    BY <2>1, NewestShows
  <2>4. Shows(node2, k) = {node2[m].entries[k]}
    BY <2>2, NewestShows
  <2>5. m \in 1 .. Len(node) /\ k \in DOMAIN node[m].entries
    BY <1>1, <2>1 DEF Newest, Hits
  <2>6. node2[m].entries[k] = node[m].entries[k]
    BY <2>5 DEF SameCopies
  <2> QED
    BY <1>3, <2>3, <2>4, <2>6 DEF SameShown
<1> QED
  BY <1>4, <1>5

\* The keys are finitely many, and so are the copies in a leaf.
LEMMA CopiesFinite ==
  ASSUME NEW node, NEW next, NodeOK(node, next)
  PROVE  /\ IsFiniteSet(Copies(node)) /\ nkeys(node) \in Nat
         /\ IsFiniteSet(Keys)
         /\ \A S \in SUBSET Keys : IsFiniteSet(S) /\ Cardinality(S) \in Nat
<1>1. IsFiniteSet(Keys)
  BY LeafConstants, FS_Interval DEF Keys
<1>2. IsFiniteSet(DOMAIN node)
  BY NodeFacts, FS_Interval
<1>3. IsFiniteSet((DOMAIN node) \X Keys)
  BY <1>1, <1>2, FS_Product
<1>4. IsFiniteSet(Copies(node))
  BY <1>3, FS_Subset DEF Copies
<1>5. \A S \in SUBSET Keys : IsFiniteSet(S)
  BY <1>1, FS_Subset
<1> QED
  BY <1>1, <1>4, <1>5, FS_CardinalityType DEF nkeys

\* The leaf shows the entries f and no others, with one copy of each.
ShowsExactly(node, f) ==
  /\ \A k : Shows(node, k) = IF k \in DOMAIN f THEN {f[k]} ELSE {}
  /\ Stored(node) = DOMAIN f
  /\ nkeys(node) = Cardinality(DOMAIN f)

\* A leaf of one bset.
LEMMA SingleBset ==
  ASSUME NEW next \in Nat, NEW x \in Bsets(next), Flagged(x), NEW f, f = x.entries,
         NEW node, node = <<x>>
  PROVE  NodeOK(node, next) /\ ShowsExactly(node, f)
<1>1. x.entries = f /\ f \in EntryMap
  BY DEF Bsets
<1>4. Len(node) = 1 /\ DOMAIN node = {1} /\ node[1] = x /\ node \in Seq(Bsets(next))
  OBVIOUS
<1>5. NodeOK(node, next)
  <2>2. 1 .. Len(node) = {1} /\ Len(node) \in 1 .. BSET_TREE_NR_MAX
    BY <1>4, LeafConstants
  <2> QED
    BY <1>4, <2>2 DEF NodeOK
<1>6. \A k : Hits(node, k) = IF k \in DOMAIN f THEN {1} ELSE {}
  BY <1>1, <1>4 DEF Hits
<1>7. \A k : Shows(node, k) = IF k \in DOMAIN f THEN {f[k]} ELSE {}
  <2> TAKE k
  <2>1. CASE k \in DOMAIN f
    <3>1. Newest(node, k, 1)
      BY <1>6, <2>1 DEF Newest
    <3>2. Shows(node, k) = {node[1].entries[k]}
      BY <1>5, <3>1, NewestShows
    <3> QED
      BY <1>1, <1>4, <2>1, <3>2
  <2>2. CASE k \notin DOMAIN f
    BY <1>6, <2>2 DEF Shows
  <2> QED
    BY <2>1, <2>2
<1>8. DOMAIN f \in SUBSET Keys
  BY <1>1, EntryMapFacts
<1>9. Stored(node) = DOMAIN f
  BY <1>6, <1>8 DEF Stored
<1>10. nkeys(node) = Cardinality(DOMAIN f)
  <2> DEFINE C == Copies(node)
             g == [k \in DOMAIN f |-> <<1, k>>]
  <2>1. \A c : c \in C <=> \E k \in DOMAIN f : c = <<1, k>>
    BY <1>1, <1>4, <1>8 DEF Copies
  <2>2. g \in [DOMAIN f -> C]
    BY <2>1
  <2>3. \A j, k \in DOMAIN f : g[j] = g[k] => j = k
    OBVIOUS
  <2>4. \A c \in C : \E k \in DOMAIN f : g[k] = c
    BY <2>1
  <2> HIDE DEF g, C
  <2>5. g \in Bijection(DOMAIN f, C)
    BY <2>2, <2>3, <2>4 DEF Bijection, Injection, Surjection, IsInjective
  <2>6. ExistsBijection(DOMAIN f, C)
    BY <2>5 DEF ExistsBijection
  <2>7. IsFiniteSet(DOMAIN f)
    BY <1>5, <1>8, CopiesFinite
  <2> QED
    BY <2>6, <2>7, FS_Bijection DEF nkeys, C
<1> QED
  BY <1>5, <1>7, <1>9, <1>10 DEF ShowsExactly

\* The merged view of a leaf: the copies that show.
LEMMA ViewFacts ==
  ASSUME NEW node, NEW next, NodeOK(node, next), NEW view, view = MergedView(node)
  PROVE  /\ view \in EntryMap
         /\ DOMAIN view = Stored(node)
         /\ \A k \in Stored(node) : Shows(node, k) = {view[k]}
         /\ \A k : k \notin Stored(node) => Shows(node, k) = {}
         /\ Cardinality(Stored(node)) <= nkeys(node)
<1>1. /\ DOMAIN node = 1 .. Len(node)
      /\ \A b \in 1 .. Len(node) : /\ node[b].entries \in EntryMap
                                   /\ DOMAIN node[b].entries \in SUBSET Keys
  BY NodeFacts
<1>2. \A k : Hits(node, k) # {} => k \in Keys
  BY <1>1 DEF Hits
<1>3. DOMAIN view = Stored(node)
  <2>1. DOMAIN view = UNION {DOMAIN node[b].entries : b \in DOMAIN node}
    BY DEF MergedView
  <2>2. \A k : k \in UNION {DOMAIN node[b].entries : b \in DOMAIN node} <=> Hits(node, k) # {}
    BY DEF Hits
  <2> QED
    BY <1>2, <2>1, <2>2 DEF Stored
<1>4. ASSUME NEW k \in Stored(node) PROVE Shows(node, k) = {view[k]} /\ view[k] \in Entries
  <2> DEFINE m == merged_find(node, k)
  <2>1. view[k] = node[m].entries[k]
    BY <1>3 DEF MergedView
  <2>2. Newest(node, k, m) /\ Shows(node, k) = {node[m].entries[k]}
    BY FindsNewest DEF Stored, Shows
  <2> HIDE DEF m
  <2>3. m \in 1 .. Len(node) /\ k \in DOMAIN node[m].entries
    BY <1>1, <2>2 DEF Newest, Hits
  <2>4. node[m].entries[k] \in Entries
    BY <1>1, <2>3, EntryMapFacts
  <2> QED
    BY <2>1, <2>2, <2>4
<1>5. view \in EntryMap
  <2>1. view \in [Stored(node) -> Entries]
    <3>1. view = [k \in DOMAIN view |-> view[k]]
      BY DEF MergedView
    <3> QED
      BY <1>3, <1>4, <3>1
  <2>2. Stored(node) \in SUBSET Keys
    BY DEF Stored
  <2> QED
    BY <2>1, <2>2 DEF EntryMap
<1>6. \A k : k \notin Stored(node) => Shows(node, k) = {}
  BY <1>2 DEF Stored, Shows
<1>7. Cardinality(Stored(node)) <= nkeys(node)
  <2> DEFINE g == [c \in Copies(node) |-> c[2]]
  <2>1. g \in [Copies(node) -> Stored(node)]
    BY DEF Copies, Stored, Hits
  <2>2. \A k \in Stored(node) : \E c \in Copies(node) : g[c] = k
    <3> TAKE k \in Stored(node)
    <3>1. PICK b \in DOMAIN node : k \in DOMAIN node[b].entries
      BY DEF Stored, Hits
    <3>2. <<b, k>> \in Copies(node)
      BY <3>1 DEF Copies, Stored
    <3>3. g[<<b, k>>] = k
      BY <3>2
    <3> QED
      BY <3>2, <3>3
  <2> HIDE DEF g
  <2>3. g \in Surjection(Copies(node), Stored(node))
    BY <2>1, <2>2 DEF Surjection
  <2> QED
    BY <2>3, CopiesFinite, FS_Surjection DEF nkeys
<1> QED
  BY <1>3, <1>4, <1>5, <1>6, <1>7
-----------------------------------------------------------------------------
\* A leaf stays good as seqs are allocated.
LEMMA NodeGrows ==
  ASSUME NEW node, NEW next, NodeOK(node, next), NEW next2 \in Nat, next <= next2
  PROVE  NodeOK(node, next2)
<1>1. next \in Nat /\ node \in Seq(Bsets(next))
  BY DEF NodeOK
<1>2. Bsets(next) \subseteq Bsets(next2)
  <2>1. 0 .. next - 1 \subseteq 0 .. next2 - 1
    BY <1>1
  <2> QED
    BY <2>1 DEF Bsets
<1>3. node \in Seq(Bsets(next2))
  BY <1>1, <1>2
<1> QED
  BY <1>3 DEF NodeOK

\* g is f with k bound to e.
Bound(f, k, e, g) ==
  /\ g \in EntryMap
  /\ DOMAIN g = DOMAIN f \cup {k}
  /\ g[k] = e
  /\ \A x \in DOMAIN f : x # k => g[x] = f[x]
  /\ HasWhiteout(g) => HasWhiteout(f) \/ e = Whiteout

\* What With does.
LEMMA WithFacts ==
  ASSUME NEW f \in EntryMap, NEW k \in Keys, NEW e \in Entries
  PROVE  Bound(f, k, e, With(f, k, e))
<1> DEFINE g == With(f, k, e)
<1>1. DOMAIN f \in SUBSET Keys /\ f \in [DOMAIN f -> Entries]
  BY EntryMapFacts
<1>2. g \in [DOMAIN f \cup {k} -> Entries]
  BY <1>1 DEF With
<1>3. g \in EntryMap
  BY <1>1, <1>2 DEF EntryMap
<1> QED
  BY <1>3 DEF With, HasWhiteout, Bound

\* Bset b is replaced by x.
Replaced(node, next, node2, b, x) ==
  /\ node2 \in Seq(Bsets(next)) /\ Len(node2) = Len(node)
  /\ node2[b] = x
  /\ \A c \in 1 .. Len(node) : c # b => node2[c] = node[c]

\* Bset b, the last one with a copy of k if there is one, now says e of k.
Rewritten(node, node2, b, k, e) ==
  /\ \A x : Shows(node2, x) = IF x = k THEN {e} ELSE Shows(node, x)
  /\ Copies(node2) = Copies(node) \cup {<<b, k>>}

\* A write to the last bset with a copy of k, or to a later one.
LEMMA RewriteBset ==
  ASSUME NEW node, NEW next, NodeOK(node, next), NEW k \in Keys, NEW e \in Entries,
         NEW b \in 1 .. Len(node), \A c \in Hits(node, k) : c <= b,
         NEW flag \in BOOLEAN, node[b].needs_whiteout \/ e = Whiteout => flag,
         NEW node2,
         Replaced(node, next, node2, b, Bset(node[b].seq, With(node[b].entries, k, e), flag))
  PROVE  NodeOK(node2, next) /\ Rewritten(node, node2, b, k, e)
<1> DEFINE g == With(node[b].entries, k, e)
           x == Bset(node[b].seq, g, flag)
<1>1. /\ Len(node) \in Nat /\ DOMAIN node = 1 .. Len(node)
      /\ node[b].entries \in EntryMap /\ node[b].seq \in 0 .. next - 1
      /\ \A c \in 1 .. Len(node) : DOMAIN node[c].entries \in SUBSET Keys
  BY NodeFacts
<1>2. /\ g \in EntryMap /\ DOMAIN g = DOMAIN node[b].entries \cup {k} /\ g[k] = e
      /\ \A y \in DOMAIN node[b].entries : y # k => g[y] = node[b].entries[y]
      /\ HasWhiteout(g) => HasWhiteout(node[b].entries) \/ e = Whiteout
  <2>1. Bound(node[b].entries, k, e, g)
    BY <1>1, WithFacts
  <2> HIDE DEF g
  <2> QED
    BY <2>1 DEF Bound
<1>3. x.seq = node[b].seq /\ x.entries = g /\ x.needs_whiteout = flag /\ x \in Bsets(next)
  BY <1>1, <1>2 DEF Bset, Bsets
<1>4. Flagged(x)
  <2>1. HasWhiteout(node[b].entries) => node[b].needs_whiteout
    BY DEF NodeOK, Flagged
  <2> QED
    BY <1>2, <1>3, <2>1, Zenon DEF Flagged
<1>5. Replaced(node, next, node2, b, x)
  OBVIOUS
<1> HIDE DEF x, g
<1>6. /\ Len(node2) = Len(node) /\ DOMAIN node2 = 1 .. Len(node)
      /\ node2[b] = x /\ \A c \in 1 .. Len(node) : c # b => node2[c] = node[c]
      /\ node2 \in Seq(Bsets(next))
  BY <1>1, <1>5 DEF Replaced
<1>7. NodeOK(node2, next)
  <2>1. \A c \in 1 .. Len(node2) : Flagged(node2[c])
    BY <1>4, <1>6 DEF NodeOK
  <2>2. \A c \in 1 .. Len(node2) : node2[c].seq = node[c].seq
    BY <1>3, <1>6
  <2> QED
    BY <1>6, <2>1, <2>2 DEF NodeOK
<1>8. Shows(node2, k) = {e}
  <2>1. Newest(node2, k, b)
    BY <1>1, <1>2, <1>3, <1>6 DEF Newest, Hits
  <2>2. Shows(node2, k) = {node2[b].entries[k]}
    BY <1>7, <2>1, NewestShows
  <2> QED
    BY <1>2, <1>3, <1>6, <2>2
<1>9. ASSUME NEW y, y # k PROVE Shows(node2, y) = Shows(node, y)
  <2>1. SameCopies(node, node2, y)
    BY <1>1, <1>2, <1>3, <1>6, <1>9 DEF SameCopies
  <2> QED
    BY <1>7, <2>1, SameShows DEF SameShown
<1>10. Copies(node2) = Copies(node) \cup {<<b, k>>}
  <2>1. \A c \in 1 .. Len(node), y \in Keys :
          y \in DOMAIN node2[c].entries <=> y \in DOMAIN node[c].entries \/ (c = b /\ y = k)
    BY <1>2, <1>3, <1>6
  <2> QED
    BY <1>1, <1>6, <2>1 DEF Copies
<1> QED
  BY <1>7, <1>8, <1>9, <1>10 DEF Rewritten

\* One more copy, unless the key has one there.
LEMMA RewriteCount ==
  ASSUME NEW node, NEW next, NodeOK(node, next), NEW k \in Keys, NEW e, NEW node2,
         NEW b \in 1 .. Len(node), Rewritten(node, node2, b, k, e)
  PROVE  /\ nkeys(node2) <= nkeys(node) + 1
         /\ k \in DOMAIN node[b].entries => nkeys(node2) = nkeys(node)
<1>1. IsFiniteSet(Copies(node)) /\ nkeys(node) \in Nat /\ DOMAIN node = 1 .. Len(node)
  BY CopiesFinite, NodeFacts
<1>2. Copies(node2) = Copies(node) \cup {<<b, k>>}
  BY DEF Rewritten
<1>3. CASE <<b, k>> \in Copies(node)
  <2>1. Copies(node2) = Copies(node)
    BY <1>2, <1>3
  <2> QED
    BY <1>1, <2>1 DEF nkeys
<1>4. CASE <<b, k>> \notin Copies(node)
  <2>1. Cardinality(Copies(node2)) = Cardinality(Copies(node)) + 1
    BY <1>1, <1>2, <1>4, FS_AddElement
  <2>2. k \notin DOMAIN node[b].entries
    BY <1>1, <1>4 DEF Copies
  <2> QED
    BY <1>1, <2>1, <2>2 DEF nkeys
<1> QED
  BY <1>3, <1>4

\* A new bset changes nothing that is shown.
LEMMA NewBset ==
  ASSUME NEW node, NEW next, NodeOK(node, next), Len(node) < BSET_TREE_NR_MAX,
         NEW node2, node2 = start_new_bset(node, next)
  PROVE  /\ NodeOK(node2, next + 1)
         /\ \A k : Shows(node2, k) = Shows(node, k)
         /\ nkeys(node2) = nkeys(node)
<1> DEFINE x == Bset(next, NoEntries, FALSE)
           n == Len(node)
<1>1. n \in Nat \ {0} /\ DOMAIN node = 1 .. n /\ next \in Nat
  BY NodeFacts DEF NodeOK
<1>2. /\ x.seq = next /\ x.entries = NoEntries /\ DOMAIN NoEntries = {}
      /\ x \in Bsets(next + 1) /\ Flagged(x)
  <2>1. DOMAIN NoEntries = {} /\ NoEntries \in EntryMap
    BY DEF NoEntries, EntryMap
  <2>2. next \in 0 .. (next + 1) - 1
    BY <1>1
  <2> QED
    BY <2>1, <2>2 DEF Bset, Bsets, Flagged, HasWhiteout
<1>3. node2 = Append(node, x)
  BY DEF start_new_bset
<1> HIDE DEF x
<1>4. NodeOK(node, next + 1)
  BY <1>1, NodeGrows
<1>5. /\ Len(node2) = n + 1 /\ node2[n + 1] = x
      /\ DOMAIN node2 = 1 .. n + 1 /\ node2 \in Seq(Bsets(next + 1))
      /\ \A b \in 1 .. n : node2[b] = node[b]
  BY <1>1, <1>2, <1>3, <1>4 DEF NodeOK
<1> HIDE DEF n
<1>6. NodeOK(node2, next + 1)
  <2>1. \A b, c \in 1 .. n + 1 : b < c => node2[b].seq < node2[c].seq
    <3> SUFFICES ASSUME NEW b \in 1 .. n + 1, NEW c \in 1 .. n + 1, b < c
                 PROVE  node2[b].seq < node2[c].seq
      OBVIOUS
    <3>1. b \in 1 .. n /\ node2[b] = node[b]
      BY <1>1, <1>5
    <3>2. CASE c = n + 1
      <4>1. node[b].seq \in 0 .. next - 1
        BY <3>1, NodeFacts DEF n
      <4> QED
        BY <1>1, <1>2, <1>5, <3>1, <3>2, <4>1
    <3>3. CASE c # n + 1
      <4>1. c \in 1 .. n /\ node2[c] = node[c]
        BY <1>1, <1>5, <3>3
      <4> QED
        BY <3>1, <4>1 DEF NodeOK, n
    <3> QED
      BY <3>2, <3>3
  <2>2. \A b \in 1 .. n + 1 : Flagged(node2[b])
    <3>1. \A b \in 1 .. n + 1 : b = n + 1 \/ b \in 1 .. n
      BY <1>1
    <3>2. \A b \in 1 .. n : Flagged(node[b])
      BY DEF NodeOK, n
    <3> QED
      BY <1>2, <1>5, <3>1, <3>2
  <2>3. n + 1 \in 1 .. BSET_TREE_NR_MAX
    BY <1>1, LeafConstants DEF n
  <2> QED
    BY <1>4, <1>5, <2>1, <2>2, <2>3 DEF NodeOK
<1>7. \A k : Shows(node2, k) = Shows(node, k)
  <2> TAKE k
  <2>1. SameCopies(node, node2, k)
    <3>1. n + 1 .. n + 1 = {n + 1} /\ n <= n + 1
      BY <1>1
    <3> QED
      BY <1>2, <1>5, <3>1 DEF SameCopies, n
  <2> QED
    BY <1>6, <2>1, SameShows DEF SameShown
<1>8. Copies(node2) = Copies(node)
  <2>1. 1 .. n + 1 = 1 .. n \cup {n + 1}
    BY <1>1
  <2>2. \A c : c \in Copies(node2) <=> c \in Copies(node)
    BY <1>1, <1>2, <1>5, <2>1 DEF Copies
  <2> QED
    BY <2>2, Zenon
<1> QED
  BY <1>6, <1>7, <1>8 DEF nkeys

\* rebuild_leaf_from_entries flags the bset it makes.
LEMMA Rebuilds ==
  ASSUME NEW next \in Nat, NEW seq \in 0 .. next - 1, NEW f \in EntryMap,
         NEW node, node = rebuild_leaf_from_entries(seq, f)
  PROVE  NodeOK(node, next) /\ ShowsExactly(node, f)
<1> DEFINE x == Bset(seq, f, HasWhiteout(f))
<1>1. node = <<x>>
  BY DEF rebuild_leaf_from_entries
<1>2. x \in Bsets(next)
  <2>1. HasWhiteout(f) \in BOOLEAN
    BY DEF HasWhiteout
  <2> QED
    BY <2>1, Zenon DEF Bset, Bsets
<1>3. x.entries = f /\ Flagged(x)
  BY Zenon DEF Bset, Flagged
<1> HIDE DEF x
<1> QED
  BY <1>1, <1>2, <1>3, SingleBset

\* Compaction changes nothing that is shown.
LEMMA Compacts ==
  ASSUME NEW node, NEW next, NodeOK(node, next),
         NEW node2, node2 = compact_leaf_in_place(node, next)
  PROVE  /\ NodeOK(node2, next + 1)
         /\ \A k : Shows(node2, k) = Shows(node, k)
         /\ nkeys(node2) = Cardinality(Stored(node))
<1> DEFINE view == MergedView(node)
<1>1. node2 = rebuild_leaf_from_entries(next, view)
  BY DEF compact_leaf_in_place
<1>2. /\ view \in EntryMap
      /\ DOMAIN view = Stored(node)
      /\ \A k \in Stored(node) : Shows(node, k) = {view[k]}
      /\ \A k : k \notin Stored(node) => Shows(node, k) = {}
  BY ViewFacts
<1>3. next + 1 \in Nat /\ next \in 0 .. (next + 1) - 1
  BY DEF NodeOK
<1> HIDE DEF view
<1>4. NodeOK(node2, next + 1) /\ ShowsExactly(node2, view)
  BY <1>1, <1>2, <1>3, Rebuilds
<1>5. \A k : Shows(node2, k) = Shows(node, k)
  BY <1>2, <1>4 DEF ShowsExactly
<1> QED
  BY <1>2, <1>4, <1>5 DEF ShowsExactly

\* A leaf with room in its last bset that shows the same.
Prepared(node, next, v) ==
  /\ v = [node |-> v.node, seq |-> v.seq]
  /\ v.seq \in {next, next + 1}
  /\ NodeOK(v.node, v.seq)
  /\ \A x : Shows(v.node, x) = Shows(node, x)
  /\ nkeys(v.node) <= nkeys(node)

\* What ensure_writable_last_bset does.
LEMMA Prepares ==
  ASSUME NEW node, NEW next, NodeOK(node, next), NEW v, v = ensure_writable_last_bset(node, next)
  PROVE  Prepared(node, next, v)
<1>1. node # <<>> /\ Len(node) \in Nat /\ next \in Nat /\ nkeys(node) \in Nat
  BY NodeFacts, CopiesFinite DEF NodeOK
<1>2. CASE v = [node |-> node, seq |-> next]
  <2>1. v.node = node /\ v.seq = next
    BY <1>2
  <2> QED
    BY <1>1, <1>2, <2>1 DEF Prepared
<1>3. CASE v = [node |-> start_new_bset(node, next), seq |-> next + 1]
           /\ Len(node) < BSET_TREE_NR_MAX
  <2>1. v.node = start_new_bset(node, next) /\ v.seq = next + 1
    BY <1>3
  <2>2. /\ NodeOK(v.node, next + 1)
        /\ \A k : Shows(v.node, k) = Shows(node, k)
        /\ nkeys(v.node) = nkeys(node)
    BY <1>3, <2>1, NewBset
  <2>3. v = [node |-> v.node, seq |-> v.seq]
    BY <1>3
  <2> QED
    BY <1>1, <2>1, <2>2, <2>3 DEF Prepared
<1>4. CASE v = [node |-> compact_leaf_in_place(node, next), seq |-> next + 1]
  <2>1. v.node = compact_leaf_in_place(node, next) /\ v.seq = next + 1
    BY <1>4
  <2>2. /\ NodeOK(v.node, next + 1)
        /\ \A k : Shows(v.node, k) = Shows(node, k)
        /\ nkeys(v.node) = Cardinality(Stored(node))
    BY <2>1, Compacts
  <2>3. Cardinality(Stored(node)) <= nkeys(node)
    BY ViewFacts
  <2>4. v = [node |-> v.node, seq |-> v.seq]
    BY <1>4
  <2> QED
    BY <1>1, <2>1, <2>2, <2>3, <2>4 DEF Prepared
<1> QED
  BY <1>1, <1>2, <1>3, <1>4 DEF ensure_writable_last_bset

\* The leaf w.node has the write of e to k, and w.seq is the next seq.
Applied(node, next, k, e, w) ==
  /\ w.seq \in {next, next + 1}
  /\ NodeOK(w.node, w.seq)
  /\ \A x : Shows(w.node, x) = IF x = k THEN {e} ELSE Shows(node, x)
  /\ nkeys(w.node) <= nkeys(node) + 1
  /\ Absorbs(node, k) => nkeys(w.node) <= nkeys(node)

\* The bset's flag after the write of e.
Flags(flag, bset, e) == flag <=> bset.needs_whiteout \/ e = Whiteout

\* The record `apply' returns, from the one v of the prepared leaf.
Rewrite(v, n, k, e) ==
  [v EXCEPT !.node[n].entries = With(@, k, e),
            !.node[n].needs_whiteout = @ \/ e = Whiteout]

RewriteOf(w, v, u, seq, n, k, e, flag) ==
  /\ v = [node |-> u, seq |-> seq]
  /\ w = Rewrite(v, n, k, e)
  /\ flag \in BOOLEAN /\ Flags(flag, u[n], e)

\* Its leaf has one bset replaced.
LEMMA RewriteLast ==
  ASSUME NEW u, NEW next, NodeOK(u, next), NEW n \in 1 .. Len(u), NEW k \in Keys, NEW e \in Entries,
         NEW v, NEW seq, NEW flag, NEW w, RewriteOf(w, v, u, seq, n, k, e, flag)
  PROVE  /\ w.seq = seq
         /\ Replaced(u, next, w.node, n, Bset(u[n].seq, With(u[n].entries, k, e), flag))
<1> DEFINE g == With(u[n].entries, k, e)
           b1 == [u[n] EXCEPT !.entries = g]
           u1 == [u EXCEPT ![n] = b1]
           b2 == [b1 EXCEPT !.needs_whiteout = flag]
           u2 == [u1 EXCEPT ![n] = b2]
           v1 == [node |-> u1, seq |-> seq]
<1>1. u[n] \in Bsets(next) /\ DOMAIN u = 1 .. Len(u) /\ u[n].entries \in EntryMap
  BY NodeFacts
<1>2. v.node = u /\ v.seq = seq
  BY DEF RewriteOf
<1>3. [v EXCEPT !.node[n].entries = With(@, k, e)] = v1
  <2>1. [v EXCEPT !.node[n].entries = With(@, k, e)] = [v EXCEPT !.node = u1]
    BY <1>2, Zenon
  <2> HIDE DEF u1
  <2>2. [v EXCEPT !.node = u1] = v1
    BY DEF RewriteOf
  <2> QED
    BY <2>1, <2>2, Zenon
<1>4. Rewrite(v, n, k, e)
      = [[v EXCEPT !.node[n].entries = With(@, k, e)] EXCEPT
           !.node[n].needs_whiteout = v.node[n].needs_whiteout \/ e = Whiteout]
  BY Zenon DEF Rewrite
<1>5. (v.node[n].needs_whiteout \/ e = Whiteout) = flag
  <2>1. v.node[n].needs_whiteout \/ e = Whiteout <=> flag
    BY <1>2, Zenon DEF Flags, RewriteOf
  <2> QED
    BY <2>1, Zenon
<1>6. w = [v1 EXCEPT !.node[n].needs_whiteout = flag]
  BY <1>3, <1>4, <1>5, Zenon DEF RewriteOf
<1>7. b1 = [seq |-> u[n].seq, entries |-> g, needs_whiteout |-> u[n].needs_whiteout]
      /\ b1 \in Bsets(next)
  <2>1. g \in EntryMap
    <3>1. Bound(u[n].entries, k, e, g)
      BY <1>1, WithFacts
    <3> QED
      BY <3>1 DEF Bound
  <2>2. u[n] = [seq |-> u[n].seq, entries |-> u[n].entries, needs_whiteout |-> u[n].needs_whiteout]
    BY <1>1 DEF Bsets
  <2> HIDE DEF g
  <2> QED
    BY <1>1, <2>1, <2>2 DEF Bsets
<1>8. b2 = Bset(u[n].seq, g, flag) /\ b2 \in Bsets(next)
  <2> HIDE DEF b1, g
  <2>1. ASSUME NEW fl PROVE [b1 EXCEPT !.needs_whiteout = fl] = Bset(u[n].seq, g, fl)
    BY <1>7 DEF Bset
  <2>2. [b1 EXCEPT !.needs_whiteout = flag] \in Bsets(next)
    BY <1>7 DEF RewriteOf, Bsets
  <2> QED
    BY <2>1, <2>2, Zenon
<1>9. u \in Seq(Bsets(next))
  BY DEF NodeOK
<1>10. /\ u1 \in Seq(Bsets(next)) /\ Len(u1) = Len(u) /\ u1[n] = b1
       /\ \A c \in 1 .. Len(u) : c # n => u1[c] = u[c]
  <2> HIDE DEF b1
  <2> QED
    BY <1>7, <1>9
<1>11. w.node = u2 /\ w.seq = seq
  <2> HIDE DEF u1, b1
  <2>1. v1.node = u1 /\ v1.seq = seq
    OBVIOUS
  <2>2. w = [v1 EXCEPT !.node = u2]
    BY <1>6, <1>10, <2>1, Zenon
  <2> HIDE DEF u2
  <2>3. [v1 EXCEPT !.node = u2].node = u2 /\ [v1 EXCEPT !.node = u2].seq = seq
    OBVIOUS
  <2> QED
    BY <2>2, <2>3, Zenon
<1> HIDE DEF u1, b2
<1>12. /\ u2 \in Seq(Bsets(next)) /\ Len(u2) = Len(u) /\ u2[n] = b2
       /\ \A c \in 1 .. Len(u) : c # n => u2[c] = u[c]
  BY <1>8, <1>10
<1> HIDE DEF u2, g
<1> QED
  BY <1>8, <1>11, <1>12, Zenon DEF Replaced, g

\* The closure `apply' of insert_leaf.
LEMMA Applies ==
  ASSUME NEW node, NEW next, NodeOK(node, next), NEW k \in Keys, NEW e \in Entries,
         NEW w, w = apply(node, k, e, next)
  PROVE  Applied(node, next, k, e, w)
<1> DEFINE v == IF Absorbs(node, k) THEN [node |-> node, seq |-> next]
                ELSE ensure_writable_last_bset(node, next)
           u == v.node
           n == Len(u)
<1>1. next \in Nat /\ nkeys(node) \in Nat
  BY CopiesFinite DEF NodeOK
<1>2. Prepared(node, next, v) /\ (Absorbs(node, k) => u = node)
  <2>1. CASE Absorbs(node, k)
    <3>1. v = [node |-> node, seq |-> next]
      BY <2>1
    <3>2. v.node = node /\ v.seq = next
      BY <3>1
    <3> HIDE DEF v
    <3> QED
      BY <1>1, <3>1, <3>2 DEF Prepared
  <2>2. CASE ~ Absorbs(node, k)
    <3>1. v = ensure_writable_last_bset(node, next)
      BY <2>2
    <3> HIDE DEF v
    <3> QED
      BY <2>2, <3>1, Prepares
  <2> QED
    BY <2>1, <2>2
<1>3. w = Rewrite(v, n, k, e)
  BY DEF apply, Rewrite
<1> HIDE DEF v
<1>4. v = [node |-> u, seq |-> v.seq] /\ NodeOK(u, v.seq)
  BY <1>2 DEF Prepared
<1> HIDE DEF u
<1>5. n \in 1 .. Len(u) /\ Len(u) \in Nat /\ nkeys(u) \in Nat
  BY <1>4, NodeFacts, CopiesFinite
<1> HIDE DEF n
<1>6. PICK flag \in BOOLEAN : flag <=> u[n].needs_whiteout \/ e = Whiteout
  <2>1. CASE u[n].needs_whiteout \/ e = Whiteout
    BY <2>1, Zenon
  <2>2. CASE ~ (u[n].needs_whiteout \/ e = Whiteout)
    BY <2>2, Zenon
  <2> QED
    BY <2>1, <2>2, Zenon
<1> DEFINE u2 == w.node
<1>7. w.seq = v.seq /\ Replaced(u, v.seq, w.node, n, Bset(u[n].seq, With(u[n].entries, k, e), flag))
  <2>1. RewriteOf(w, v, u, v.seq, n, k, e, flag)
    BY <1>3, <1>4, <1>6, Zenon DEF Flags, RewriteOf
  <2>2. NodeOK(u, v.seq) /\ n \in 1 .. Len(u)
    BY <1>4, <1>5
  <2> QED
    BY <2>1, <2>2, RewriteLast
<1> HIDE DEF u2
<1>8. NodeOK(u2, v.seq) /\ Rewritten(u, u2, n, k, e)
  <2>1. \A c \in Hits(u, k) : c <= n
    BY <1>4, <1>5, NodeFacts DEF n
  <2>2. u[n].needs_whiteout \/ e = Whiteout => flag
    BY <1>6
  <2> QED
    BY <1>4, <1>5, <1>6, <1>7, <2>1, <2>2, RewriteBset, Zenon DEF u2
<1>9. w.node = u2 /\ w.seq = v.seq
  BY <1>7 DEF u2
<1>10. /\ nkeys(u2) <= nkeys(u) + 1
       /\ k \in DOMAIN u[n].entries => nkeys(u2) = nkeys(u)
  BY <1>4, <1>5, <1>8, RewriteCount
<1>11. nkeys(u2) \in Nat
  BY <1>8, CopiesFinite
<1>12. nkeys(u) <= nkeys(node) /\ v.seq \in {next, next + 1} /\ \A x : Shows(u, x) = Shows(node, x)
  BY <1>2 DEF Prepared, u
<1>13. Absorbs(node, k) => nkeys(u2) <= nkeys(node)
  <2> HAVE Absorbs(node, k)
  <2>1. u = node /\ k \in DOMAIN u[n].entries
    BY <1>2 DEF Absorbs, Last, n
  <2> QED
    BY <1>1, <1>10, <2>1
<1>14. nkeys(u2) <= nkeys(node) + 1
  BY <1>1, <1>5, <1>10, <1>11, <1>12
<1>15. \A x : Shows(u2, x) = IF x = k THEN {e} ELSE Shows(node, x)
  BY <1>8, <1>12 DEF Rewritten
<1> QED
  BY <1>8, <1>9, <1>12, <1>13, <1>14, <1>15 DEF Applied
-----------------------------------------------------------------------------
Inserted(s, i, e, t) ==
  /\ Len(t) = Len(s) + 1
  /\ t[i] = e
  /\ \A j \in 1 .. i - 1 : t[j] = s[j]
  /\ \A j \in i .. Len(s) : t[j + 1] = s[j]

\* u is the concatenation of s and t.
ConcatOf(s, t, u) == u = s \o t

\* u has the elements of s, then those of t.
Concatenated(s, t, u) ==
  /\ Len(u) = Len(s) + Len(t)
  /\ \A j \in 1 .. Len(s) : u[j] = s[j]
  /\ \A j \in 1 .. Len(t) : u[Len(s) + j] = t[j]

\* The elements of a concatenation.
LEMMA Concatenates ==
  ASSUME NEW S, NEW s \in Seq(S), NEW t \in Seq(S), NEW u, ConcatOf(s, t, u)
  PROVE  u \in Seq(S) /\ Concatenated(s, t, u)
<1>1. u = s \o t
  BY DEF ConcatOf
<1>2. Len(u) = Len(s) + Len(t)
  BY <1>1
<1>3. \A j \in 1 .. Len(s) : u[j] = s[j]
  BY <1>1
<1>4. \A j \in 1 .. Len(t) : u[Len(s) + j] = t[j]
  BY <1>1
<1> QED
  BY <1>1, <1>2, <1>3, <1>4 DEF Concatenated

\* t is s with e inserted at i.
InsertOf(s, i, e, t) == t = InsertAt(s, i, e)

\* InsertAt makes room for one element.
LEMMA InsertsAt ==
  ASSUME NEW S, NEW s \in Seq(S), NEW e \in S, NEW i \in 1 .. Len(s) + 1,
         NEW t, InsertOf(s, i, e, t)
  PROVE  t \in Seq(S) /\ Inserted(s, i, e, t)
<1> DEFINE a == SubSeq(s, 1, i - 1)
           b == SubSeq(s, i, Len(s))
           c == a \o <<e>>
           n == Len(s)
<1>1. n \in Nat /\ i \in 1 .. n + 1
  OBVIOUS
<1>2. a \in Seq(S) /\ Len(a) = i - 1 /\ \A j \in 1 .. i - 1 : a[j] = s[j]
  OBVIOUS
<1>3. b \in Seq(S) /\ Len(b) = n - i + 1 /\ \A j \in 1 .. n - i + 1 : b[j] = s[i + j - 1]
  OBVIOUS
<1>4. ConcatOf(c, b, t)
  BY DEF InsertOf, InsertAt, ConcatOf
<1> HIDE DEF a, b, n
<1>5. c \in Seq(S) /\ Len(c) = i /\ c[i] = e /\ \A j \in 1 .. i - 1 : c[j] = s[j]
  <2> DEFINE u == <<e>>
  <2>1. u \in Seq(S) /\ Len(u) = 1 /\ u[1] = e
    OBVIOUS
  <2>2. ConcatOf(a, u, c)
    BY DEF ConcatOf
  <2> HIDE DEF u, c
  <2>3. c \in Seq(S) /\ Concatenated(a, u, c)
    BY <1>2, <2>1, <2>2, Concatenates
  <2>4. (i - 1) + 1 = i /\ 1 \in 1 .. 1
    BY <1>1
  <2> QED
    BY <1>2, <2>1, <2>3, <2>4 DEF Concatenated
<1> HIDE DEF c
<1>6. /\ t \in Seq(S) /\ Len(t) = n + 1
      /\ \A j \in 1 .. i : t[j] = c[j]
      /\ \A j \in 1 .. n - i + 1 : t[i + j] = b[j]
  <2>1. t \in Seq(S) /\ Concatenated(c, b, t)
    BY <1>3, <1>4, <1>5, Concatenates
  <2>2. i + (n - i + 1) = n + 1
    BY <1>1
  <2> QED
    BY <1>3, <1>5, <2>1, <2>2 DEF Concatenated
<1>7. \A j \in 1 .. i : t[j] = c[j]
  BY <1>6
<1>8. \A j \in i .. n : t[j + 1] = s[j]
  <2> TAKE j \in i .. n
  <2>1. j - i + 1 \in 1 .. n - i + 1 /\ i + (j - i + 1) = j + 1 /\ i + (j - i + 1) - 1 = j
    BY <1>1
  <2>2. t[i + (j - i + 1)] = b[j - i + 1]
    BY <1>6, <2>1
  <2>3. b[j - i + 1] = s[j]
    BY <1>3, <2>1
  <2> QED
    BY <2>1, <2>2, <2>3
<1> QED
  BY <1>5, <1>6, <1>7, <1>8 DEF Inserted, n

\* The separators a search for k passes.
Passed(seps, k) == {j \in DOMAIN seps : seps[j] <= k}

\* The leaf a search for k descends to, with these separators.
RouteIn(seps, k) == 1 + Cardinality(Passed(seps, k))

\* A search descends to one of the leaves, and keys are routed in order.
LEMMA RouteFacts ==
  ASSUME NEW seps \in Seq(Keys)
  PROVE  /\ \A k \in Keys : RouteIn(seps, k) \in 1 .. Len(seps) + 1
         /\ \A j, k \in Keys : j <= k => RouteIn(seps, j) <= RouteIn(seps, k)
<1>1. IsFiniteSet(DOMAIN seps) /\ Cardinality(DOMAIN seps) = Len(seps)
  <2>1. DOMAIN seps = 1 .. Len(seps) /\ Len(seps) \in Nat
    OBVIOUS
  <2>2. IsFiniteSet(1 .. Len(seps)) /\ Cardinality(1 .. Len(seps)) = Len(seps)
    BY <2>1, FS_Interval
  <2> QED
    BY <2>1, <2>2
<1>2. ASSUME NEW k \in Keys
      PROVE  /\ IsFiniteSet(Passed(seps, k)) /\ Cardinality(Passed(seps, k)) \in Nat
             /\ Cardinality(Passed(seps, k)) <= Len(seps)
  <2>1. Passed(seps, k) \in SUBSET DOMAIN seps
    BY DEF Passed
  <2> QED
    BY <1>1, <2>1, FS_Subset, FS_CardinalityType
<1>3. ASSUME NEW j \in Keys, NEW k \in Keys, j <= k
      PROVE  RouteIn(seps, j) <= RouteIn(seps, k)
  <2>1. Passed(seps, j) \in SUBSET Passed(seps, k)
    BY <1>3, LeafConstants DEF Passed, Keys
  <2>2. Cardinality(Passed(seps, j)) <= Cardinality(Passed(seps, k))
    BY <1>2, <2>1, FS_Subset
  <2> QED
    BY <1>2, <2>2 DEF RouteIn
<1> QED
  BY <1>2, <1>3 DEF RouteIn

\* From seps to t, keys from m on move one leaf further.
MovesFrom(m, seps, t, x) ==
  RouteIn(t, x) = IF m <= x THEN RouteIn(seps, x) + 1 ELSE RouteIn(seps, x)

\* A separator m put in among the others: keys from m on are routed one leaf further.
LEMMA RouteInserted ==
  ASSUME NEW seps \in Seq(Keys), NEW i \in 1 .. Len(seps) + 1, NEW m \in Keys,
         NEW t, t \in Seq(Keys), Inserted(seps, i, m, t), NEW x \in Keys
  PROVE  MovesFrom(m, seps, t, x)
<1> DEFINE n == Len(seps)
           A == Passed(seps, x)
           B == {j \in 1 .. n + 1 : j # i /\ t[j] <= x}
           f == [j \in A |-> IF j < i THEN j ELSE j + 1]
<1>1. n \in Nat /\ DOMAIN seps = 1 .. n /\ Len(t) = n + 1 /\ DOMAIN t = 1 .. n + 1
  BY DEF Inserted
<1>2. /\ t[i] = m /\ \A j \in 1 .. i - 1 : t[j] = seps[j]
      /\ \A j \in i .. n : t[j + 1] = seps[j]
  BY DEF Inserted
<1> HIDE DEF n
<1>3. f \in [A -> B]
  <2> SUFFICES ASSUME NEW j \in A PROVE (IF j < i THEN j ELSE j + 1) \in B
    OBVIOUS
  <2>1. j \in 1 .. n /\ seps[j] <= x
    BY <1>1 DEF Passed
  <2>2. CASE j < i
    BY <1>1, <1>2, <2>1, <2>2
  <2>3. CASE ~ (j < i)
    <3>1. j \in i .. n /\ j + 1 \in 1 .. n + 1 /\ j + 1 # i
      BY <1>1, <2>1, <2>3
    <3> QED
      BY <1>2, <2>1, <2>3, <3>1
  <2> QED
    BY <2>2, <2>3
<1>4. \A j, k \in A : f[j] = f[k] => j = k
  <2>1. A \in SUBSET Nat
    BY <1>1 DEF Passed
  <2> HIDE DEF A
  <2> QED
    BY <1>1, <2>1
<1>5. \A b \in B : \E j \in A : f[j] = b
  <2> TAKE b \in B
  <2>1. b \in 1 .. n + 1 /\ b # i /\ t[b] <= x
    OBVIOUS
  <2>2. CASE b < i
    <3>1. b \in 1 .. n /\ b \in 1 .. i - 1
      BY <1>1, <2>1, <2>2 DEF n
    <3>2. b \in A
      BY <1>1, <1>2, <2>1, <3>1 DEF Passed
    <3> QED
      BY <2>2, <3>2
  <2>3. CASE ~ (b < i)
    <3>1. b - 1 \in i .. n /\ (b - 1) + 1 = b /\ b - 1 \in 1 .. n /\ ~ (b - 1 < i)
      BY <1>1, <2>1, <2>3
    <3>2. seps[b - 1] = t[b]
      BY <1>2, <3>1
    <3>3. b - 1 \in A
      BY <1>1, <2>1, <3>1, <3>2 DEF Passed
    <3>4. f[b - 1] = b
      BY <3>1, <3>3
    <3> QED
      BY <3>3, <3>4
  <2> QED
    BY <2>2, <2>3
<1>6. IsFiniteSet(A)
  <2>1. A \in SUBSET (1 .. n) /\ IsFiniteSet(1 .. n)
    BY <1>1, FS_Interval DEF Passed
  <2> HIDE DEF A, f
  <2> QED
    BY <2>1, FS_Subset, Zenon
<1>7. IsFiniteSet(B) /\ Cardinality(B) = Cardinality(A) /\ Cardinality(A) \in Nat
  <2> HIDE DEF A, B, f
  <2>1. f \in Bijection(A, B)
    BY <1>3, <1>4, <1>5 DEF Bijection, Injection, Surjection, IsInjective
  <2>2. ExistsBijection(A, B)
    BY <2>1 DEF ExistsBijection
  <2> QED
    BY <1>6, <2>2, FS_Bijection, FS_CardinalityType
<1>8. i \notin B /\ Passed(t, x) = IF m <= x THEN B \cup {i} ELSE B
  <2>1. i \in 1 .. n + 1
    BY DEF n
  <2>2. \A j : j \in Passed(t, x) <=> j \in B \/ (j = i /\ m <= x)
    BY <1>1, <1>2, <2>1 DEF Passed
  <2> HIDE DEF B
  <2>3. CASE m <= x
    BY <2>2, <2>3 DEF B
  <2>4. CASE ~ (m <= x)
    BY <2>2, <2>4 DEF B
  <2> QED
    BY <2>3, <2>4
<1> HIDE DEF A, B
<1>9. CASE m <= x
  <2>1. Cardinality(B \cup {i}) = Cardinality(B) + 1
    <3>1. IsFiniteSet(B) /\ i \notin B
      BY <1>7, <1>8
    <3>2. Cardinality(B \cup {i}) = IF i \in B THEN Cardinality(B) ELSE Cardinality(B) + 1
      BY <3>1, FS_AddElement, Zenon
    <3> QED
      BY <3>1, <3>2
  <2> QED
    BY <1>7, <1>8, <1>9, <2>1 DEF RouteIn, A, MovesFrom
<1>10. CASE ~ (m <= x)
  BY <1>7, <1>8, <1>10 DEF RouteIn, A, MovesFrom
<1> QED
  BY <1>9, <1>10
-----------------------------------------------------------------------------
Below(D, m) == {k \in D : k < m}

\* A set of keys has one of every rank, so it has a median.
LEMMA RankExists ==
  ASSUME NEW D \in SUBSET Keys, NEW N \in Nat, Cardinality(D) = N + 1
  PROVE  \A n \in 0 .. N : \E m \in D : Cardinality(Below(D, m)) = n
<1> DEFINE G == {n \in 0 .. N : \E m \in D : Cardinality(Below(D, m)) = n}
<1>1. \A k \in D : k \in Nat
  BY LeafConstants DEF Keys
<1>0. IsFiniteSet(D)
  <2>1. IsFiniteSet(Keys)
    BY LeafConstants, FS_Interval DEF Keys
  <2> QED
    BY <2>1, FS_Subset, Zenon
<1>2. 0 \in G
  <2>1. D # {}
    BY FS_EmptySet
  <2>2. PICK m \in D : \A y \in D : m <= y
    <3>1. D \in SUBSET Nat
      BY <1>1
    <3> QED
      BY <2>1, <3>1, LeastNumber
  <2>3. Below(D, m) = {}
    BY <1>1, <2>2 DEF Below
  <2>4. Cardinality(Below(D, m)) = 0
    BY <2>3, FS_EmptySet
  <2> QED
    BY <2>4
<1>3. ASSUME NEW n \in 1 .. N, n - 1 \in G PROVE n \in G
  <2>1. PICK m \in D : Cardinality(Below(D, m)) = n - 1
    BY <1>3
  <2> DEFINE T == Below(D, m) \cup {m}
             U == {k \in D : m < k}
  <2>2. IsFiniteSet(Below(D, m)) /\ m \notin Below(D, m)
    <3>1. Below(D, m) \in SUBSET D /\ m \notin Below(D, m)
      BY <1>1 DEF Below
    <3> QED
      BY <1>0, <3>1, FS_Subset, Zenon
  <2>3. Cardinality(T) = n
    <3>1. Cardinality(T) = IF m \in Below(D, m) THEN n - 1 ELSE n - 1 + 1
      BY <2>1, <2>2, FS_AddElement
    <3> QED
      BY <2>2, <3>1
  <2>4. U # {}
    <3> SUFFICES ASSUME U = {} PROVE FALSE
      OBVIOUS
    <3>1. D = T
      BY <1>1 DEF Below
    <3> HIDE DEF T
    <3> QED
      BY <2>3, <3>1
  <2>5. U \in SUBSET Nat
    BY <1>1
  <2>6. PICK m2 \in U : \A y \in U : m2 <= y
    <3> HIDE DEF U
    <3> QED
      BY <2>4, <2>5, LeastNumber
  <2>7. Below(D, m2) = T
    <3>1. \A k \in D : k < m2 <=> k <= m
      BY <1>1, <2>6
    <3>2. \A k : k \in Below(D, m2) <=> k \in T
      BY <1>1, <3>1 DEF Below
    <3> QED
      BY <3>2, Zenon
  <2> QED
    BY <2>3, <2>6, <2>7
<1> HIDE DEF G
<1>4. \A n \in 0 .. N : n \in G
  BY <1>2, <1>3, Rounds
<1> QED
  BY <1>4 DEF G

\* Half of the keys, rounded down, are below the median.
LEMMA MedianFacts ==
  ASSUME NEW D \in SUBSET Keys, Cardinality(D) \in Nat, Cardinality(D) > 1
  PROVE  /\ Median(D) \in D
         /\ Cardinality(Below(D, Median(D))) = Cardinality(D) \div 2
<1> DEFINE N == Cardinality(D) - 1
           h == Cardinality(D) \div 2
<1>1. N \in Nat /\ Cardinality(D) = N + 1 /\ h \in 0 .. N
  OBVIOUS
<1> HIDE DEF N, h
<1>2. \E m \in D : Cardinality(Below(D, m)) = h
  BY <1>1, RankExists
<1>3. Median(D) = CHOOSE m \in D : Cardinality(Below(D, m)) = h
  BY DEF Median, Below, h
<1> QED
  BY <1>2, <1>3 DEF h

\* A bset's entries cut down to the keys of S.
LEMMA RestrictFacts ==
  ASSUME NEW f \in EntryMap, NEW S \in SUBSET DOMAIN f, NEW g, g = Restrict(f, S)
  PROVE  /\ g \in EntryMap /\ DOMAIN g = S
         /\ \A k \in S : g[k] = f[k]
         /\ HasWhiteout(g) => HasWhiteout(f)
<1>1. DOMAIN f \in SUBSET Keys /\ f \in [DOMAIN f -> Entries]
  BY EntryMapFacts
<1>2. DOMAIN g = S /\ \A k \in S : g[k] = f[k]
  BY DEF Restrict
<1>3. g \in [S -> Entries] /\ S \in SUBSET Keys
  BY <1>1 DEF Restrict
<1> QED
  BY <1>2, <1>3 DEF EntryMap, HasWhiteout

HalfOf(x, S) == <<[x EXCEPT !.entries = Restrict(@, S)]>>

\* One half of the canonical leaf's bset x.
LEMMA HalfFacts ==
  ASSUME NEW next \in Nat, NEW x \in Bsets(next), Flagged(x), NEW S \in SUBSET DOMAIN x.entries,
         NEW node, node = HalfOf(x, S)
  PROVE  NodeOK(node, next) /\ ShowsExactly(node, Restrict(x.entries, S))
<1> DEFINE g == Restrict(x.entries, S)
           y == [x EXCEPT !.entries = g]
<1>1. x.entries \in EntryMap
  BY DEF Bsets
<1>2. g \in EntryMap /\ (HasWhiteout(g) => HasWhiteout(x.entries))
  BY <1>1, RestrictFacts
<1>3. node = <<y>>
  BY DEF HalfOf
<1> HIDE DEF g
<1>4. y \in Bsets(next) /\ y.entries = g /\ y.needs_whiteout = x.needs_whiteout
  BY <1>2 DEF Bsets
<1>5. Flagged(y)
  BY <1>2, <1>4, Zenon DEF Flagged
<1> HIDE DEF y
<1> QED
  BY <1>3, <1>4, <1>5, SingleBset DEF g

\* Bset x alone shows what the leaf shows.
IsCanonical(node, next, x) ==
  /\ next \in Nat /\ x \in Bsets(next) /\ Flagged(x)
  /\ DOMAIN x.entries = Stored(node)
  /\ \A k : Shows(node, k) = IF k \in DOMAIN x.entries THEN {x.entries[k]} ELSE {}

\* The copy that split_leaf_node works on has one bset and shows the same.
LEMMA CanonicalFacts ==
  ASSUME NEW node, NEW next, NodeOK(node, next), NEW next2,
         next2 = IF Len(node) > 1 THEN next + 1 ELSE next
  PROVE  \E x : Canonical(node, next) = <<x>> /\ IsCanonical(node, next2, x)
<1>1. Len(node) \in Nat \ {0} /\ next \in Nat
  BY NodeFacts DEF NodeOK
<1>2. CASE Len(node) > 1
  <2> DEFINE view == MergedView(node)
             x == Bset(next, view, HasWhiteout(view))
  <2>1. Canonical(node, next) = <<x>>
    BY <1>2 DEF Canonical, compact_leaf_in_place, rebuild_leaf_from_entries
  <2>2. /\ view \in EntryMap
        /\ DOMAIN view = Stored(node)
        /\ \A k \in Stored(node) : Shows(node, k) = {view[k]}
        /\ \A k : k \notin Stored(node) => Shows(node, k) = {}
    BY ViewFacts
  <2>3. next2 = next + 1 /\ next \in 0 .. next2 - 1
    BY <1>1, <1>2
  <2> HIDE DEF view
  <2>4. x \in Bsets(next2)
    <3>1. HasWhiteout(view) \in BOOLEAN
      BY DEF HasWhiteout
    <3> QED
      BY <2>2, <2>3, <3>1, Zenon DEF Bset, Bsets
  <2>5. x.entries = view /\ Flagged(x)
    BY Zenon DEF Bset, Flagged
  <2> HIDE DEF x
  <2>6. IsCanonical(node, next2, x)
    BY <1>1, <2>2, <2>3, <2>4, <2>5 DEF IsCanonical
  <2> QED
    BY <2>1, <2>6
<1>3. CASE ~ (Len(node) > 1)
  <2> DEFINE x == node[1]
  <2>1. next2 = next /\ Len(node) = 1 /\ node \in Seq(Bsets(next))
    <3>1. next2 = next
      BY <1>3
    <3> DEFINE n == Len(node)
    <3>2. n \in Nat /\ n # 0 /\ ~ (n > 1)
      BY <1>1, <1>3
    <3> HIDE DEF n
    <3>3. n = 1
      BY <3>2
    <3> QED
      BY <3>1, <3>3 DEF NodeOK, n
  <2>2. node = <<x>> /\ x \in Bsets(next)
    BY <2>1
  <2>3. Canonical(node, next) = <<x>>
    BY <1>3, <2>2 DEF Canonical
  <2>4. Flagged(x)
    BY <2>1 DEF NodeOK
  <2> HIDE DEF x
  <2>5. ShowsExactly(node, x.entries)
    BY <1>1, <2>2, <2>4, SingleBset
  <2>6. /\ \A k : Shows(node, k) = IF k \in DOMAIN x.entries THEN {x.entries[k]} ELSE {}
        /\ Stored(node) = DOMAIN x.entries
    BY <2>5, Zenon DEF ShowsExactly
  <2>7. IsCanonical(node, next2, x)
    BY <1>1, <2>1, <2>2, <2>4, <2>6, Zenon DEF IsCanonical
  <2> QED
    BY <2>3, <2>7
<1> QED
  BY <1>2, <1>3

\* The two halves of a leaf, the keys from the median on in the right one.
SplitOK(node, next, s) ==
  /\ s.median \in Keys /\ Shows(node, s.median) # {}
  /\ NodeOK(s.left, next) /\ NodeOK(s.right, next)
  /\ \A k \in Keys : Shows(s.left, k) = IF k < s.median THEN Shows(node, k) ELSE {}
  /\ \A k \in Keys : Shows(s.right, k) = IF k < s.median THEN {} ELSE Shows(node, k)
  /\ nkeys(s.left) + 1 <= nkeys(node)
  /\ nkeys(s.right) + 1 <= nkeys(node)

\* split_leaf_node.
LEMMA Splits ==
  ASSUME NEW node, NEW next, NodeOK(node, next), Cardinality(Stored(node)) > 1,
         NEW next2, next2 = IF Len(node) > 1 THEN next + 1 ELSE next,
         NEW s, s = SplitLeaf(Canonical(node, next))
  PROVE  SplitOK(node, next2, s)
<1>1. PICK x : Canonical(node, next) = <<x>> /\ IsCanonical(node, next2, x)
  BY CanonicalFacts
<1> DEFINE E == x.entries
           D == DOMAIN E
           m == Median(D)
           L == {k \in D : k < m}
           R == {k \in D : k >= m}
<1>2. /\ next2 \in Nat /\ x \in Bsets(next2) /\ Flagged(x) /\ D = Stored(node)
      /\ \A k : Shows(node, k) = IF k \in D THEN {E[k]} ELSE {}
  BY <1>1 DEF IsCanonical
<1>3. /\ s.median = m
      /\ s.left = HalfOf(x, L)
      /\ s.right = HalfOf(x, R)
  BY <1>1 DEF SplitLeaf, HalfOf
<1>4. E \in EntryMap /\ D \in SUBSET Keys
  BY <1>2, EntryMapFacts DEF Bsets, Stored
<1> HIDE DEF m
<1>5. L \in SUBSET D /\ R \in SUBSET D
  OBVIOUS
<1>6. NodeOK(s.left, next2) /\ ShowsExactly(s.left, Restrict(E, L))
  <2> HIDE DEF L
  <2> QED
    BY <1>2, <1>3, <1>5, HalfFacts, Zenon
<1>7. NodeOK(s.right, next2) /\ ShowsExactly(s.right, Restrict(E, R))
  <2> HIDE DEF R
  <2> QED
    BY <1>2, <1>3, <1>5, HalfFacts, Zenon
<1>8. /\ DOMAIN Restrict(E, L) = L /\ \A k \in L : Restrict(E, L)[k] = E[k]
      /\ DOMAIN Restrict(E, R) = R /\ \A k \in R : Restrict(E, R)[k] = E[k]
  BY DEF Restrict
<1>9. /\ Cardinality(D) \in Nat /\ Cardinality(D) > 1 /\ Cardinality(D) <= nkeys(node)
      /\ IsFiniteSet(D) /\ nkeys(node) \in Nat
  BY <1>2, <1>4, CopiesFinite, ViewFacts
<1>10. m \in D /\ Cardinality(L) = Cardinality(D) \div 2
  <2> HIDE DEF D
  <2> QED
    BY <1>4, <1>9, MedianFacts DEF m, Below
<1>11. Cardinality(R) = Cardinality(D) - Cardinality(D) \div 2
  <2>1. L \cup R = D /\ L \cap R = {}
    BY <1>4, <1>10, LeafConstants DEF Keys
  <2>2. IsFiniteSet(L) /\ IsFiniteSet(R)
    BY <1>5, <1>9, FS_Subset
  <2> HIDE DEF L, R, D
  <2>3. Cardinality(D) = Cardinality(L) + Cardinality(R) - 0
    BY <2>1, <2>2, FS_Union, FS_EmptySet
  <2>4. Cardinality(R) \in Nat
    BY <2>2, FS_CardinalityType
  <2> QED
    BY <1>9, <1>10, <2>3, <2>4
<1>12. nkeys(s.left) + 1 <= nkeys(node) /\ nkeys(s.right) + 1 <= nkeys(node)
  <2>1. nkeys(s.left) = Cardinality(L) /\ nkeys(s.right) = Cardinality(R)
    BY <1>6, <1>7, <1>8 DEF ShowsExactly
  <2> HIDE DEF L, R, D
  <2> QED
    BY <1>9, <1>10, <1>11, <2>1
<1>13. \A k \in Keys : Shows(s.left, k) = IF k < m THEN Shows(node, k) ELSE {}
  <2> TAKE k \in Keys
  <2>1. /\ Shows(s.left, k) = IF k \in L THEN {Restrict(E, L)[k]} ELSE {}
        /\ k \in L => Restrict(E, L)[k] = E[k]
    BY <1>6, <1>8, Zenon DEF ShowsExactly
  <2>2. Shows(node, k) = IF k \in D THEN {E[k]} ELSE {}
    BY <1>2, Zenon
  <2>3. k \in L <=> k \in D /\ k < m
    OBVIOUS
  <2> HIDE DEF L, D, E
  <2> QED
    BY <2>1, <2>2, <2>3, Zenon
<1>14. \A k \in Keys : Shows(s.right, k) = IF k < m THEN {} ELSE Shows(node, k)
  <2>1. \A k \in Keys : k < m <=> ~ (k >= m)
    BY <1>4, <1>10, LeafConstants DEF Keys
  <2> TAKE k \in Keys
  <2>2. /\ Shows(s.right, k) = IF k \in R THEN {Restrict(E, R)[k]} ELSE {}
        /\ k \in R => Restrict(E, R)[k] = E[k]
    BY <1>7, <1>8, Zenon DEF ShowsExactly
  <2>3. Shows(node, k) = IF k \in D THEN {E[k]} ELSE {}
    BY <1>2, Zenon
  <2>4. k \in R <=> k \in D /\ ~ (k < m)
    BY <2>1
  <2> HIDE DEF R, D, E
  <2> QED
    BY <2>2, <2>3, <2>4, Zenon
<1>15. m \in Keys /\ Shows(node, m) # {}
  <2>1. Shows(node, m) = {E[m]}
    BY <1>2, <1>10, Zenon
  <2> QED
    BY <1>4, <1>10, <2>1
<1> QED
  BY <1>3, <1>6, <1>7, <1>12, <1>13, <1>14, <1>15 DEF SplitOK
-----------------------------------------------------------------------------
\* What leaf i should show of x.
Holds(seps, mp, i, x) == IF RouteIn(seps, x) = i /\ x \in DOMAIN mp THEN {mp[x]} ELSE {}

(***************************************************************************)
(* A key is found in the leaf it is routed to, and only there, so that a   *)
(* split, which moves keys and changes routes, keeps every key where a     *)
(* search will look for it.                                                *)
(***************************************************************************)
TreeOK(lv, seps, next, mp) ==
  /\ next \in 1 .. MaxSeq + 1
  /\ mp \in EntryMap
  /\ seps \in Seq(Keys)
  /\ lv \in Seq(Seq(Bsets(next)))
  /\ Len(lv) = Len(seps) + 1
  /\ \A i \in 1 .. Len(lv) : NodeOK(lv[i], next) /\ nkeys(lv[i]) <= MAX_ENTRIES
  /\ \A i \in 1 .. Len(lv) : \A x \in Keys : Shows(lv[i], x) = Holds(seps, mp, i, x)

\* The inductive invariant.
LeafInv == TreeOK(leaves, separators, next_bset_seq, map)

\* A search descends to one of the leaves.
LEMMA TreeFacts ==
  ASSUME NEW lv, NEW seps, NEW next, NEW mp, TreeOK(lv, seps, next, mp)
  PROVE  /\ next \in Nat /\ next \in 1 .. MaxSeq + 1
         /\ Len(lv) \in Nat \ {0} /\ DOMAIN lv = 1 .. Len(lv)
         /\ \A k \in Keys : RouteIn(seps, k) \in 1 .. Len(lv)
         /\ Keys \in SUBSET Nat
<1>1. Len(seps) \in Nat /\ Len(lv) = Len(seps) + 1 /\ seps \in Seq(Keys) /\ DOMAIN lv = 1 .. Len(lv)
  BY DEF TreeOK
<1>2. next \in Nat /\ next \in 1 .. MaxSeq + 1
  BY LeafConstants DEF TreeOK
<1>3. \A k \in Keys : RouteIn(seps, k) \in 1 .. Len(lv)
  BY <1>1, RouteFacts
<1>4. Keys \in SUBSET Nat
  BY LeafConstants DEF Keys
<1> QED
  BY <1>1, <1>2, <1>3, <1>4

\* Leaf i becomes w.
LeafReplaced(lv, lv2, i, w) ==
  /\ DOMAIN lv2 = DOMAIN lv /\ Len(lv2) = Len(lv)
  /\ lv2[i] = w
  /\ \A j \in DOMAIN lv : j # i => lv2[j] = lv[j]

FunctionOn(f, n) == f = [i \in 1 .. n |-> f[i]]

\* The leaves are sequences of bsets with seqs below the next one.
LEMMA LeavesType ==
  ASSUME NEW n \in Nat, NEW lv, NEW next, FunctionOn(lv, n),
         \A i \in 1 .. n : NodeOK(lv[i], next)
  PROVE  lv \in Seq(Seq(Bsets(next))) /\ Len(lv) = n
<1>1. \A i \in 1 .. n : lv[i] \in Seq(Bsets(next))
  BY DEF NodeOK
<1>2. lv \in [1 .. n -> Seq(Bsets(next))]
  BY <1>1 DEF FunctionOn
<1> QED
  BY <1>2

\* The leaf that k is routed to has the write of e to k.
LEMMA WriteTree ==
  ASSUME NEW lv, NEW seps, NEW next, NEW mp, TreeOK(lv, seps, next, mp),
         NEW k \in Keys, NEW e \in Entries, NEW i, i = RouteIn(seps, k),
         NEW w, NEW next2 \in 1 .. MaxSeq + 1, next <= next2,
         NodeOK(w, next2), nkeys(w) <= MAX_ENTRIES,
         \A x \in Keys : Shows(w, x) = IF x = k THEN {e} ELSE Shows(lv[i], x),
         NEW lv2, FunctionOn(lv2, Len(lv)), LeafReplaced(lv, lv2, i, w)
  PROVE  TreeOK(lv2, seps, next2, With(mp, k, e))
<1> DEFINE mp2 == With(mp, k, e)
           n == Len(lv)
<1>1. /\ next \in Nat /\ n \in Nat \ {0} /\ DOMAIN lv = 1 .. n
      /\ \A x \in Keys : RouteIn(seps, x) \in 1 .. n
  BY TreeFacts
<1>2. i \in 1 .. n /\ next2 \in Nat
  BY <1>1, LeafConstants
<1>3. mp \in EntryMap
  BY DEF TreeOK
<1>4. mp2 \in EntryMap /\ DOMAIN mp2 = DOMAIN mp \cup {k} /\ mp2[k] = e
      /\ \A x \in DOMAIN mp : x # k => mp2[x] = mp[x]
  <2>1. Bound(mp, k, e, mp2)
    BY <1>3, WithFacts
  <2> HIDE DEF mp2
  <2> QED
    BY <2>1 DEF Bound
<1>5. ASSUME NEW j \in 1 .. n PROVE NodeOK(lv2[j], next2) /\ nkeys(lv2[j]) <= MAX_ENTRIES
  <2>1. CASE j = i
    BY <2>1 DEF LeafReplaced
  <2>2. CASE j # i
    <3>1. lv2[j] = lv[j]
      BY <1>1, <2>2 DEF LeafReplaced
    <3>2. NodeOK(lv[j], next) /\ nkeys(lv[j]) <= MAX_ENTRIES
      BY DEF TreeOK
    <3> QED
      BY <1>2, <3>1, <3>2, NodeGrows
  <2> QED
    BY <2>1, <2>2
<1>6. ASSUME NEW j \in 1 .. n, NEW x \in Keys
      PROVE  Shows(lv2[j], x) = Holds(seps, mp2, j, x)
  <2>1. Shows(lv[j], x) = Holds(seps, mp, j, x)
    BY DEF TreeOK
  <2> HIDE DEF mp2
  <2>2. CASE x = k
    <3>1. CASE j = i
      BY <1>4, <2>2, <3>1 DEF LeafReplaced, Holds
    <3>2. CASE j # i
      BY <1>1, <2>1, <2>2, <3>2 DEF LeafReplaced, Holds
    <3> QED
      BY <3>1, <3>2
  <2>3. CASE x # k
    <3>1. Shows(lv2[j], x) = Shows(lv[j], x)
      BY <1>1, <2>3 DEF LeafReplaced
    <3>2. /\ x \in DOMAIN mp2 <=> x \in DOMAIN mp
          /\ x \in DOMAIN mp => mp2[x] = mp[x]
      BY <1>4, <2>3
    <3> QED
      BY <2>1, <3>1, <3>2, Zenon DEF Holds
  <2> QED
    BY <2>2, <2>3
<1>7. lv2 \in Seq(Seq(Bsets(next2))) /\ Len(lv2) = n
  BY <1>1, <1>5, LeavesType, Zenon
<1> HIDE DEF mp2
<1>8. TreeOK(lv2, seps, next2, mp2)
  BY <1>4, <1>5, <1>6, <1>7 DEF TreeOK
<1> QED
  BY <1>8 DEF mp2

\* Leaf i becomes the leaves l and r.
LeafSplit(lv, lv2, i, l, r) ==
  /\ lv2[i] = l /\ lv2[i + 1] = r
  /\ \A j \in 1 .. i - 1 : lv2[j] = lv[j]
  /\ \A j \in i + 1 .. Len(lv) : lv2[j + 1] = lv[j]

\* The new separator sends every key to the half that has it.
LEMMA SplitTree ==
  ASSUME NEW lv, NEW seps, NEW next, NEW mp, TreeOK(lv, seps, next, mp),
         NEW i \in 1 .. Len(lv), NEW next2 \in 1 .. MaxSeq + 1, next <= next2,
         NEW s, SplitOK(lv[i], next2, s),
         NEW t \in Seq(Keys), Inserted(seps, i, s.median, t),
         NEW lv2, FunctionOn(lv2, Len(lv) + 1),
         LeafSplit(lv, lv2, i, s.left, s.right)
  PROVE  TreeOK(lv2, t, next2, mp)
<1> DEFINE m == s.median
           n == Len(lv)
           l == s.left
           r == s.right
<1>1. /\ n \in Nat \ {0} /\ DOMAIN lv = 1 .. n /\ Keys \in SUBSET Nat
      /\ \A x \in Keys : RouteIn(seps, x) \in 1 .. n
  BY TreeFacts
<1>2. /\ m \in Keys /\ Shows(lv[i], m) # {}
      /\ NodeOK(l, next2) /\ NodeOK(r, next2)
      /\ \A k \in Keys : Shows(l, k) = IF k < m THEN Shows(lv[i], k) ELSE {}
      /\ \A k \in Keys : Shows(r, k) = IF k < m THEN {} ELSE Shows(lv[i], k)
      /\ nkeys(l) + 1 <= nkeys(lv[i]) /\ nkeys(r) + 1 <= nkeys(lv[i])
  BY DEF SplitOK
<1>3. /\ lv2[i] = l /\ lv2[i + 1] = r
      /\ \A j \in 1 .. i - 1 : lv2[j] = lv[j]
      /\ \A j \in i + 1 .. n : lv2[j + 1] = lv[j]
  BY DEF LeafSplit
<1>4. /\ seps \in Seq(Keys) /\ n = Len(seps) + 1 /\ next2 \in Nat /\ mp \in EntryMap
      /\ Len(t) + 1 = n + 1
  <2>1. seps \in Seq(Keys) /\ n = Len(seps) + 1 /\ mp \in EntryMap
    BY DEF TreeOK
  <2>2. Len(t) = Len(seps) + 1
    BY DEF Inserted
  <2>3. next2 \in Nat
    BY LeafConstants
  <2> HIDE DEF n
  <2> QED
    BY <2>1, <2>2, <2>3
<1>5. \A j \in 1 .. n : NodeOK(lv[j], next) /\ nkeys(lv[j]) <= MAX_ENTRIES
  BY DEF TreeOK
<1>6. \A j \in 1 .. n : \A x \in Keys : Shows(lv[j], x) = Holds(seps, mp, j, x)
  BY DEF TreeOK
<1>7. Inserted(seps, i, m, t) /\ i \in 1 .. n
  OBVIOUS
<1>0. n \in Nat
  BY <1>1
<1> HIDE DEF m, n, l, r
<1>8. RouteIn(seps, m) = i
  <2>1. Holds(seps, mp, i, m) # {}
    BY <1>2, <1>6, <1>7
  <2> QED
    BY <2>1 DEF Holds
<1>9. ASSUME NEW x \in Keys
      PROVE  /\ RouteIn(seps, x) \in 1 .. n
             /\ m <= x => i <= RouteIn(seps, x)
             /\ x <= m => RouteIn(seps, x) <= i
             /\ RouteIn(t, x) = IF m <= x THEN RouteIn(seps, x) + 1 ELSE RouteIn(seps, x)
  <2>1. /\ m <= x => i <= RouteIn(seps, x)
        /\ x <= m => RouteIn(seps, x) <= i
    <3>1. \A j, k \in Keys : j <= k => RouteIn(seps, j) <= RouteIn(seps, k)
      BY <1>4, RouteFacts, Zenon
    <3>2. /\ m <= x => RouteIn(seps, m) <= RouteIn(seps, x)
          /\ x <= m => RouteIn(seps, x) <= RouteIn(seps, m)
      BY <1>2, <3>1, Zenon
    <3> QED
      BY <1>8, <3>2, Zenon
  <2>2. i \in 1 .. Len(seps) + 1
    BY <1>4, <1>7
  <2>3. RouteIn(t, x) = IF m <= x THEN RouteIn(seps, x) + 1 ELSE RouteIn(seps, x)
    <3>1. MovesFrom(m, seps, t, x)
      BY <1>2, <1>4, <1>7, <2>2, RouteInserted
    <3> QED
      BY <3>1 DEF MovesFrom
  <2> QED
    BY <1>1, <2>1, <2>3
<1>10. ASSUME NEW j \in 1 .. n + 1 PROVE NodeOK(lv2[j], next2) /\ nkeys(lv2[j]) <= MAX_ENTRIES
  <2>1. ASSUME NEW c \in 1 .. n PROVE NodeOK(lv[c], next2) /\ nkeys(lv[c]) <= MAX_ENTRIES
    BY <1>4, <1>5, NodeGrows
  <2>2. CASE j = i \/ j = i + 1
    <3>1. nkeys(l) \in Nat /\ nkeys(r) \in Nat /\ nkeys(lv[i]) \in Nat /\ nkeys(lv[i]) <= MAX_ENTRIES
      BY <1>2, <1>5, <1>7, CopiesFinite
    <3>2. nkeys(l) <= MAX_ENTRIES /\ nkeys(r) <= MAX_ENTRIES
      BY <1>2, <3>1, LeafConstants
    <3> QED
      BY <1>2, <1>3, <2>2, <3>2
  <2>3. CASE j \in 1 .. i - 1
    <3>1. j \in 1 .. n
      BY <1>0, <1>7, <2>3
    <3>2. lv2[j] = lv[j]
      BY <1>3, <2>3
    <3> QED
      BY <2>1, <3>1, <3>2
  <2>4. CASE j \in i + 2 .. n + 1
    <3>1. j - 1 \in i + 1 .. n /\ j - 1 \in 1 .. n /\ (j - 1) + 1 = j
      BY <1>1, <1>7, <2>4
    <3>2. lv2[j] = lv[j - 1]
      BY <1>3, <3>1
    <3> QED
      BY <2>1, <3>1, <3>2
  <2> QED
    BY <1>1, <1>7, <2>2, <2>3, <2>4
<1>11. ASSUME NEW j \in 1 .. n + 1, NEW x \in Keys
       PROVE  Shows(lv2[j], x) = Holds(t, mp, j, x)
  <2> DEFINE a == RouteIn(seps, x)
             b == RouteIn(t, x)
  <2>1. /\ a \in 1 .. n /\ (m <= x => i <= a) /\ (x <= m => a <= i)
        /\ b = IF m <= x THEN a + 1 ELSE a
        /\ m \in Nat /\ x \in Nat
    BY <1>1, <1>2, <1>9
  <2> HIDE DEF a, b
  <2>2. CASE j \in 1 .. i - 1
    <3>0. j \in 1 .. n
      BY <1>0, <1>7, <2>2
    <3>1. lv2[j] = lv[j]
      BY <1>3, <2>2
    <3>2. b = j <=> a = j
      BY <1>7, <2>1, <2>2
    <3>3. Shows(lv2[j], x) = Holds(seps, mp, j, x)
      BY <1>6, <3>0, <3>1
    <3> QED
      BY <3>2, <3>3, Zenon DEF Holds, a, b
  <2>3. CASE j = i
    <3>1. CASE x < m
      <4>1. b = a
        BY <2>1, <3>1
      <4>2. Shows(lv2[j], x) = Shows(lv[i], x)
        BY <1>2, <1>3, <2>3, <3>1
      <4>3. Shows(lv2[j], x) = Holds(seps, mp, j, x)
        BY <1>6, <1>7, <2>3, <4>2
      <4> QED
        BY <4>1, <4>3, Zenon DEF Holds, a, b
    <3>2. CASE ~ (x < m)
      <4>1. b # j
        BY <1>7, <2>1, <2>3, <3>2
      <4>2. Shows(lv2[j], x) = {}
        BY <1>2, <1>3, <2>3, <3>2
      <4> QED
        BY <4>1, <4>2 DEF Holds, b
    <3> QED
      BY <3>1, <3>2
  <2>4. CASE j = i + 1
    <3>1. CASE x < m
      <4>1. b # j
        BY <1>7, <2>1, <2>4, <3>1
      <4>2. Shows(lv2[j], x) = {}
        BY <1>2, <1>3, <2>4, <3>1
      <4> QED
        BY <4>1, <4>2 DEF Holds, b
    <3>2. CASE ~ (x < m)
      <4>1. b = j <=> a = i
        BY <1>7, <2>1, <2>4, <3>2
      <4>2. Shows(lv2[j], x) = Shows(lv[i], x)
        BY <1>2, <1>3, <2>4, <3>2
      <4>3. Shows(lv2[j], x) = Holds(seps, mp, i, x)
        BY <1>6, <1>7, <4>2
      <4> QED
        BY <4>1, <4>3, Zenon DEF Holds, a, b
    <3> QED
      BY <3>1, <3>2
  <2>5. CASE j \in i + 2 .. n + 1
    <3>1. j - 1 \in i + 1 .. n /\ j - 1 \in 1 .. n /\ (j - 1) + 1 = j
      BY <1>1, <1>7, <2>5
    <3>2. lv2[j] = lv[j - 1]
      BY <1>3, <3>1
    <3>3. b = j <=> a = j - 1
      BY <1>7, <2>1, <2>5, <3>1
    <3>4. Shows(lv2[j], x) = Holds(seps, mp, j - 1, x)
      BY <1>6, <3>1, <3>2
    <3> QED
      BY <3>3, <3>4, Zenon DEF Holds, a, b
  <2> QED
    BY <1>1, <1>7, <2>2, <2>3, <2>4, <2>5
<1>12. lv2 \in Seq(Seq(Bsets(next2))) /\ Len(lv2) = n + 1
  <2>1. n + 1 \in Nat /\ FunctionOn(lv2, n + 1)
    BY <1>1 DEF n
  <2> QED
    BY <1>10, <2>1, LeavesType, Zenon
<1>13. Len(lv2) = Len(t) + 1
  BY <1>4, <1>12
<1>14. \A j \in 1 .. Len(lv2) : /\ NodeOK(lv2[j], next2) /\ nkeys(lv2[j]) <= MAX_ENTRIES
                               /\ \A x \in Keys : Shows(lv2[j], x) = Holds(t, mp, j, x)
  BY <1>10, <1>11, <1>12, Zenon
<1> QED
  BY <1>4, <1>12, <1>13, <1>14, Zenon DEF TreeOK
-----------------------------------------------------------------------------
\* The winners of a leaf that are not dropped.
Kept(node, dropped) ==
  LET view == MergedView(node)
  IN  Restrict(view, {k \in DOMAIN view : <<k, view[k]>> \notin dropped})

\* Of what is shown of x, what is not dropped.
Left(shown, x, dropped) == {v \in shown : <<x, v>> \notin dropped}

\* node2 is node rebuilt without what is dropped.
KeptBy(node, dropped, seq, node2) == node2 = rebuild_leaf_from_entries(seq, Kept(node, dropped))

\* node2 shows what is left of what node shows, in no more entries.
LeftIn(node, dropped, node2) ==
  /\ \A x : Shows(node2, x) = Left(Shows(node, x), x, dropped)
  /\ nkeys(node2) <= nkeys(node)

\* A rebuilt leaf shows what is left of what it showed.
LEMMA KeptNode ==
  ASSUME NEW node, NEW next, NodeOK(node, next), NEW dropped,
         NEW next2 \in Nat, NEW seq \in 0 .. next2 - 1,
         NEW node2, KeptBy(node, dropped, seq, node2)
  PROVE  NodeOK(node2, next2) /\ LeftIn(node, dropped, node2)
<1> DEFINE view == MergedView(node)
           T == {k \in DOMAIN view : <<k, view[k]>> \notin dropped}
           g == Restrict(view, T)
<1>1. /\ view \in EntryMap
      /\ DOMAIN view = Stored(node)
      /\ \A k \in Stored(node) : Shows(node, k) = {view[k]}
      /\ \A k : k \notin Stored(node) => Shows(node, k) = {}
      /\ Cardinality(Stored(node)) <= nkeys(node)
  BY ViewFacts
<1>2. node2 = rebuild_leaf_from_entries(seq, g)
  BY DEF KeptBy, Kept
<1> HIDE DEF view
<1>3. T \in SUBSET DOMAIN view
  OBVIOUS
<1>4. \A k : k \in T <=> k \in DOMAIN view /\ <<k, view[k]>> \notin dropped
  OBVIOUS
<1> HIDE DEF T
<1>5. g = Restrict(view, T)
  OBVIOUS
<1> HIDE DEF g
<1>6. g \in EntryMap /\ DOMAIN g = T /\ \A k \in T : g[k] = view[k]
  BY <1>1, <1>3, <1>5, RestrictFacts
<1>7. NodeOK(node2, next2) /\ ShowsExactly(node2, g)
  BY <1>2, <1>6, Rebuilds
<1>8. ASSUME NEW x PROVE Shows(node2, x) = Left(Shows(node, x), x, dropped)
  <2>1. Shows(node2, x) = IF x \in T THEN {view[x]} ELSE {}
    BY <1>6, <1>7 DEF ShowsExactly
  <2>2. Shows(node, x) = IF x \in DOMAIN view THEN {view[x]} ELSE {}
    BY <1>1
  <2>3. x \in T <=> x \in DOMAIN view /\ <<x, view[x]>> \notin dropped
    BY <1>4
  <2> QED
    BY <2>1, <2>2, <2>3 DEF Left
<1>9. nkeys(node2) <= nkeys(node)
  <2>1. Stored(node) \in SUBSET Keys /\ T \in SUBSET Stored(node)
    BY <1>1, <1>3 DEF Stored
  <2>2. IsFiniteSet(Stored(node)) /\ Cardinality(Stored(node)) \in Nat /\ nkeys(node) \in Nat
    BY <2>1, CopiesFinite
  <2>3. Cardinality(T) <= Cardinality(Stored(node)) /\ IsFiniteSet(T)
    BY <2>1, <2>2, FS_Subset
  <2>4. nkeys(node2) = Cardinality(T) /\ Cardinality(T) \in Nat
    BY <1>6, <1>7, <2>3, FS_CardinalityType DEF ShowsExactly
  <2> QED
    BY <1>1, <2>2, <2>3, <2>4
<1> QED
  BY <1>7, <1>8, <1>9 DEF LeftIn

\* Fresh seqs, one per leaf of S, from left to right.
LEMMA FreshSeqs ==
  ASSUME NEW n \in Nat, NEW S \in SUBSET (1 .. n), NEW i \in S
  PROVE  /\ Cardinality(S) \in Nat
         /\ Cardinality({j \in S : j < i}) \in 0 .. Cardinality(S) - 1
<1> DEFINE B == {j \in S : j < i}
<1>1. IsFiniteSet(S)
  <2>1. IsFiniteSet(1 .. n)
    BY FS_Interval
  <2> QED
    BY <2>1, FS_Subset, Zenon
<1>2. B \in SUBSET S /\ i \notin B
  OBVIOUS
<1> HIDE DEF B
<1>3. IsFiniteSet(B) /\ Cardinality(B) <= Cardinality(S) /\ Cardinality(B) # Cardinality(S)
  <2>1. /\ IsFiniteSet(B) /\ Cardinality(B) <= Cardinality(S)
        /\ Cardinality(S) = Cardinality(B) => S = B
    BY <1>1, <1>2, FS_Subset, Zenon
  <2> QED
    BY <1>2, <2>1
<1>4. Cardinality(S) \in Nat /\ Cardinality(B) \in Nat
  BY <1>1, <1>3, FS_CardinalityType
<1>5. Cardinality(B) \in 0 .. Cardinality(S) - 1
  BY <1>3, <1>4
<1> QED
  BY <1>4, <1>5 DEF B

\* What Rebuild does to the leaves.
Rebuilt(lv, next, S, dropped) ==
  [i \in DOMAIN lv |->
     IF i \in S THEN rebuild_leaf_from_entries(next + Cardinality({j \in S : j < i}),
                                               Kept(lv[i], dropped))
     ELSE lv[i]]

\* The map without what is dropped.
KeptMap(mp, dropped) == Restrict(mp, {k \in DOMAIN mp : <<k, mp[k]>> \notin dropped})

\* Leaves that are not rebuilt show nothing that is dropped.
NothingDropped(lv, S, dropped) ==
  \A i \in DOMAIN lv \ S : \A x \in Keys : \A v \in Shows(lv[i], x) : <<x, v>> \notin dropped

\* Rebuilding the leaves of S without what is dropped, which no other leaf shows.
LEMMA RebuildTree ==
  ASSUME NEW lv, NEW seps, NEW next, NEW mp, TreeOK(lv, seps, next, mp),
         NEW S \in SUBSET DOMAIN lv, NEW dropped, NothingDropped(lv, S, dropped),
         NEW next2, next2 = next + Cardinality(S), next2 <= MaxSeq + 1
  PROVE  TreeOK(Rebuilt(lv, next, S, dropped), seps, next2, KeptMap(mp, dropped))
<1> DEFINE n == Len(lv)
           lv2 == Rebuilt(lv, next, S, dropped)
           D == {k \in DOMAIN mp : <<k, mp[k]>> \notin dropped}
           mp2 == KeptMap(mp, dropped)
<1>1. n \in Nat /\ DOMAIN lv = 1 .. n /\ next \in Nat /\ next \in 1 .. MaxSeq + 1
  BY TreeFacts
<1>2. /\ mp \in EntryMap /\ seps \in Seq(Keys) /\ n = Len(seps) + 1
      /\ \A i \in 1 .. n : NodeOK(lv[i], next) /\ nkeys(lv[i]) <= MAX_ENTRIES
      /\ \A i \in 1 .. n : \A x \in Keys : Shows(lv[i], x) = Holds(seps, mp, i, x)
  BY DEF TreeOK
<1>3. Cardinality(S) \in Nat
  <2>1. IsFiniteSet(1 .. n)
    BY <1>1, FS_Interval
  <2>2. IsFiniteSet(S)
    BY <1>1, <2>1, FS_Subset, Zenon
  <2> QED
    BY <2>2, FS_CardinalityType
<1>4. next2 \in Nat /\ next <= next2 /\ next2 \in 1 .. MaxSeq + 1
  BY <1>1, <1>3, LeafConstants
<1>5. /\ FunctionOn(lv2, n)
      /\ \A i \in 1 .. n : lv2[i] = IF i \in S
           THEN rebuild_leaf_from_entries(next + Cardinality({j \in S : j < i}), Kept(lv[i], dropped))
           ELSE lv[i]
  <2> HIDE DEF n
  <2> QED
    BY <1>1 DEF FunctionOn, Rebuilt
<1> HIDE DEF lv2, n
<1>6. ASSUME NEW i \in 1 .. n
      PROVE  /\ NodeOK(lv2[i], next2) /\ nkeys(lv2[i]) <= MAX_ENTRIES
             /\ \A x \in Keys : Shows(lv2[i], x) = Left(Shows(lv[i], x), x, dropped)
  <2>1. NodeOK(lv[i], next) /\ nkeys(lv[i]) <= MAX_ENTRIES
    BY <1>2
  <2>2. CASE i \in S
    <3> DEFINE q == next + Cardinality({j \in S : j < i})
    <3>1. KeptBy(lv[i], dropped, q, lv2[i])
      BY <1>5, <2>2 DEF KeptBy
    <3>2. Cardinality({j \in S : j < i}) \in 0 .. Cardinality(S) - 1
      BY <1>1, <2>2, FreshSeqs, Zenon
    <3>3. q \in 0 .. next2 - 1
      <4> DEFINE c == Cardinality({j \in S : j < i})
      <4>1. c \in 0 .. Cardinality(S) - 1
        BY <3>2
      <4> HIDE DEF c
      <4>2. next + c \in 0 .. next2 - 1
        BY <1>1, <1>3, <4>1
      <4> QED
        BY <4>2 DEF c
    <3> HIDE DEF q
    <3>6. NodeOK(lv2[i], next2) /\ LeftIn(lv[i], dropped, lv2[i])
      BY <1>4, <2>1, <3>1, <3>3, KeptNode
    <3>4. /\ NodeOK(lv2[i], next2) /\ nkeys(lv2[i]) <= nkeys(lv[i])
          /\ \A x : Shows(lv2[i], x) = Left(Shows(lv[i], x), x, dropped)
      BY <3>6 DEF LeftIn
    <3>5. nkeys(lv[i]) \in Nat /\ nkeys(lv2[i]) \in Nat
      BY <2>1, <3>4, CopiesFinite
    <3>7. nkeys(lv2[i]) <= MAX_ENTRIES
      <4>1. MAX_ENTRIES \in Nat
        BY LeafConstants
      <4> DEFINE a == nkeys(lv2[i])
                 b == nkeys(lv[i])
      <4>2. a \in Nat /\ b \in Nat /\ a <= b /\ b <= MAX_ENTRIES
        BY <2>1, <3>4, <3>5
      <4> HIDE DEF a, b
      <4>3. a <= MAX_ENTRIES
        BY <4>1, <4>2
      <4> QED
        BY <4>3 DEF a
    <3> QED
      BY <3>4, <3>7
  <2>3. CASE i \notin S
    <3>0. NodeOK(lv[i], next2)
      BY <1>4, <2>1, NodeGrows
    <3>1. lv2[i] = lv[i] /\ NodeOK(lv[i], next2)
      BY <1>5, <2>3, <3>0, Zenon
    <3>2. \A x \in Keys : Shows(lv[i], x) = Left(Shows(lv[i], x), x, dropped)
      BY <1>1, <2>3 DEF NothingDropped, Left
    <3> QED
      BY <2>1, <3>1, <3>2
  <2> QED
    BY <2>2, <2>3
<1>7. mp2 \in EntryMap /\ DOMAIN mp2 = D /\ \A k \in D : mp2[k] = mp[k]
  <2>1. D \in SUBSET DOMAIN mp /\ mp2 = Restrict(mp, D)
    BY DEF KeptMap
  <2> HIDE DEF D, mp2
  <2> QED
    BY <1>2, <2>1, RestrictFacts
<1> HIDE DEF mp2
<1>8. ASSUME NEW i \in 1 .. n, NEW x \in Keys
      PROVE  Shows(lv2[i], x) = Holds(seps, mp2, i, x)
  <2>1. Shows(lv2[i], x) = Left(Holds(seps, mp, i, x), x, dropped)
    BY <1>2, <1>6
  <2>2. x \in D <=> x \in DOMAIN mp /\ <<x, mp[x]>> \notin dropped
    OBVIOUS
  <2> HIDE DEF D
  <2>3. Holds(seps, mp2, i, x) = IF RouteIn(seps, x) = i /\ x \in D THEN {mp[x]} ELSE {}
    BY <1>7 DEF Holds
  <2>4. Holds(seps, mp, i, x) = IF RouteIn(seps, x) = i /\ x \in DOMAIN mp THEN {mp[x]} ELSE {}
    BY DEF Holds
  <2> QED
    BY <2>1, <2>2, <2>3, <2>4 DEF Left
<1>9. lv2 \in Seq(Seq(Bsets(next2))) /\ Len(lv2) = n
  BY <1>1, <1>5, <1>6, LeavesType
<1>10. TreeOK(lv2, seps, next2, mp2)
  BY <1>2, <1>4, <1>6, <1>7, <1>8, <1>9 DEF TreeOK
<1> QED
  BY <1>10 DEF lv2, mp2
-----------------------------------------------------------------------------
\* A full leaf has two keys, so that split_leaf_node can make two leaves of it.
LEMMA FullHasTwo ==
  ASSUME NEW node, NEW next, NodeOK(node, next), nkeys(node) >= MAX_ENTRIES
  PROVE  Cardinality(Stored(node)) > 1
<1> DEFINE B == 1 .. Len(node)
           c == Cardinality(Stored(node))
           d == Len(node)
<1>1. d \in Nat /\ d <= BSET_TREE_NR_MAX /\ DOMAIN node = B /\ nkeys(node) \in Nat
  <2>1. d \in Nat /\ DOMAIN node = B
    BY NodeFacts
  <2>2. nkeys(node) \in Nat
    BY CopiesFinite
  <2>3. d <= BSET_TREE_NR_MAX
    BY DEF NodeOK
  <2> QED
    BY <2>1, <2>2, <2>3
<1>2. Stored(node) \in SUBSET Keys
  BY DEF Stored
<1>3. IsFiniteSet(Stored(node)) /\ c \in Nat
  BY <1>2, CopiesFinite
<1>4. IsFiniteSet(B) /\ Cardinality(B) = d
  <2> HIDE DEF d
  <2>1. IsFiniteSet(1 .. d) /\ Cardinality(1 .. d) = IF 1 > d THEN 0 ELSE d - 1 + 1
    BY <1>1, FS_Interval
  <2>2. Cardinality(1 .. d) = d
    BY <1>1, <2>1
  <2> QED
    BY <2>1, <2>2 DEF d
<1>5. Copies(node) \in SUBSET (B \X Stored(node))
  <2>1. \A q \in Copies(node) : q \in B \X Stored(node)
    BY <1>1 DEF Copies, Stored, Hits
  <2> QED
    BY <2>1
<1>6. nkeys(node) <= d * c
  <2> HIDE DEF B, d, c
  <2>1. /\ IsFiniteSet(B \X Stored(node))
        /\ Cardinality(B \X Stored(node)) = Cardinality(B) * Cardinality(Stored(node))
    BY <1>3, <1>4, FS_Product
  <2>2. Cardinality(Copies(node)) <= Cardinality(B \X Stored(node))
    BY <1>5, <2>1, FS_Subset
  <2> QED
    BY <1>4, <2>1, <2>2 DEF nkeys, c
<1>7. BSET_TREE_NR_MAX < MAX_ENTRIES
  <2> DEFINE N == BSET_TREE_NR_MAX
             L == BSET_SOFT_LIMIT
             M == MAX_ENTRIES
  <2>1. N \in Nat /\ L \in Nat /\ L >= 1 /\ L * N < M /\ M \in Nat
    BY LeafConstants
  <2> HIDE DEF N, L, M
  <2>2. L * N = N + (L - 1) * N /\ (L - 1) * N >= 0
    BY <2>1
  <2> QED
    BY <2>1, <2>2 DEF N, M
<1> HIDE DEF c, d
<1>8. c = 0 => d * c = 0
  BY <1>1
<1>9. c = 1 => d * c = d
  BY <1>1
<1>10. ~ (c = 0) /\ ~ (c = 1)
  BY <1>1, <1>6, <1>7, <1>8, <1>9, LeafConstants
<1> QED
  BY <1>3, <1>10 DEF c

SplitAt(lv, i, l, r, t) == t = InsertAt([lv EXCEPT ![i] = r], i, l)

\* t is a list with one element more than lv.
OneMore(lv, t) ==
  FunctionOn(t, Len(lv) + 1) /\ Len(t) = Len(lv) + 1 /\ DOMAIN t = 1 .. Len(lv) + 1

\* The leaves after a split.
LEMMA SplitsAt ==
  ASSUME NEW S, NEW lv \in Seq(S), NEW i \in 1 .. Len(lv), NEW l \in S, NEW r \in S,
         NEW t, SplitAt(lv, i, l, r, t)
  PROVE  LeafSplit(lv, t, i, l, r) /\ OneMore(lv, t)
<1> DEFINE s == [lv EXCEPT ![i] = r]
           n == Len(lv)
<1>1. /\ n \in Nat /\ s \in Seq(S) /\ Len(s) = n /\ s[i] = r
      /\ \A j \in 1 .. n : j # i => s[j] = lv[j]
  OBVIOUS
<1>2. i \in 1 .. n
  OBVIOUS
<1>0. InsertOf(s, i, l, t)
  BY DEF SplitAt, InsertOf
<1> HIDE DEF s, n
<1>3. t \in Seq(S) /\ Inserted(s, i, l, t)
  <2>1. i \in 1 .. Len(s) + 1
    BY <1>1, <1>2
  <2> QED
    BY <1>0, <1>1, <2>1, InsertsAt
<1>4. /\ Len(t) = n + 1 /\ t[i] = l
      /\ \A j \in 1 .. i - 1 : t[j] = s[j]
      /\ \A j \in i .. n : t[j + 1] = s[j]
  BY <1>1, <1>3 DEF Inserted
<1>5. t[i + 1] = r
  BY <1>1, <1>2, <1>4
<1>6. \A j \in 1 .. i - 1 : t[j] = lv[j]
  BY <1>1, <1>2, <1>4
<1>7. \A j \in i + 1 .. n : t[j + 1] = lv[j]
  BY <1>1, <1>2, <1>4
<1>8. FunctionOn(t, n + 1) /\ DOMAIN t = 1 .. n + 1
  BY <1>3, <1>4 DEF FunctionOn
<1> QED
  BY <1>4, <1>5, <1>6, <1>7, <1>8 DEF LeafSplit, OneMore, n
-----------------------------------------------------------------------------
\* An empty leaf.
LEMMA InitTree == Init => LeafInv
<1> SUFFICES ASSUME Init PROVE LeafInv
  OBVIOUS
<1> DEFINE x == Bset(0, NoEntries, FALSE)
           node == <<x>>
<1>1. NoEntries \in EntryMap /\ DOMAIN NoEntries = {}
  BY DEF NoEntries, EntryMap
<1>2. x \in Bsets(1) /\ x.entries = NoEntries /\ Flagged(x)
  BY <1>1 DEF Bset, Bsets, Flagged, HasWhiteout
<1> HIDE DEF x
<1>3. NodeOK(node, 1) /\ ShowsExactly(node, NoEntries)
  BY <1>2, SingleBset
<1>4. nkeys(node) <= MAX_ENTRIES
  BY <1>1, <1>3, FS_EmptySet, LeafConstants DEF ShowsExactly
<1>5. \A k : Shows(node, k) = {}
  BY <1>1, <1>3 DEF ShowsExactly
<1>6. /\ leaves = <<node>> /\ separators = <<>> /\ next_bset_seq = 1 /\ map = NoEntries
  BY DEF Init, x
<1> HIDE DEF node
<1>7. /\ leaves \in Seq(Seq(Bsets(1))) /\ Len(leaves) = 1 /\ leaves[1] = node
      /\ separators \in Seq(Keys) /\ Len(separators) = 0
  BY <1>3, <1>6 DEF NodeOK
<1>8. \A i \in 1 .. Len(leaves) : i = 1
  BY <1>7
<1>9. \A i, y : Holds(separators, map, i, y) = {}
  BY <1>1, <1>6 DEF Holds
<1>10. next_bset_seq \in 1 .. MaxSeq + 1 /\ Len(leaves) = Len(separators) + 1
  BY <1>6, <1>7, LeafConstants
<1>11. \A i \in 1 .. Len(leaves) : NodeOK(leaves[i], 1) /\ nkeys(leaves[i]) <= MAX_ENTRIES
  BY <1>3, <1>4, <1>7, <1>8, Zenon
<1>12. \A i \in 1 .. Len(leaves) : \A y \in Keys :
         Shows(leaves[i], y) = Holds(separators, map, i, y)
  BY <1>5, <1>7, <1>8, <1>9, Zenon
<1>13. map \in EntryMap /\ leaves \in Seq(Seq(Bsets(next_bset_seq)))
  BY <1>1, <1>6, <1>7, Zenon
<1> QED
  BY <1>6, <1>7, <1>10, <1>11, <1>12, <1>13, Zenon DEF LeafInv, TreeOK

\* The search the actions do is the one over the separators.
LEMMA RouteOf ==
  ASSUME LeafInv, NEW k \in Keys
  PROVE  /\ Route(k) = RouteIn(separators, k) /\ Route(k) \in 1 .. Len(leaves)
         /\ DOMAIN leaves = 1 .. Len(leaves) /\ Len(leaves) \in Nat
         /\ NodeOK(leaves[Route(k)], next_bset_seq)
         /\ nkeys(leaves[Route(k)]) \in Nat /\ nkeys(leaves[Route(k)]) <= MAX_ENTRIES
         /\ next_bset_seq \in Nat
<1>1. Route(k) = RouteIn(separators, k)
  BY DEF Route, RouteIn, Passed
<1>2. TreeOK(leaves, separators, next_bset_seq, map)
  BY DEF LeafInv
<1>3. /\ next_bset_seq \in Nat /\ Len(leaves) \in Nat /\ DOMAIN leaves = 1 .. Len(leaves)
      /\ RouteIn(separators, k) \in 1 .. Len(leaves)
  BY <1>2, TreeFacts
<1>4. NodeOK(leaves[Route(k)], next_bset_seq) /\ nkeys(leaves[Route(k)]) <= MAX_ENTRIES
  BY <1>1, <1>2, <1>3 DEF TreeOK
<1> QED
  BY <1>1, <1>3, <1>4, CopiesFinite

ExceptAt(lv, i, w, lv2) == lv2 = [lv EXCEPT ![i] = w]

\* One leaf of the tree is overwritten.
LEMMA ExceptLeaf ==
  ASSUME NEW lv, NEW seps, NEW next, NEW mp, TreeOK(lv, seps, next, mp),
         NEW i \in 1 .. Len(lv), NEW w, NEW lv2, ExceptAt(lv, i, w, lv2)
  PROVE  FunctionOn(lv2, Len(lv)) /\ LeafReplaced(lv, lv2, i, w)
<1>1. lv \in Seq(Seq(Bsets(next)))
  BY DEF TreeOK
<1> DEFINE n == Len(lv)
           T == Seq(Bsets(next))
<1>2. n \in Nat /\ DOMAIN lv = 1 .. n /\ i \in 1 .. n /\ lv \in [1 .. n -> T]
  BY <1>1
<1> HIDE DEF n, T
<1>3. DOMAIN lv2 = 1 .. n /\ lv2[i] = w /\ \A j \in 1 .. n : j # i => lv2[j] = lv[j]
  BY <1>2 DEF ExceptAt
<1>4. lv2 \in [1 .. n -> T \cup {w}]
  BY <1>2 DEF ExceptAt
<1>5. FunctionOn(lv2, n)
  BY <1>4 DEF FunctionOn
<1>6. Len(lv2) = n
  BY <1>2, <1>4
<1> QED
  BY <1>2, <1>3, <1>5, <1>6 DEF LeafReplaced, n

\* Overwriting what the map has of k.
LEMMA ExceptWith ==
  ASSUME NEW f \in EntryMap, NEW k \in DOMAIN f, NEW e
  PROVE  [f EXCEPT ![k] = e] = With(f, k, e)
<1> DEFINE D == DOMAIN f
<1>1. f \in [D -> Entries] /\ D \cup {k} = D
  BY EntryMapFacts
<1>2. With(f, k, e) = [x \in D |-> IF x = k THEN e ELSE f[x]]
  BY <1>1 DEF With
<1> HIDE DEF D
<1> DEFINE g == [f EXCEPT ![k] = e]
           h == [x \in D |-> IF x = k THEN e ELSE f[x]]
<1>3. g \in [D -> Entries \cup {e}] /\ h \in [D -> Entries \cup {e}] /\ \A x \in D : g[x] = h[x]
  BY <1>1
<1> HIDE DEF g, h
<1>4. g = h
  BY <1>3
<1> QED
  BY <1>2, <1>4, Zenon DEF g, h

\* A write the leaf absorbs.
LEMMA InsertInPlaceTree ==
  ASSUME LeafInv, NEW k \in Keys, NEW e \in Entries, InsertInPlace(k, e)
  PROVE  LeafInv'
<1> DEFINE i == Route(k)
           node == leaves[i]
           w == apply(node, k, e, next_bset_seq)
<1>1. /\ i = RouteIn(separators, k) /\ i \in 1 .. Len(leaves)
      /\ NodeOK(node, next_bset_seq)
      /\ nkeys(node) \in Nat /\ nkeys(node) <= MAX_ENTRIES /\ next_bset_seq \in Nat
  BY RouteOf
<1>2. /\ Absorbs(node, k) \/ nkeys(node) < MAX_ENTRIES
      /\ w.seq <= MaxSeq + 1
      /\ leaves' = [leaves EXCEPT ![i] = w.node]
      /\ next_bset_seq' = w.seq /\ separators' = separators /\ map' = With(map, k, e)
  BY DEF InsertInPlace
<1>3. TreeOK(leaves, separators, next_bset_seq, map)
  BY DEF LeafInv
<1>4. Applied(node, next_bset_seq, k, e, w)
  <2>1. w = apply(node, k, e, next_bset_seq)
    OBVIOUS
  <2> HIDE DEF w, node
  <2> QED
    BY <1>1, <2>1, Applies
<1> HIDE DEF w, node, i
<1>5. /\ w.seq \in {next_bset_seq, next_bset_seq + 1} /\ NodeOK(w.node, w.seq)
      /\ \A x : Shows(w.node, x) = IF x = k THEN {e} ELSE Shows(node, x)
      /\ nkeys(w.node) <= nkeys(node) + 1
      /\ Absorbs(node, k) => nkeys(w.node) <= nkeys(node)
  BY <1>4 DEF Applied
<1>6. w.seq \in 1 .. MaxSeq + 1 /\ next_bset_seq <= w.seq
  <2>1. next_bset_seq >= 1
    BY <1>1, <1>3 DEF TreeOK
  <2> QED
    BY <1>1, <1>2, <1>5, <2>1, LeafConstants
<1>7. nkeys(w.node) <= MAX_ENTRIES
  <2>1. nkeys(w.node) \in Nat
    BY <1>5, CopiesFinite
  <2> QED
    BY <1>1, <1>2, <1>5, <2>1, LeafConstants
<1>8. FunctionOn(leaves', Len(leaves)) /\ LeafReplaced(leaves, leaves', i, w.node)
  <2>1. ExceptAt(leaves, i, w.node, leaves')
    BY <1>2 DEF ExceptAt
  <2> QED
    BY <1>1, <1>3, <2>1, ExceptLeaf, Zenon
<1>9. \A x \in Keys : Shows(w.node, x) = IF x = k THEN {e} ELSE Shows(leaves[i], x)
  BY <1>5 DEF node
<1>10. TreeOK(leaves', separators, w.seq, With(map, k, e))
  BY <1>1, <1>3, <1>5, <1>6, <1>7, <1>8, <1>9, WriteTree, Zenon
<1> QED
  BY <1>2, <1>10, Zenon DEF LeafInv

\* flip_kind_in_place.
LEMMA FlipTree ==
  ASSUME LeafInv, NEW k \in Keys, Flip(k)
  PROVE  LeafInv'
<1> DEFINE i == Route(k)
           node == leaves[i]
           b == Flipped(node, k)
           node2 == [node EXCEPT ![b].entries[k] = Deleted]
           next == next_bset_seq
<1>1. /\ i = RouteIn(separators, k) /\ i \in 1 .. Len(leaves)
      /\ NodeOK(node, next)
      /\ nkeys(node) \in Nat /\ nkeys(node) <= MAX_ENTRIES /\ next \in Nat
  BY RouteOf
<1>2. /\ k \in DOMAIN map
      /\ leaves' = [leaves EXCEPT ![i] = node2]
      /\ map' = [map EXCEPT ![k] = Deleted]
      /\ separators' = separators /\ next_bset_seq' = next
  BY DEF Flip
<1>3. TreeOK(leaves, separators, next, map)
  BY DEF LeafInv
<1>4. map' = With(map, k, Deleted)
  <2>1. map \in EntryMap
    BY <1>3 DEF TreeOK
  <2> QED
    BY <1>2, <2>1, ExceptWith
<1>5. Newest(node, k, b)
  <2>0. Shows(node, k) = Holds(separators, map, i, k)
    BY <1>1, <1>3 DEF TreeOK
  <2>1. Shows(node, k) = {map[k]}
    BY <1>1, <1>2, <2>0, Zenon DEF Holds
  <2>2. Hits(node, k) # {}
    BY <2>1 DEF Shows
  <2> QED
    BY <1>1, <2>2, FindsNewest DEF Flipped
<1> HIDE DEF b, node, i, next
<1>6. /\ b \in 1 .. Len(node) /\ k \in DOMAIN node[b].entries
      /\ \A c \in Hits(node, k) : c <= b
      /\ node[b] \in Bsets(next) /\ node[b].entries \in EntryMap
  BY <1>1, <1>5, NodeFacts DEF Newest, Hits
<1>7. Deleted \in Entries /\ Deleted # Whiteout
  BY DEF Entries, Deleted, Whiteout
<1> DEFINE f == node[b].entries
           x == Bset(node[b].seq, With(f, k, Deleted), node[b].needs_whiteout)
<1>8. [f EXCEPT ![k] = Deleted] = With(f, k, Deleted)
  BY <1>6, ExceptWith
<1>9. [node[b] EXCEPT !.entries[k] = Deleted] = x
  <2>1. [node[b] EXCEPT !.entries[k] = Deleted] = [node[b] EXCEPT !.entries = With(f, k, Deleted)]
    BY <1>8, Zenon
  <2>2. node[b] = [seq |-> node[b].seq, entries |-> f, needs_whiteout |-> node[b].needs_whiteout]
    BY <1>6 DEF Bsets
  <2> HIDE DEF f
  <2>3. [node[b] EXCEPT !.entries = With(f, k, Deleted)] = x
    BY <2>2 DEF Bset
  <2> QED
    BY <2>1, <2>3, Zenon
<1>10. node2 = [node EXCEPT ![b] = x]
  BY <1>9, Zenon
<1>11. x \in Bsets(next)
  <2>1. Bound(f, k, Deleted, With(f, k, Deleted))
    BY <1>6, <1>7, WithFacts
  <2> QED
    BY <1>6, <2>1 DEF Bset, Bsets, Bound
<1> HIDE DEF node2
<1>12. Replaced(node, next, node2, b, x)
  <2> HIDE DEF x
  <2> QED
    BY <1>1, <1>6, <1>10, <1>11 DEF Replaced, NodeOK
<1>13. NodeOK(node2, next) /\ Rewritten(node, node2, b, k, Deleted)
  <2>1. node[b].needs_whiteout \in BOOLEAN
    BY <1>6 DEF Bsets
  <2>2. node[b].needs_whiteout \/ Deleted = Whiteout => node[b].needs_whiteout
    BY <1>7
  <2> QED
    BY <1>1, <1>6, <1>7, <1>12, <2>1, <2>2, RewriteBset, Zenon
<1>14. nkeys(node2) <= MAX_ENTRIES
  <2>1. nkeys(node2) = nkeys(node)
    BY <1>1, <1>6, <1>13, RewriteCount
  <2> QED
    BY <1>1, <2>1
<1>15. \A y \in Keys : Shows(node2, y) = IF y = k THEN {Deleted} ELSE Shows(leaves[i], y)
  BY <1>13 DEF Rewritten, node
<1>16. FunctionOn(leaves', Len(leaves)) /\ LeafReplaced(leaves, leaves', i, node2)
  <2>1. ExceptAt(leaves, i, node2, leaves')
    BY <1>2 DEF ExceptAt
  <2> QED
    BY <1>1, <1>3, <2>1, ExceptLeaf, Zenon
<1>17. next \in 1 .. MaxSeq + 1 /\ next <= next
  BY <1>1, <1>3 DEF TreeOK
<1>18. TreeOK(leaves', separators, next, With(map, k, Deleted))
  BY <1>1, <1>3, <1>7, <1>13, <1>14, <1>15, <1>16, <1>17, WriteTree, Zenon
<1> QED
  BY <1>2, <1>4, <1>18, Zenon DEF LeafInv

\* A write to a full leaf: the split alone keeps the invariant, and the write
\* then goes to the half that the new separator routes the key to.
LEMMA InsertSplitTree ==
  ASSUME LeafInv, NEW k \in Keys, NEW e \in Entries, InsertSplit(k, e)
  PROVE  LeafInv'
<1> DEFINE i     == Route(k)
           node  == leaves[i]
           seq   == IF Len(node) > 1 THEN next_bset_seq + 1 ELSE next_bset_seq
           s     == SplitLeaf(Canonical(node, next_bset_seq))
           half  == IF k < s.median THEN s.left ELSE s.right
           w     == apply(half, k, e, seq)
           left  == IF k < s.median THEN w.node ELSE s.left
           right == IF k < s.median THEN s.right ELSE w.node
           lv    == InsertAt([leaves EXCEPT ![i] = s.right], i, s.left)
           seps  == InsertAt(separators, i, s.median)
<1>1. /\ i = RouteIn(separators, k) /\ i \in 1 .. Len(leaves) /\ Len(leaves) \in Nat
      /\ NodeOK(node, next_bset_seq)
      /\ nkeys(node) \in Nat /\ nkeys(node) <= MAX_ENTRIES /\ next_bset_seq \in Nat
  BY RouteOf
<1>2. /\ nkeys(node) >= MAX_ENTRIES
      /\ w.seq <= MaxSeq + 1
      /\ leaves' = InsertAt([leaves EXCEPT ![i] = right], i, left)
      /\ separators' = seps /\ next_bset_seq' = w.seq /\ map' = With(map, k, e)
  BY DEF InsertSplit
<1>3. TreeOK(leaves, separators, next_bset_seq, map)
  BY DEF LeafInv
<1>4. /\ separators \in Seq(Keys) /\ Len(leaves) = Len(separators) + 1 /\ next_bset_seq >= 1
      /\ leaves \in Seq(Seq(Bsets(next_bset_seq)))
  BY <1>1, <1>3 DEF TreeOK
<1>5. /\ seq = IF Len(node) > 1 THEN next_bset_seq + 1 ELSE next_bset_seq
      /\ seq \in {next_bset_seq, next_bset_seq + 1}
  OBVIOUS
<1>6. s = SplitLeaf(Canonical(node, next_bset_seq))
  OBVIOUS
<1>7. w = apply(half, k, e, seq)
  OBVIOUS
<1>8. /\ half = IF k < s.median THEN s.left ELSE s.right
      /\ left = IF k < s.median THEN w.node ELSE s.left
      /\ right = IF k < s.median THEN s.right ELSE w.node
  OBVIOUS
<1>9. seps = InsertAt(separators, i, s.median)
  OBVIOUS
<1>10. SplitAt(leaves, i, s.left, s.right, lv) /\ SplitAt(leaves, i, left, right, leaves')
  BY <1>2 DEF SplitAt
<1> HIDE DEF i, node, seq, s, half, w, left, right, lv, seps
<1>11. Cardinality(Stored(node)) > 1
  BY <1>1, <1>2, FullHasTwo
<1>12. SplitOK(node, seq, s)
  BY <1>1, <1>5, <1>6, <1>11, Splits
<1>13. /\ s.median \in Keys /\ NodeOK(s.left, seq) /\ NodeOK(s.right, seq)
       /\ nkeys(s.left) + 1 <= nkeys(node) /\ nkeys(s.right) + 1 <= nkeys(node)
  BY <1>12 DEF SplitOK
<1>14. NodeOK(half, seq) /\ nkeys(half) + 1 <= nkeys(node)
  BY <1>8, <1>13
<1>15. Applied(half, seq, k, e, w)
  BY <1>7, <1>14, Applies
<1>16. /\ w.seq \in {seq, seq + 1} /\ NodeOK(w.node, w.seq)
       /\ \A x : Shows(w.node, x) = IF x = k THEN {e} ELSE Shows(half, x)
       /\ nkeys(w.node) <= nkeys(half) + 1
  BY <1>15 DEF Applied
<1>17. /\ seq \in Nat /\ w.seq \in Nat /\ next_bset_seq <= seq /\ seq <= w.seq
       /\ seq \in 1 .. MaxSeq + 1 /\ w.seq \in 1 .. MaxSeq + 1
  <2>1. next_bset_seq \in Nat /\ next_bset_seq >= 1 /\ MaxSeq \in Nat /\ w.seq <= MaxSeq + 1
    BY <1>1, <1>2, <1>4, LeafConstants
  <2>2. seq \in Nat /\ w.seq \in Nat /\ next_bset_seq <= seq /\ seq <= w.seq
    BY <1>5, <1>16, <2>1
  <2> QED
    BY <2>1, <2>2
<1>18. nkeys(w.node) <= MAX_ENTRIES
  <2>1. nkeys(w.node) \in Nat /\ nkeys(half) \in Nat
    BY <1>14, <1>16, CopiesFinite
  <2> QED
    BY <1>1, <1>14, <1>16, <2>1, LeafConstants
<1>19. seps \in Seq(Keys) /\ Inserted(separators, i, s.median, seps)
  <2>1. i \in 1 .. Len(separators) + 1
    BY <1>1, <1>4
  <2>2. InsertOf(separators, i, s.median, seps)
    BY <1>9 DEF InsertOf
  <2> QED
    BY <1>4, <1>13, <2>1, <2>2, InsertsAt
<1> DEFINE T == Seq(Bsets(w.seq))
<1>20. leaves \in Seq(T) /\ s.left \in T /\ s.right \in T /\ left \in T /\ right \in T
  <2>1. NodeOK(s.left, w.seq) /\ NodeOK(s.right, w.seq)
    BY <1>13, <1>17, NodeGrows
  <2>2. s.left \in T /\ s.right \in T /\ w.node \in T
    BY <1>16, <2>1 DEF NodeOK
  <2>3. leaves \in [1 .. Len(leaves) -> T]
    <3>1. ASSUME NEW j \in 1 .. Len(leaves) PROVE leaves[j] \in T
      <4>1. NodeOK(leaves[j], next_bset_seq)
        BY <1>3 DEF TreeOK
      <4>2. NodeOK(leaves[j], w.seq)
        BY <1>1, <1>17, <4>1, NodeGrows
      <4> QED
        BY <4>2 DEF NodeOK
    <3> HIDE DEF T
    <3> QED
      BY <1>4, <3>1
  <2> HIDE DEF T
  <2>4. leaves \in Seq(T)
    BY <1>1, <2>3
  <2> QED
    BY <1>8, <2>2, <2>4
<1> HIDE DEF T
<1> DEFINE n == Len(leaves)
<1>21. /\ LeafSplit(leaves, lv, i, s.left, s.right)
       /\ FunctionOn(lv, n + 1) /\ Len(lv) = n + 1 /\ DOMAIN lv = 1 .. n + 1
  <2>1. LeafSplit(leaves, lv, i, s.left, s.right) /\ OneMore(leaves, lv)
    BY <1>1, <1>10, <1>20, SplitsAt
  <2> QED
    BY <2>1, Zenon DEF OneMore
<1>22. /\ LeafSplit(leaves, leaves', i, left, right)
       /\ FunctionOn(leaves', n + 1) /\ Len(leaves') = n + 1 /\ DOMAIN leaves' = 1 .. n + 1
  <2>1. LeafSplit(leaves, leaves', i, left, right) /\ OneMore(leaves, leaves')
    BY <1>1, <1>10, <1>20, SplitsAt
  <2> QED
    BY <2>1, Zenon DEF OneMore
<1>23. TreeOK(lv, seps, seq, map)
  <2>1. SplitOK(leaves[i], seq, s)
    BY <1>12 DEF node
  <2> QED
    BY <1>1, <1>3, <1>17, <1>19, <1>21, <2>1, SplitTree, Zenon
<1> DEFINE j == IF k < s.median THEN i ELSE i + 1
<1>24. j = RouteIn(seps, k)
  <2>1. i \in 1 .. Len(separators) + 1
    BY <1>1, <1>4
  <2>2. RouteIn(seps, k) = IF s.median <= k THEN i + 1 ELSE i
    <3>1. MovesFrom(s.median, separators, seps, k)
      BY <1>4, <1>13, <1>19, <2>1, RouteInserted
    <3> QED
      BY <1>1, <3>1 DEF MovesFrom
  <2>3. s.median \in Nat /\ k \in Nat
    BY <1>3, <1>13, TreeFacts
  <2> QED
    BY <2>2, <2>3
<1>25. LeafReplaced(lv, leaves', j, w.node) /\ lv[j] = half
  <2>1. /\ lv[i] = s.left /\ lv[i + 1] = s.right
        /\ \A c \in 1 .. i - 1 : lv[c] = leaves[c]
        /\ \A c \in i + 1 .. n : lv[c + 1] = leaves[c]
    BY <1>21 DEF LeafSplit
  <2>2. /\ leaves'[i] = left /\ leaves'[i + 1] = right
        /\ \A c \in 1 .. i - 1 : leaves'[c] = leaves[c]
        /\ \A c \in i + 1 .. n : leaves'[c + 1] = leaves[c]
    BY <1>22 DEF LeafSplit
  <2>3. leaves'[j] = w.node /\ lv[j] = half
    BY <1>8, <2>1, <2>2
  <2>4. ASSUME NEW c \in 1 .. n + 1, c # j PROVE leaves'[c] = lv[c]
    <3>1. CASE c = i \/ c = i + 1
      BY <1>8, <2>1, <2>2, <2>4, <3>1
    <3>2. CASE c \in 1 .. i - 1
      BY <2>1, <2>2, <3>2
    <3>3. CASE c \in i + 2 .. n + 1
      <4>1. c - 1 \in i + 1 .. n /\ (c - 1) + 1 = c
        BY <1>1, <3>3
      <4> QED
        BY <2>1, <2>2, <4>1
    <3> QED
      BY <1>1, <3>1, <3>2, <3>3
  <2> QED
    BY <1>21, <1>22, <2>3, <2>4 DEF LeafReplaced
<1>26. \A x \in Keys : Shows(w.node, x) = IF x = k THEN {e} ELSE Shows(lv[j], x)
  BY <1>16, <1>25
<1>27. FunctionOn(leaves', Len(lv))
  BY <1>21, <1>22
<1> HIDE DEF j
<1>28. TreeOK(leaves', seps, w.seq, With(map, k, e))
  BY <1>16, <1>17, <1>18, <1>23, <1>24, <1>25, <1>26, <1>27, WriteTree, Zenon
<1> QED
  BY <1>2, <1>28, Zenon DEF LeafInv

\* Leaves rebuilt without what is dropped.
LEMMA RebuildKeeps ==
  ASSUME LeafInv, NEW S \in SUBSET DOMAIN leaves, NEW dropped,
         NothingDropped(leaves, S, dropped), Rebuild(S, dropped)
  PROVE  LeafInv'
<1> DEFINE next2 == next_bset_seq + Cardinality(S)
<1>1. /\ next2 <= MaxSeq + 1
      /\ leaves' = Rebuilt(leaves, next_bset_seq, S, dropped)
      /\ next_bset_seq' = next2
      /\ map' = KeptMap(map, dropped)
      /\ separators' = separators
  BY DEF Rebuild, Rebuilt, KeptMap, Kept
<1>2. TreeOK(leaves, separators, next_bset_seq, map)
  BY DEF LeafInv
<1>3. TreeOK(Rebuilt(leaves, next_bset_seq, S, dropped), separators, next2, KeptMap(map, dropped))
  BY <1>1, <1>2, RebuildTree, Zenon
<1> QED
  BY <1>1, <1>3, Zenon DEF LeafInv

\* What a leaf shows of x is in the last of its bsets with a copy of x.
LEMMA ShownFrom ==
  ASSUME NEW node, NEW next, NodeOK(node, next), NEW x, NEW v \in Shows(node, x)
  PROVE  \E b \in DOMAIN node : /\ x \in DOMAIN node[b].entries /\ node[b].entries[x] = v
                                /\ Flagged(node[b])
<1> DEFINE b == merged_find(node, x)
<1>1. Hits(node, x) # {} /\ v = node[b].entries[x]
  BY DEF Shows
<1>2. Newest(node, x, b)
  BY <1>1, FindsNewest
<1> HIDE DEF b
<1>3. b \in DOMAIN node /\ x \in DOMAIN node[b].entries
  BY <1>2 DEF Newest, Hits
<1>4. Flagged(node[b])
  BY <1>3, NodeFacts DEF NodeOK
<1> QED
  BY <1>1, <1>3, <1>4

\* A leaf that drop_snapshot_keys skips has no key of the dead snapshot.
LEMMA DropTree ==
  ASSUME LeafInv, NEW dead \in Snaps, drop_snapshot_keys(dead)
  PROVE  LeafInv'
<1> DEFINE dropped == {k \in Keys : snap_id(k) = dead} \X Entries
           S == {i \in DOMAIN leaves : leaf_has_snap_entries(leaves[i], dead)}
<1>1. Rebuild(S, dropped) /\ S \in SUBSET DOMAIN leaves
  BY DEF drop_snapshot_keys
<1>2. NothingDropped(leaves, S, dropped)
  <2> SUFFICES ASSUME NEW i \in DOMAIN leaves \ S, NEW x \in Keys, NEW v \in Shows(leaves[i], x)
               PROVE  <<x, v>> \notin dropped
    BY Zenon DEF NothingDropped
  <2>1. NodeOK(leaves[i], next_bset_seq)
    BY DEF LeafInv, TreeOK
  <2>2. PICK b \in DOMAIN leaves[i] : x \in DOMAIN leaves[i][b].entries
    BY <2>1, ShownFrom
  <2>3. ~ leaf_has_snap_entries(leaves[i], dead)
    OBVIOUS
  <2>4. snap_id(x) # dead
    BY <2>2, <2>3 DEF leaf_has_snap_entries
  <2> QED
    BY <2>4
<1> HIDE DEF S, dropped
<1> QED
  BY <1>1, <1>2, RebuildKeeps

\* A leaf that compact_whiteouts skips has no whiteout to drop, as bsets with
\* one are flagged.
LEMMA CompactTree ==
  ASSUME LeafInv, NEW dead \in SUBSET Snaps, compact_whiteouts(dead)
  PROVE  LeafInv'
<1> DEFINE dropped == {k \in Keys : snap_id(k) \in dead} \X {Whiteout}
           S == {i \in DOMAIN leaves : leaf_has_droppable_whiteout(leaves[i], dead)}
<1>1. Rebuild(S, dropped) /\ S \in SUBSET DOMAIN leaves
  BY DEF compact_whiteouts
<1>2. NothingDropped(leaves, S, dropped)
  <2> SUFFICES ASSUME NEW i \in DOMAIN leaves \ S, NEW x \in Keys, NEW v \in Shows(leaves[i], x),
                      <<x, v>> \in dropped
               PROVE  FALSE
    BY Zenon DEF NothingDropped
  <2>1. NodeOK(leaves[i], next_bset_seq)
    BY DEF LeafInv, TreeOK
  <2>2. PICK b \in DOMAIN leaves[i] :
          /\ x \in DOMAIN leaves[i][b].entries /\ leaves[i][b].entries[x] = v
          /\ Flagged(leaves[i][b])
    BY <2>1, ShownFrom
  <2>3. v = Whiteout /\ snap_id(x) \in dead
    OBVIOUS
  <2>4. leaves[i][b].needs_whiteout
    BY <2>2, <2>3 DEF Flagged, HasWhiteout
  <2>5. leaf_has_droppable_whiteout(leaves[i], dead)
    BY <2>2, <2>3, <2>4 DEF leaf_has_droppable_whiteout
  <2> QED
    BY <2>5
<1> HIDE DEF S, dropped
<1> QED
  BY <1>1, <1>2, RebuildKeeps

\* Every step keeps the invariant.
LEMMA StepTree == LeafInv /\ [Next]_vars => LeafInv'
<1> SUFFICES ASSUME LeafInv, [Next]_vars PROVE LeafInv'
  OBVIOUS
<1>1. CASE \E k \in Keys, e \in Entries : InsertInPlace(k, e)
  BY <1>1, InsertInPlaceTree
<1>2. CASE \E k \in Keys, e \in Entries : InsertSplit(k, e)
  BY <1>2, InsertSplitTree
<1>3. CASE \E k \in Keys : Flip(k)
  BY <1>3, FlipTree
<1>4. CASE \E dead \in Snaps : drop_snapshot_keys(dead)
  BY <1>4, DropTree
<1>5. CASE \E dead \in SUBSET Snaps : compact_whiteouts(dead)
  BY <1>5, CompactTree
<1>6. CASE UNCHANGED vars
  BY <1>6 DEF vars, LeafInv
<1> QED
  BY <1>1, <1>2, <1>3, <1>4, <1>5, <1>6 DEF Next

\* The invariant holds in every state.
LEMMA LeafInvHolds == Spec => []LeafInv
  BY InitTree, StepTree, PTL DEF Spec

(***************************************************************************)
(* Through overwrites, flips, new bsets, compactions, splits and drops a   *)
(* search returns what was last written (find_raw, insert_leaf,            *)
(* split_leaf_node, flip_kind_in_place, drop_snapshot_keys).               *)
(***************************************************************************)
THEOREM SearchFindsLastWrite == Spec => []ReadsLatest
<1>1. LeafInv => ReadsLatest
  <2> SUFFICES ASSUME LeafInv, NEW k \in Keys
               PROVE  find_raw(k) = IF k \in DOMAIN map THEN {map[k]} ELSE {}
    BY DEF ReadsLatest
  <2>1. Route(k) = RouteIn(separators, k) /\ Route(k) \in 1 .. Len(leaves)
    BY RouteOf
  <2>2. find_raw(k) = Shows(leaves[Route(k)], k)
    BY DEF find_raw, Shows
  <2>3. Shows(leaves[Route(k)], k) = Holds(separators, map, Route(k), k)
    BY <2>1 DEF LeafInv, TreeOK
  <2> QED
    BY <2>1, <2>2, <2>3 DEF Holds
<1> QED
  BY <1>1, LeafInvHolds, PTL

(***************************************************************************)
(* A leaf never outgrows its block, and a full one can be split            *)
(* (start_new_bset, append_to_last_bset, split_leaf_node).                 *)
(***************************************************************************)
THEOREM LeavesFit == Spec => []LeafFits
<1>1. LeafInv => LeafFits
  <2> SUFFICES ASSUME LeafInv, NEW i \in DOMAIN leaves
               PROVE  /\ Len(leaves[i]) <= BSET_TREE_NR_MAX
                      /\ nkeys(leaves[i]) <= MAX_ENTRIES
                      /\ nkeys(leaves[i]) = MAX_ENTRIES
                           => Cardinality(DOMAIN MergedView(leaves[i])) > 1
    BY DEF LeafFits
  <2>1. NodeOK(leaves[i], next_bset_seq) /\ nkeys(leaves[i]) <= MAX_ENTRIES
    BY DEF LeafInv, TreeOK
  <2>2. Len(leaves[i]) <= BSET_TREE_NR_MAX
    BY <2>1, LeafConstants DEF NodeOK
  <2>3. nkeys(leaves[i]) = MAX_ENTRIES => Cardinality(DOMAIN MergedView(leaves[i])) > 1
    <3>1. DOMAIN MergedView(leaves[i]) = Stored(leaves[i])
      BY <2>1, ViewFacts
    <3>2. nkeys(leaves[i]) = MAX_ENTRIES => Cardinality(Stored(leaves[i])) > 1
      BY <2>1, FullHasTwo, LeafConstants
    <3> QED
      BY <3>1, <3>2
  <2> QED
    BY <2>1, <2>2, <2>3
<1> QED
  BY <1>1, LeafInvHolds, PTL

\* A bset with a whiteout is flagged, so compact_whiteouts finds it.
THEOREM WhiteoutsAreFlagged == Spec => []WhiteoutsFlagged
<1>1. LeafInv => WhiteoutsFlagged
  <2> SUFFICES ASSUME LeafInv, NEW i \in DOMAIN leaves, NEW b \in DOMAIN leaves[i],
                      HasWhiteout(leaves[i][b].entries)
               PROVE  leaves[i][b].needs_whiteout
    BY DEF WhiteoutsFlagged
  <2>1. NodeOK(leaves[i], next_bset_seq)
    BY DEF LeafInv, TreeOK
  <2>2. Flagged(leaves[i][b])
    BY <2>1, NodeFacts DEF NodeOK
  <2> QED
    BY <2>2 DEF Flagged
<1> QED
  BY <1>1, LeafInvHolds, PTL

\* The types, and one separator between every two leaves.
THEOREM LeafTypes == Spec => []TypeOK
<1>1. LeafInv => TypeOK
  <2> SUFFICES ASSUME LeafInv PROVE TypeOK
    OBVIOUS
  <2>1. /\ next_bset_seq \in 1 .. MaxSeq + 1 /\ map \in EntryMap /\ separators \in Seq(Keys)
        /\ Len(leaves) = Len(separators) + 1
        /\ \A i \in DOMAIN leaves : NodeOK(leaves[i], next_bset_seq)
    BY DEF LeafInv, TreeOK
  <2>2. Len(leaves) > 0 /\ Len(separators) = Len(leaves) - 1
    BY <2>1
  <2>3. \A i \in DOMAIN separators : separators[i] \in Keys
    BY <2>1
  <2>4. \A f \in EntryMap : DOMAIN f \subseteq Keys /\ Range(f) \subseteq Entries
    BY EntryMapFacts DEF Range
  <2>5. ASSUME NEW i \in DOMAIN leaves, NEW b \in DOMAIN leaves[i]
        PROVE  /\ leaves[i][b].seq \in 0 .. next_bset_seq - 1
               /\ leaves[i][b].entries \in EntryMap
               /\ leaves[i][b].needs_whiteout \in BOOLEAN
    <3>1. leaves[i][b] \in Bsets(next_bset_seq)
      BY <2>1, NodeFacts
    <3> QED
      BY <3>1 DEF Bsets
  <2> QED
    BY <2>1, <2>2, <2>3, <2>4, <2>5 DEF TypeOK
<1> QED
  BY <1>1, LeafInvHolds, PTL
=============================================================================
