------------------------------ MODULE LeafNode -------------------------------
(***************************************************************************)
(* The leaves of rfs's B-tree (block_btree.rs, btree.rs).  A leaf holds up *)
(* to BSET_TREE_NR_MAX sorted runs (bsets).  A write goes to the last one, *)
(* a read takes the copy of the key with the highest bset seq, a full set  *)
(* of bsets is compacted into one, and a full leaf is split.               *)
(*                                                                         *)
(* The levels above the leaves are their sorted separators.  `map' is the  *)
(* content the tree should have.                                           *)
(***************************************************************************)
EXTENDS Naturals, Sequences, FiniteSets, Functions

CONSTANTS
  MaxKey,             \* bound: sortable keys
  Values,
  BSET_TREE_NR_MAX,   \* bsets per leaf (4)
  BSET_SOFT_LIMIT,    \* entries in the last bset before a new one (7)
  MAX_ENTRIES,        \* entries per leaf (29)
  MaxSeq              \* bound: bset seqs

ASSUME LeafConstants ==
  /\ MaxKey \in Nat
  /\ BSET_TREE_NR_MAX \in Nat \ {0}
  /\ BSET_SOFT_LIMIT \in Nat \ {0}
  /\ MAX_ENTRIES \in Nat
  /\ BSET_SOFT_LIMIT * BSET_TREE_NR_MAX < MAX_ENTRIES
  /\ MaxSeq \in Nat

Keys == 1 .. MaxKey

\* The snap_id suffix of a sortable key.
Snaps == {0, 1}
snap_id(k) == k % 2

Live(v) == [kind |-> "Live", value |-> v]
Deleted == [kind |-> "Deleted"]
Whiteout == [kind |-> "Whiteout"]
Entries == {Live(v) : v \in Values} \cup {Deleted, Whiteout}

VARIABLES
  leaves,         \* the leaves from left to right, each a sequence of bsets
  separators,     \* separators[i]: the smallest key routed to leaf i + 1
  next_bset_seq,
  map             \* history: key -> entry last written

vars == <<leaves, separators, next_bset_seq, map>>

NoEntries == [k \in {} |-> Deleted]

Bset(seq, entries, flag) == [seq |-> seq, entries |-> entries, needs_whiteout |-> flag]

TypeOK ==
  /\ next_bset_seq \in 1 .. MaxSeq + 1
  /\ Len(leaves) > 0 /\ Len(separators) = Len(leaves) - 1
  /\ \A i \in DOMAIN separators : separators[i] \in Keys
  /\ \A i \in DOMAIN leaves : \A b \in DOMAIN leaves[i] :
       LET bset == leaves[i][b]
       IN  /\ bset.seq \in 0 .. next_bset_seq - 1
           /\ DOMAIN bset.entries \subseteq Keys
           /\ Range(bset.entries) \subseteq Entries
           /\ bset.needs_whiteout \in BOOLEAN
  /\ DOMAIN map \subseteq Keys
  /\ Range(map) \subseteq Entries

\* initialize_with: one leaf with an empty bset of seq 0.
Init ==
  /\ leaves = << <<Bset(0, NoEntries, FALSE)>> >>
  /\ separators = <<>>
  /\ next_bset_seq = 1
  /\ map = NoEntries
-----------------------------------------------------------------------------
Last(s) == s[Len(s)]

InsertAt(s, i, e) == SubSeq(s, 1, i - 1) \o <<e>> \o SubSeq(s, i, Len(s))

With(f, k, e) == [x \in DOMAIN f \cup {k} |-> IF x = k THEN e ELSE f[x]]

Hits(node, k) == {b \in DOMAIN node : k \in DOMAIN node[b].entries}

\* merged_find: the bset with the copy of k that counts, the first one if seqs
\* are equal.
merged_find(node, k) ==
  CHOOSE b \in Hits(node, k) :
    \A c \in Hits(node, k) : node[b].seq > node[c].seq \/ (node[b].seq = node[c].seq /\ b <= c)

\* The copies in a leaf, stale ones included.
Copies(node) == {c \in (DOMAIN node) \X Keys : c[2] \in DOMAIN node[c[1]].entries}

nkeys(node) == Cardinality(Copies(node))

\* collect_leaf_entries_sorted, the result of MergedIter.
MergedView(node) ==
  [k \in UNION {DOMAIN node[b].entries : b \in DOMAIN node} |->
     node[merged_find(node, k)].entries[k]]

HasWhiteout(entries) == \E k \in DOMAIN entries : entries[k] = Whiteout

\* Mutant: the flag of the rebuilt bset is left clear.
rebuild_leaf_unflagged(seq, entries) == <<Bset(seq, entries, FALSE)>>

rebuild_leaf_from_entries(seq, entries) == <<Bset(seq, entries, HasWhiteout(entries))>>

compact_leaf_in_place(node, seq) == rebuild_leaf_from_entries(seq, MergedView(node))

start_new_bset(node, seq) == Append(node, Bset(seq, NoEntries, FALSE))

\* Mutant: the last bset is never compacted away.
ensure_writable_appending(node, seq) ==
  IF node = <<>> \/ Cardinality(DOMAIN Last(node).entries) >= BSET_SOFT_LIMIT
  THEN [node |-> start_new_bset(node, seq), seq |-> seq + 1]
  ELSE [node |-> node, seq |-> seq]

\* Mutant: the compacted bset takes a seq without allocating it.
ensure_writable_same_seq(node, seq) ==
  IF node = <<>> THEN [node |-> start_new_bset(node, seq), seq |-> seq + 1]
  ELSE IF Cardinality(DOMAIN Last(node).entries) < BSET_SOFT_LIMIT
       THEN [node |-> node, seq |-> seq]
  ELSE IF Len(node) < BSET_TREE_NR_MAX
       THEN [node |-> start_new_bset(node, seq), seq |-> seq + 1]
  ELSE [node |-> compact_leaf_in_place(node, seq), seq |-> seq]

ensure_writable_last_bset(node, seq) ==
  IF node = <<>> THEN [node |-> start_new_bset(node, seq), seq |-> seq + 1]
  ELSE IF Cardinality(DOMAIN Last(node).entries) < BSET_SOFT_LIMIT
       THEN [node |-> node, seq |-> seq]
  ELSE IF Len(node) < BSET_TREE_NR_MAX
       THEN [node |-> start_new_bset(node, seq), seq |-> seq + 1]
  ELSE [node |-> compact_leaf_in_place(node, seq), seq |-> seq + 1]

\* The key lives in the last bset: the write is a pure overwrite.
Absorbs(node, k) == node # <<>> /\ k \in DOMAIN Last(node).entries

\* The closure `apply' of insert_leaf.
apply(node, k, e, seq) ==
  LET w == IF Absorbs(node, k) THEN [node |-> node, seq |-> seq]
           ELSE ensure_writable_last_bset(node, seq)
      n == Len(w.node)
  IN  [w EXCEPT !.node[n].entries = With(@, k, e),
                !.node[n].needs_whiteout = @ \/ e = Whiteout]
-----------------------------------------------------------------------------
\* The leaf a search for k descends to.
Route(k) == 1 + Cardinality({i \in DOMAIN separators : separators[i] <= k})

\* A write the leaf absorbs: overwrite, append, new bset or compaction.
InsertInPlace(k, e) ==
  LET i == Route(k)
  IN  /\ Absorbs(leaves[i], k) \/ nkeys(leaves[i]) < MAX_ENTRIES
      /\ LET w == apply(leaves[i], k, e, next_bset_seq)
         IN  /\ w.seq <= MaxSeq + 1
             /\ leaves' = [leaves EXCEPT ![i] = w.node]
             /\ next_bset_seq' = w.seq
      /\ UNCHANGED separators
      /\ map' = With(map, k, e)

\* The key with half of the keys of S below it.
Median(S) == CHOOSE m \in S : Cardinality({k \in S : k < m}) = Cardinality(S) \div 2

\* split_leaf_node: the canonical leaf's lower half, its median and upper half.
SplitLeaf(node) ==
  LET bset   == node[1]
      median == Median(DOMAIN bset.entries)
      Half(S) == <<[bset EXCEPT !.entries = Restrict(@, S)]>>
  IN  [left   |-> Half({k \in DOMAIN bset.entries : k < median}),
       median |-> median,
       right  |-> Half({k \in DOMAIN bset.entries : k >= median})]

\* The temporary copy split_leaf_node works on.
Canonical(node, seq) == IF Len(node) > 1 THEN compact_leaf_in_place(node, seq) ELSE node

\* A write to a full leaf: compact, split, and insert into one of the halves.
InsertSplit(k, e) ==
  LET i     == Route(k)
      node  == leaves[i]
      seq   == IF Len(node) > 1 THEN next_bset_seq + 1 ELSE next_bset_seq
      s     == SplitLeaf(Canonical(node, next_bset_seq))
      w     == apply(IF k < s.median THEN s.left ELSE s.right, k, e, seq)
      left  == IF k < s.median THEN w.node ELSE s.left
      right == IF k < s.median THEN s.right ELSE w.node
  IN  /\ ~ Absorbs(node, k)
      /\ nkeys(node) >= MAX_ENTRIES
      /\ w.seq <= MaxSeq + 1
      /\ leaves' = InsertAt([leaves EXCEPT ![i] = right], i, left)
      /\ separators' = InsertAt(separators, i, s.median)
      /\ next_bset_seq' = w.seq
      /\ map' = With(map, k, e)

\* Mutant: the first copy found is flipped.
FlippedFirst(node, k) == CHOOSE b \in Hits(node, k) : \A c \in Hits(node, k) : b <= c

\* The copy flip_kind_in_place rewrites.
Flipped(node, k) == merged_find(node, k)

\* delete_at of a key of one's own: flip_kind_in_place from Live to Deleted.
Flip(k) ==
  LET i == Route(k)
      b == Flipped(leaves[i], k)
  IN  /\ k \in DOMAIN map /\ map[k].kind = "Live"
      /\ leaves' = [leaves EXCEPT ![i][b].entries[k] = Deleted]
      /\ map' = [map EXCEPT ![k] = Deleted]
      /\ UNCHANGED <<separators, next_bset_seq>>

\* Rebuild the leaves in S from their winners that are not among the dropped
\* <<key, entry>> pairs, one fresh seq per leaf.
Rebuild(S, dropped) ==
  LET seq(i)  == next_bset_seq + Cardinality({j \in S : j < i})
      kept(i) == LET view == MergedView(leaves[i])
                 IN  Restrict(view, {k \in DOMAIN view : <<k, view[k]>> \notin dropped})
  IN  /\ next_bset_seq + Cardinality(S) <= MaxSeq + 1
      /\ leaves' = [i \in DOMAIN leaves |->
                      IF i \in S THEN rebuild_leaf_from_entries(seq(i), kept(i)) ELSE leaves[i]]
      /\ next_bset_seq' = next_bset_seq + Cardinality(S)
      /\ map' = Restrict(map, {k \in DOMAIN map : <<k, map[k]>> \notin dropped})
      /\ UNCHANGED separators

leaf_has_snap_entries(node, dead) ==
  \E b \in DOMAIN node : \E k \in DOMAIN node[b].entries : snap_id(k) = dead

drop_snapshot_keys(dead) ==
  LET dropped == {k \in Keys : snap_id(k) = dead} \X Entries
      S == {i \in DOMAIN leaves : leaf_has_snap_entries(leaves[i], dead)}
  IN  S # {} /\ Rebuild(S, dropped)

\* A bset flagged needs_whiteout has a whiteout of a dead snapshot.
leaf_has_droppable_whiteout(node, dead) ==
  \E b \in DOMAIN node :
    /\ node[b].needs_whiteout
    /\ \E k \in DOMAIN node[b].entries : node[b].entries[k] = Whiteout /\ snap_id(k) \in dead

compact_whiteouts(dead) ==
  LET dropped == {k \in Keys : snap_id(k) \in dead} \X {Whiteout}
      S == {i \in DOMAIN leaves : leaf_has_droppable_whiteout(leaves[i], dead)}
  IN  S # {} /\ Rebuild(S, dropped)

Next ==
  \/ \E k \in Keys, e \in Entries : InsertInPlace(k, e)
  \/ \E k \in Keys, e \in Entries : InsertSplit(k, e)
  \/ \E k \in Keys : Flip(k)
  \/ \E dead \in Snaps : drop_snapshot_keys(dead)
  \/ \E dead \in SUBSET Snaps : compact_whiteouts(dead)

Spec == Init /\ [][Next]_vars
-----------------------------------------------------------------------------
\* find_raw: what a search for k returns, as a set of at most one entry.
find_raw(k) ==
  LET node == leaves[Route(k)]
  IN  IF Hits(node, k) = {} THEN {} ELSE {node[merged_find(node, k)].entries[k]}

(***************************************************************************)
(* "The highest-seq match wins so a newer write in a later bset shadows    *)
(* the older entry" (find_raw).  Through overwrites, flips, new bsets,     *)
(* compactions, splits and drops a search returns what was last written,   *)
(* and no older copy comes back.                                           *)
(***************************************************************************)
ReadsLatest ==
  \A k \in Keys : find_raw(k) = IF k \in DOMAIN map THEN {map[k]} ELSE {}

(***************************************************************************)
(* A leaf never outgrows its block: start_new_bset, append_to_last_bset    *)
(* and sort_insert_into_last_bset assert that there is room, and           *)
(* split_leaf_node that both halves of a full leaf have a key.             *)
(***************************************************************************)
LeafFits ==
  \A i \in DOMAIN leaves :
    LET node == leaves[i]
    IN  /\ Len(node) <= BSET_TREE_NR_MAX
        /\ nkeys(node) <= MAX_ENTRIES
        /\ nkeys(node) = MAX_ENTRIES => Cardinality(DOMAIN MergedView(node)) > 1

(***************************************************************************)
(* The comment on BSET_FLAG_NEEDS_WHITEOUT: over-approximation is safe.    *)
(* A bset with a whiteout is flagged, so compact_whiteouts finds it.       *)
(***************************************************************************)
WhiteoutsFlagged ==
  \A i \in DOMAIN leaves : \A b \in DOMAIN leaves[i] :
    HasWhiteout(leaves[i][b].entries) => leaves[i][b].needs_whiteout

=============================================================================
