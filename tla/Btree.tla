------------------------------- MODULE Btree --------------------------------
(***************************************************************************)
(* The B-tree of rfs (btree.rs) over its block cache (storage.rs), with as *)
(* many levels as its keys need: in-place inserts and copy-on-write        *)
(* transactions, leaf and internal splits, promotion, checkpoint_flush,    *)
(* gc's marking, and the replay of the log on open.                        *)
(*                                                                         *)
(* Keys are sortable keys (logical key and snap id), numbered in their     *)
(* order.  A leaf is the merged view of its bsets: module LeafNode models  *)
(* the bsets.  What they add here is that a leaf may be full of old copies *)
(* of its keys, and split with fewer than MAX_ENTRIES of them: that is the *)
(* parameter `crowded' of insert.  The journal is the sequence of records  *)
(* it would replay (module Journal), the free list on disk the sequence it *)
(* loads (module BlockStore).                                              *)
(***************************************************************************)
EXTENDS Integers, Sequences, FiniteSets, SequencesExt

CONSTANTS
  Keys,               \* sortable keys
  EditKeys,           \* the ones that are inserted or deleted after the seed
  DeadSnap,           \* the keys at a snapshot that may be deleted
  MAX_ENTRIES,        \* entries of a leaf
  MAX_INTERNAL_KEYS,  \* separators of an internal node
  Kinds,              \* kinds of the entries that are inserted
  Seeds,              \* orders in which the first image was filled
  MaxOps              \* bound: edits, snapshot drops, syncs, gcs and crashes in all

ASSUME BtreeConstants ==
  /\ Keys \subseteq Nat /\ IsFiniteSet(Keys)
  /\ EditKeys \subseteq Keys
  /\ DeadSnap \subseteq Keys
  /\ MAX_ENTRIES \in Nat \ {0, 1}
  /\ MAX_INTERNAL_KEYS \in Nat \ {0, 1}
  /\ Kinds \subseteq {"Live", "Whiteout"}
  /\ Seeds \subseteq Seq(Keys)
  /\ MaxOps \in Nat

VARIABLES
  store,          \* block cache, image and allocator
  root_block,
  pending_root,   \* root of the open transaction, NoBlock without one
  log_mark,       \* length of the log when it was opened
  log,            \* records not yet committed
  wal,            \* what the journal holds: the records since the superblock's
                  \* checkpoint, and the last group's next_block_nr and dead keys
  sb,             \* the superblock, with the free list its chain holds
  pc,             \* where the running sync or gc is
  dead,           \* keys of a deleted snapshot
  saved,          \* history: the map last committed or checkpointed
  ops             \* operations so far

vars == <<store, root_block, pending_root, log_mark, log, wal, sb, pc, dead, saved, ops>>

NoBlock == 0
None == "None"
Entry == {"Live", "Deleted", "Whiteout"}

\* A set of numbers from 1 to n in ascending order.
Ascending(S, n) == SelectSeq([i \in 1 .. n |-> i], LAMBDA i : i \in S)

Sorted(K) == Ascending(K, Max(Keys))

LeafOf(entries) == [level |-> 0, entries |-> entries]
InternalOf(level, keys, children) == [level |-> level, keys |-> keys, children |-> children]
-----------------------------------------------------------------------------
(***************************************************************************)
(* BlockStore, as functions on the record s: cache and disk hold nodes by  *)
(* block number, dirty the cached blocks that differ from the disk.  Every *)
(* step reads a node through the cache, as with_node does.                 *)
(***************************************************************************)
EmptyStore == [cache |-> <<>>, dirty |-> {}, disk |-> <<>>, free |-> <<>>, next |-> 1]

Resident(s, nr) == nr \in DOMAIN s.cache

with_node(s, nr) == IF Resident(s, nr) THEN s.cache[nr] ELSE s.disk[nr]

\* The cache after a read of nr.
Faulted(s, nr) == [s EXCEPT !.cache = (nr :> with_node(s, nr)) @@ @]

with_node_mut(s, nr, node) ==
  [s EXCEPT !.cache = (nr :> node) @@ @, !.dirty = @ \cup {nr}]

write_node(s, nr, node) ==
  [s EXCEPT !.cache = (nr :> node) @@ @, !.dirty = @ \ {nr}, !.disk = (nr :> node) @@ @]

\* alloc: the block it returns, and the allocator after it.
NextFree(s) == IF s.free # <<>> THEN Last(s.free) ELSE s.next

Allocated(s) ==
  IF s.free # <<>> THEN [s EXCEPT !.free = Front(@)] ELSE [s EXCEPT !.next = @ + 1]

\* A node written to a fresh block.
Placed(s, node) ==
  [s |-> write_node(Allocated(s), NextFree(s), node), nr |-> NextFree(s)]

free(s, nr) ==
  [s EXCEPT !.cache = [b \in DOMAIN @ \ {nr} |-> @[b]], !.dirty = @ \ {nr},
            !.free = Append(@, nr)]
-----------------------------------------------------------------------------
(***************************************************************************)
(* Reading a tree.                                                         *)
(***************************************************************************)
\* Which child of an internal node holds key: separators belong to the right.
search(node, key) == 1 + Cardinality({i \in DOMAIN node.keys : node.keys[i] <= key})

find_raw(s, nr, key) ==
  LET descend[b \in DOMAIN s.disk \cup DOMAIN s.cache] ==
        LET node == with_node(s, b)
        IN  IF node.level > 0 THEN descend[node.children[search(node, key)]]
            ELSE IF key \in DOMAIN node.entries THEN node.entries[key]
            ELSE None
  IN  descend[nr]

\* A leaf's rows in the order of its MergedIter.
Rows(entries, start, end) ==
  LET ks == Sorted({k \in DOMAIN entries : start <= k /\ k < end})
  IN  [i \in DOMAIN ks |-> <<ks[i], entries[ks[i]]>>]

\* Mutant: a child whose separator on the right is not below end is skipped.
ScannedTooFew(node, start, end) ==
  {i \in search(node, start) .. Len(node.children) :
     \A j \in search(node, start) .. i : j <= Len(node.keys) => node.keys[j] < end}

\* The children a scan visits: from the one that holds start, up to the first
\* one whose separator on the right is not below end.
Scanned(node, start, end) ==
  {i \in search(node, start) .. Len(node.children) :
     \A j \in search(node, start) .. i - 1 : node.keys[j] < end}

RECURSIVE range_scan_all(_, _, _, _)
range_scan_all(s, nr, start, end) ==
  LET node == with_node(s, nr)
  IN  IF node.level = 0
      THEN Rows(node.entries, start, end)
      ELSE FlattenSeq([i \in 1 .. Cardinality(Scanned(node, start, end)) |->
             range_scan_all(s, node.children[search(node, start) + i - 1], start, end)])

\* The same walk, but only Live entries are collected.
range_scan(s, nr, start, end) ==
  SelectSeq(range_scan_all(s, nr, start, end), LAMBDA row : row[2] = "Live")

RECURSIVE collect_node_blocks(_, _)
collect_node_blocks(s, nr) ==
  LET node == with_node(s, nr)
  IN  {nr} \cup IF node.level = 0 THEN {}
                ELSE UNION {collect_node_blocks(s, node.children[i]) :
                              i \in DOMAIN node.children}

\* The map a lookup of every key returns, without the keys in D.
Contents(s, nr, D) == [k \in Keys |-> IF k \in D THEN None ELSE find_raw(s, nr, k)]
-----------------------------------------------------------------------------
(***************************************************************************)
(* Splits.  Both halves are written; the node above them is the caller's.  *)
(***************************************************************************)
Halved(left, right, level, median) ==
  [s |-> Allocated(right.s), nr |-> NextFree(right.s),
   root |-> InternalOf(level, <<median>>, <<left.nr, right.nr>>)]

split_leaf_node(s, entries) ==
  LET ks    == Sorted(DOMAIN entries)
      mid   == Len(ks) \div 2
      Half(i, j) == LeafOf([k \in {ks[n] : n \in i .. j} |-> entries[k]])
      left  == Placed(s, Half(1, mid))
      right == Placed(left.s, Half(mid + 1, Len(ks)))
  IN  Halved(left, right, 1, ks[mid + 1])

\* Mutant: the median stays in the right half, without a child before it.
split_internal_keeping_median(s, node) ==
  LET n     == Len(node.keys)
      mid   == n \div 2
      left  == Placed(s, InternalOf(node.level, SubSeq(node.keys, 1, mid),
                                    SubSeq(node.children, 1, mid + 1)))
      right == Placed(left.s, InternalOf(node.level, SubSeq(node.keys, mid + 1, n),
                                         SubSeq(node.children, mid + 1, n + 1)))
  IN  Halved(left, right, node.level + 1, node.keys[mid + 1])

\* The median goes to the parent only.
split_internal_node(s, node) ==
  LET n     == Len(node.keys)
      mid   == n \div 2
      left  == Placed(s, InternalOf(node.level, SubSeq(node.keys, 1, mid),
                                    SubSeq(node.children, 1, mid + 1)))
      right == Placed(left.s, InternalOf(node.level, SubSeq(node.keys, mid + 2, n),
                                         SubSeq(node.children, mid + 2, n + 1)))
  IN  Halved(left, right, node.level + 1, node.keys[mid + 1])

(***************************************************************************)
(* A child that split comes back as a node one level up, with one          *)
(* separator and two children, which replace it in a fresh copy of its     *)
(* parent.  When the copy overflows, its block is left behind and the      *)
(* parent splits in turn.                                                  *)
(***************************************************************************)
Rooted(split) == [s |-> write_node(split.s, split.nr, split.root), nr |-> split.nr]

PlacedParent(s, node) ==
  IF Len(node.keys) <= MAX_INTERNAL_KEYS THEN Placed(s, node)
  ELSE Rooted(split_internal_node(Allocated(s), node))

promote_to_parent(s, parent, child_idx, grown) ==
  PlacedParent(s, InternalOf(parent.level,
    InsertAt(parent.keys, child_idx, grown.keys[1]),
    InsertAt(ReplaceAt(parent.children, child_idx, grown.children[1]),
             child_idx + 1, grown.children[2])))
-----------------------------------------------------------------------------
(***************************************************************************)
(* insert: the store after it, and the block of the subtree's root.        *)
(***************************************************************************)
RECURSIVE insert(_, _, _, _, _, _)

\* The leaf has split: the entry went to one half, which may have split as well.
SplitInserted(split, idx, child) ==
  LET grown == with_node(child.s, child.nr)
  IN  IF grown.level > 0
      THEN promote_to_parent(child.s, split.root, idx, grown)
      ELSE Rooted([s |-> child.s, nr |-> split.nr,
                   root |-> [split.root EXCEPT !.children[idx] = child.nr]])

InsertSplit(split, key, entry, mode) ==
  LET idx == search(split.root, key)
  IN  SplitInserted(split, idx,
        insert(split.s, split.root.children[idx], key, entry, mode, FALSE))

insert_leaf(s, nr, key, entry, mode, crowded) ==
  LET node    == with_node(s, nr)
      full    == key \notin DOMAIN node.entries
                   /\ Cardinality(DOMAIN node.entries) >= MAX_ENTRIES
      written == LeafOf((key :> entry) @@ node.entries)
  IN  IF full \/ (crowded /\ Cardinality(DOMAIN node.entries) > 1)
      THEN InsertSplit(split_leaf_node(s, node.entries), key, entry, mode)
      ELSE IF mode = "InPlace"
           THEN [s |-> with_node_mut(s, nr, written), nr |-> nr]
           ELSE Placed(s, written)

\* The child at idx has taken the entry.
ChildInserted(s, nr, node, idx, child) ==
  LET grown == with_node(child.s, child.nr)
  IN  IF grown.level > with_node(s, node.children[idx]).level
      THEN promote_to_parent(child.s, node, idx, grown)
      ELSE IF child.nr = node.children[idx]
           THEN [s |-> child.s, nr |-> nr]
           ELSE Placed(child.s, [node EXCEPT !.children[idx] = child.nr])

insert_internal(s, nr, key, entry, mode, crowded) ==
  LET node == with_node(s, nr)
      idx  == search(node, key)
  IN  ChildInserted(s, nr, node, idx,
        insert(s, node.children[idx], key, entry, mode, crowded))

insert(s, nr, key, entry, mode, crowded) ==
  IF with_node(s, nr).level = 0
  THEN insert_leaf(Faulted(s, nr), nr, key, entry, mode, crowded)
  ELSE insert_internal(Faulted(s, nr), nr, key, entry, mode, crowded)

(***************************************************************************)
(* flip_kind_in_place: delete_at of an entry at the caller's own snapshot. *)
(***************************************************************************)
RECURSIVE flip_kind_in_place(_, _, _, _)
flip_kind_in_place(s, nr, key, mode) ==
  LET here  == Faulted(s, nr)
      node  == with_node(s, nr)
      idx   == search(node, key)
      child == flip_kind_in_place(here, node.children[idx], key, mode)
  IN  IF node.level = 0
      THEN LET flipped == [node EXCEPT !.entries[key] = "Deleted"]
           IN  IF mode = "InPlace"
               THEN [s |-> with_node_mut(here, nr, flipped), nr |-> nr]
               ELSE Placed(here, flipped)
      ELSE IF mode = "InPlace"
           THEN [s |-> child.s, nr |-> nr]
           ELSE Placed(child.s, [node EXCEPT !.children[idx] = child.nr])

(***************************************************************************)
(* drop_snapshot_keys: every leaf that holds a dead key is rebuilt in      *)
(* place without it.  Nothing is logged, and separators stay.              *)
(***************************************************************************)
RECURSIVE drop_snapshot_keys_rec(_, _, _)
drop_snapshot_keys_rec(s, nr, D) ==
  LET here == Faulted(s, nr)
      node == with_node(s, nr)
      kept == LeafOf([k \in DOMAIN node.entries \ D |-> node.entries[k]])
  IN  IF node.level = 0
      THEN IF DOMAIN node.entries \cap D = {} THEN here ELSE with_node_mut(here, nr, kept)
      ELSE FoldLeft(LAMBDA acc, child : drop_snapshot_keys_rec(acc, child, D),
                    here, node.children)

(***************************************************************************)
(* checkpoint_flush: children first; a node that is dirty or whose child   *)
(* moved goes to a fresh block.  What is not resident is clean.  `freed'   *)
(* collects the old blocks for the end of the walk.                        *)
(***************************************************************************)
RECURSIVE checkpoint_flush(_, _, _)

FlushedChildren(s, children, freed) ==
  FoldLeft(LAMBDA acc, child :
             LET r == checkpoint_flush(acc.s, child, acc.freed)
             IN  [s |-> r.s, freed |-> r.freed, children |-> Append(acc.children, r.nr)],
           [s |-> s, freed |-> freed, children |-> <<>>], children)

Relocated(s, nr, node, freed) ==
  LET placed == Placed(s, node)
  IN  [s |-> placed.s, nr |-> placed.nr, freed |-> Append(freed, nr)]

checkpoint_flush(s, nr, freed) ==
  LET node    == with_node(s, nr)
      flushed == FlushedChildren(s, node.children, freed)
      moved   == [node EXCEPT !.children = flushed.children]
      stays   == [s |-> s, nr |-> nr, freed |-> freed]
  IN  IF ~ Resident(s, nr) THEN stays
      ELSE IF node.level = 0
           THEN IF nr \in s.dirty THEN Relocated(s, nr, node, freed) ELSE stays
           ELSE IF nr \in s.dirty \/ moved # node
                THEN Relocated(flushed.s, nr, moved, flushed.freed)
                ELSE stays

\* Btree::checkpoint: the walk, then the frees.
Checkpointed(s, root) ==
  LET r == checkpoint_flush(s, root, <<>>)
  IN  [s |-> FoldLeft(free, r.s, r.freed), nr |-> r.nr]

\* Btree::replay_record, one record after the other: each is an insert.
Replay(s, root, recs, crowded) ==
  FoldLeft(LAMBDA acc, rec : insert(acc.s, acc.nr, rec.key, rec.entry, "InPlace", crowded),
           [s |-> s, nr |-> root], recs)
-----------------------------------------------------------------------------
(***************************************************************************)
(* An image that was filled in the order of a seed, checkpointed and       *)
(* opened: nothing is cached yet.                                          *)
(***************************************************************************)
LiveRecord(k) == [key |-> k, entry |-> "Live"]

SeedImage(seed) ==
  LET first  == Placed(EmptyStore, LeafOf(<<>>))
      filled == Replay(first.s, first.nr, [i \in DOMAIN seed |-> LiveRecord(seed[i])], FALSE)
  IN  Checkpointed(filled.s, filled.nr)

Cold(s, image_free, next) ==
  [s EXCEPT !.cache = <<>>, !.dirty = {}, !.free = image_free, !.next = next]

Init ==
  /\ \E image \in {SeedImage(seed) : seed \in Seeds} :
       /\ store = Cold(image.s, image.s.free, image.s.next)
       /\ root_block = image.nr
       /\ sb = [root_block |-> image.nr, free |-> image.s.free, next |-> image.s.next]
  /\ pending_root = NoBlock
  /\ log_mark = 0
  /\ log = <<>>
  /\ wal = [recs |-> <<>>, next |-> sb.next, dead |-> {}]
  /\ pc = "idle"
  /\ dead = {}
  /\ saved = Contents(store, root_block, {})
  /\ ops = 0

InTx == pending_root # NoBlock

\* Mutant: a transaction edits the cached leaves.
EditModeInPlace == "InPlace"

\* The root and the mode of an edit: in place, or copy-on-write in a transaction.
EditRoot == IF InTx THEN pending_root ELSE root_block
EditMode == IF InTx THEN "Cow" ELSE "InPlace"

\* What an edit leaves: the new root where it belongs, and one more record.
EditLogged(r, key, entry) ==
  /\ store' = r.s
  /\ IF InTx
     THEN pending_root' = r.nr /\ UNCHANGED root_block
     ELSE root_block' = r.nr /\ UNCHANGED pending_root
  /\ log' = Append(log, [key |-> key, entry |-> entry])
  /\ ops' = ops + 1
  /\ UNCHANGED <<log_mark, wal, sb, pc, dead, saved>>

\* Btree::insert_with_kind and Tx::insert_with_kind.
InsertWithKind(key, entry, crowded) ==
  /\ pc = "idle"
  /\ ops < MaxOps
  /\ key \notin dead
  /\ EditLogged(insert(store, EditRoot, key, entry, EditMode, crowded), key, entry)

\* delete_at of an entry at the same snapshot; a whiteout is an insert.
DeleteAt(key) ==
  /\ pc = "idle"
  /\ ops < MaxOps
  /\ key \notin dead
  /\ find_raw(store, EditRoot, key) = "Live"
  /\ EditLogged(flip_kind_in_place(store, EditRoot, key, EditMode), key, "Deleted")

(***************************************************************************)
(* Btree::transaction: the closure's edits are the actions above.          *)
(***************************************************************************)
TxBegin ==
  /\ pc = "idle"
  /\ ~ InTx
  /\ ops < MaxOps
  /\ pending_root' = root_block
  /\ log_mark' = Len(log)
  /\ UNCHANGED <<store, root_block, log, wal, sb, pc, dead, saved, ops>>

TxCommit ==
  /\ InTx
  /\ root_block' = pending_root
  /\ pending_root' = NoBlock
  /\ log_mark' = 0
  /\ UNCHANGED <<store, log, wal, sb, pc, dead, saved, ops>>

\* Mutant: the records of the closure stay in the log.
TxAbortKeepingLog ==
  /\ InTx
  /\ pending_root' = NoBlock
  /\ log_mark' = 0
  /\ UNCHANGED <<store, root_block, log, wal, sb, pc, dead, saved, ops>>

TxAbort ==
  /\ InTx
  /\ pending_root' = NoBlock
  /\ log_mark' = 0
  /\ log' = SubSeq(log, 1, log_mark)
  /\ UNCHANGED <<store, root_block, wal, sb, pc, dead, saved, ops>>

\* delete_snapshot: the next commit makes the deletion itself durable.
DropSnapshotKeys ==
  /\ pc = "idle"
  /\ ~ InTx
  /\ ops < MaxOps
  /\ dead # DeadSnap
  /\ store' = drop_snapshot_keys_rec(store, root_block, DeadSnap)
  /\ dead' = DeadSnap
  /\ ops' = ops + 1
  /\ UNCHANGED <<root_block, pending_root, log_mark, log, wal, sb, pc, saved>>

(***************************************************************************)
(* Fs::journal_commit, sync, gc and open as the tree sees them.            *)
(***************************************************************************)
JournalCommit ==
  /\ pc = "idle"
  /\ ~ InTx
  /\ wal' = [recs |-> wal.recs \o log, next |-> store.next, dead |-> dead]
  /\ log' = <<>>
  /\ saved' = Contents(store, root_block, dead)
  /\ UNCHANGED <<store, root_block, pending_root, log_mark, sb, pc, dead, ops>>

Checkpoint ==
  /\ pc = "swept" \/ (pc = "idle" /\ ops < MaxOps)
  /\ ~ InTx
  /\ LET r == Checkpointed(store, root_block)
     IN  store' = r.s /\ root_block' = r.nr
  /\ IF pc = "swept"
     THEN pc' = "last" /\ UNCHANGED ops
     ELSE pc' = "swap" /\ ops' = ops + 1
  /\ UNCHANGED <<pending_root, log_mark, log, wal, sb, dead, saved>>

\* The superblock swap: a sync ends here, a gc goes on to its sweep.
SwapSuperblock ==
  /\ pc \in {"swap", "last"}
  /\ sb' = [root_block |-> root_block, free |-> store.free, next |-> store.next]
  /\ wal' = [recs |-> <<>>, next |-> store.next, dead |-> dead]
  /\ pc' \in IF pc = "swap" THEN {"idle", "sweep"} ELSE {"idle"}
  /\ saved' = Contents(store, root_block, dead)
  /\ UNCHANGED <<store, root_block, pending_root, log_mark, log, dead, ops>>

\* Mutant: the sweep frees what is free already.
OrphansAndFree == (1 .. store.next - 1) \ collect_node_blocks(store, root_block)

\* Blocks below the high-water mark that are neither reachable nor free.
Orphans ==
  (1 .. store.next - 1) \ (collect_node_blocks(store, root_block) \cup ToSet(store.free))

Sweep ==
  /\ pc = "sweep"
  /\ store' = FoldLeft(free, store, Ascending(Orphans, store.next - 1))
  /\ pc' = "swept"
  /\ UNCHANGED <<root_block, pending_root, log_mark, log, wal, sb, dead, saved, ops>>

Open(crowded) == Replay(Cold(store, sb.free, wal.next), sb.root_block, wal.recs, crowded)

Crash(crowded) ==
  /\ ops < MaxOps
  /\ LET r == Open(crowded)
     IN  store' = r.s /\ root_block' = r.nr
  /\ pending_root' = NoBlock
  /\ log' = <<>>
  /\ dead' = wal.dead
  /\ pc' = "idle"
  /\ log_mark' = 0
  /\ ops' = ops + 1
  /\ UNCHANGED <<wal, sb, saved>>

Next ==
  \/ \E k \in EditKeys, e \in Kinds, crowded \in BOOLEAN : InsertWithKind(k, e, crowded)
  \/ \E k \in EditKeys : DeleteAt(k)
  \/ TxBegin
  \/ TxCommit
  \/ TxAbort
  \/ DropSnapshotKeys
  \/ JournalCommit
  \/ Checkpoint
  \/ SwapSuperblock
  \/ Sweep
  \/ \E crowded \in BOOLEAN : Crash(crowded)

Spec == Init /\ [][Next]_vars
-----------------------------------------------------------------------------
Block == 1 .. store.next - 1

IsNode(node) ==
  IF node.level = 0
  THEN DOMAIN node.entries \subseteq Keys /\ \A k \in DOMAIN node.entries : node.entries[k] \in Entry
  ELSE /\ \A i \in DOMAIN node.keys : node.keys[i] \in Keys
       /\ \A i \in DOMAIN node.children : node.children[i] \in Nat \ {NoBlock}

(***************************************************************************)
(* Types: the cache holds only allocated blocks and every dirty one.       *)
(***************************************************************************)
TypeOK ==
  /\ DOMAIN store.cache \subseteq Block
  /\ store.dirty \subseteq DOMAIN store.cache
  /\ \A nr \in DOMAIN store.cache : IsNode(store.cache[nr])
  /\ ToSet(store.free) \subseteq Block
  /\ root_block \in Block
  /\ pending_root \in Block \cup {NoBlock}
  /\ log_mark \in Nat
  /\ ToSet(log \o wal.recs) \subseteq [key : Keys, entry : Entry]
  /\ pc \in {"idle", "swap", "sweep", "swept", "last"}
  /\ dead \in {{}, DeadSnap}

\* verify_node: sorted, within its bounds, at its level, not above its capacity.
RECURSIVE verify_node(_, _, _, _)
verify_node(s, nr, lo, hi) ==
  LET node == with_node(s, nr)
      n    == Len(node.keys)
      Lo(i) == IF i = 1 THEN lo ELSE node.keys[i - 1]
      Hi(i) == IF i = n + 1 THEN hi ELSE node.keys[i]
  IN  IF node.level = 0
      THEN /\ Cardinality(DOMAIN node.entries) <= MAX_ENTRIES
           /\ \A k \in DOMAIN node.entries : lo <= k /\ k < hi
      ELSE /\ n <= MAX_INTERNAL_KEYS
           /\ Len(node.children) = n + 1
           /\ \A i \in 1 .. n : lo <= node.keys[i] /\ node.keys[i] < hi
           /\ \A i \in 2 .. n : node.keys[i - 1] < node.keys[i]
           /\ \A i \in 1 .. n + 1 :
                /\ with_node(s, node.children[i]).level = node.level - 1
                /\ verify_node(s, node.children[i], Lo(i), Hi(i))

Above == Max(Keys) + 1

(***************************************************************************)
(* The invariants of verify_node, on the tree and on the one an open       *)
(* transaction builds (insert_leaf, insert_internal, split_leaf_node,      *)
(* split_internal_node, promote_to_parent): they hold through splits on    *)
(* every level, in-place and copied paths, and replay; and only cached     *)
(* nodes are dirty.                                                        *)
(***************************************************************************)
TreeOK ==
  /\ TypeOK
  /\ verify_node(store, root_block, 0, Above)
  /\ InTx => verify_node(store, pending_root, 0, Above)

(***************************************************************************)
(* A scan of any range finds every entry of it once, in order: the same    *)
(* entries that lookups find one by one (range_scan_all against find_raw), *)
(* also where separators have outlived their leaf entries.                 *)
(***************************************************************************)
ScansComplete ==
  LET map == Contents(store, EditRoot, {})
      Ref(lo, hi) == LET ks == Sorted({k \in Keys : lo <= k /\ k < hi /\ map[k] # None})
                     IN  [i \in DOMAIN ks |-> <<ks[i], map[ks[i]]>>]
  IN  /\ \A lo \in Keys, hi \in Keys \cup {Above} :
           lo < hi => range_scan_all(store, EditRoot, lo, hi) = Ref(lo, hi)
      /\ range_scan(store, EditRoot, 0, Above)
           = SelectSeq(Ref(0, Above), LAMBDA row : row[2] = "Live")

(***************************************************************************)
(* alloc may take any free block: none is part of the tree in use, of the  *)
(* one an open transaction builds, or, outside a sync, of the checkpoint   *)
(* in the superblock; and none is free twice (checkpoint, free, gc, open). *)
(***************************************************************************)
FreeIsUnused ==
  LET used == collect_node_blocks(store, root_block)
                \cup (IF InTx THEN collect_node_blocks(store, pending_root) ELSE {})
                \cup (IF pc = "idle"
                      THEN collect_node_blocks(Cold(store, <<>>, 1), sb.root_block) ELSE {})
  IN  /\ ToSet(store.free) \cap used = {}
      /\ IsInjective(store.free)

(***************************************************************************)
(* What a crash at this moment would recover (open, replay_record on the   *)
(* superblock's tree) is what was last committed or checkpointed, also     *)
(* while a transaction is open, after one was aborted, and between a       *)
(* checkpoint's relocation and its superblock swap.                        *)
(***************************************************************************)
RecoversSaved ==
  LET r == Open(FALSE) IN Contents(r.s, r.nr, wal.dead) = saved

(***************************************************************************)
(* The tree implements DurableMap: what lookups see is the map, also after *)
(* a recovery, and a transaction takes effect at once or not at all        *)
(* (insert, delete_at, transaction, checkpoint, drop_snapshot_keys).       *)
(***************************************************************************)
Map == INSTANCE DurableMap WITH
  map <- Contents(store, root_block, dead),
  tx <- IF InTx THEN Contents(store, pending_root, dead) ELSE <<>>,
  durable <- saved

ImplementsDurableMap == Map!Spec
=============================================================================
