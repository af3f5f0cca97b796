# A TLA+ verification of rfs

rfs is a copy-on-write file system in user space, modelled on bcachefs: a
B-tree of versioned keys in an image file, a write-ahead journal, checkpoints
published by one superblock, snapshots, lazy reclaim of unlinked files, and a
FUSE front end. This directory holds TLA+ models of it, TLC configurations that
check them on small instances, and proofs checked by TLAPS. `PROJECT.json`
lists the parts, the runs, the source lines behind every definition, the
findings, the hazards and the theorems.

    tlc -workers 2 -config journal_process.cfg Journal
    tlapm JournalProofs.tla

Theorems are in JournalProofs, JournalAtomicity, FuseProofs, SnapshotProofs,
SnapshotLemmas, LeafProofs, CheckpointProofs and Induction. The longest
(JournalAtomicity, CheckpointProofs, LeafProofs) take ten to twenty minutes each.

## The system and its parts

| part | source | state | operations that change it | modules |
|---|---|---|---|---|
| journal | `journal.rs`, `storage.rs`, `fs.rs` | ring of frames, `next_journal_seq`, `last_checkpoint_seq`, the tree's log | `journal_commit`, `sync`, `open` | Journal, JournalProofs, JournalAtomicity |
| allocator | `storage.rs` | free list, high-water mark, chain blocks | `alloc`, `free`, `persist_free_list`, `load_free_list` | BlockStore |
| checkpoint and recovery | `fs.rs`, `btree.rs` | superblock, node and data blocks, dirty nodes | `put_extent`, `truncate_extents`, `transaction`, `checkpoint_flush`, `sync`, `gc`, `open` | Checkpoint, MCCheckpoint, CheckpointProofs |
| B-tree | `btree.rs`, `storage.rs` | nodes in the cache and on disk, dirty blocks, root, pending root, the log | `insert`, `delete_at`, `transaction`, `drop_snapshot_keys`, `checkpoint_flush`, `gc`, replay in `open` | Btree, DurableMap, MCBtree |
| B-tree leaves | `block_btree.rs`, `btree.rs` | bsets of a leaf, separators, `next_bset_seq` | `insert_leaf`, `split_leaf_node`, `flip_kind_in_place`, `drop_snapshot_keys`, `compact_whiteouts` | LeafNode, LeafProofs, Induction |
| snapshots, subvolumes | `fs.rs`, `btree.rs` | versioned keys, snapshot tree, subvolumes, id counters | `insert_at`, `delete_at`, `snapshot_subvol`, `switch_subvol`, `delete_snapshot` | Snapshots, SubvolMaps, MCSnapshots, SnapshotProofs, SnapshotLemmas, Induction |
| reclaim | `fs.rs`, `fuse.rs` | work items, extents, freed blocks | `write_at`, `unlink`, `truncate_extents`, `reclaim_deleted_inodes`, `gc` | Reclaim, MCReclaim |
| name space | `fuse.rs`, `fs.rs` | inodes, dirents, work items, `next_ino` | the FUSE handlers, mount | FuseFs, FuseProofs, Induction |
| files and listings | `fs.rs`, `fuse.rs`, `btree.rs` | one sorted map of byte-string keys: inodes, dirents, extents, metadata | `write`, `setattr`, names, `snapshot_subvol`, `opendir`, `readdir` | KeySpace, Files, MCFiles |

How they interact. Every FUSE handler takes the one mutex around `Fs`, edits the
tree, and calls `journal_commit` before it replies. The commit first syncs if
the ring is near full, then runs a slice of reclaim that fits into the frames
left, then drains the tree's log into one group of frames, ends it with a
CommitEnd and fsyncs. `sync` relocates dirty nodes to fresh blocks, stores the
free list in a chain of blocks, fsyncs, writes the superblock, and fsyncs again.
`open` starts from the superblock's tree and free list and replays the groups
that follow. The code is single threaded below the mutex: what interleaves with
it is the machine (a crash between any two device writes), the clients (calls
in any order, on handles that are stale by then), and its own deferred work
(reclaim, checkpoints, gc, snapshot deletion).

Behaviours that make it hard: a ring that reuses slots; torn groups; two
sources of truth for the allocator (checkpoint chain and replayed records);
blocks freed in memory before the free is durable; data blocks shared between
snapshots without reference counts; an edit of the tree that is not logged
(`drop_snapshot_keys`); reclaim that stops anywhere and resumes; copies of one
key in several bsets of a leaf; splits and copied paths above leaves that were
edited in place; names and snap_ids of the same bytes in one sorted key space;
directory listings that continue at an index.

## Modules

**Journal.** `cache` is the ring as the process reads it, `disk` what is sure to
survive, and likewise for the superblock. The tree is a map from keys to values
and the superblock carries the checkpointed map: the blocks behind it are
Checkpoint's subject. `Mutate` is an operation with n log records;
`JournalCommit`, `Reclaim`, `AppendOp`, `AppendEnd`, `CommitFsync` are the steps
of `journal_commit`, `SyncFlush`, `SyncSwap`, `SyncPublish` those of `sync`, cut
where the device is written. `Crash` stops the process anywhere and runs `open`.
With `CrashMode = "process"` every write survives. With `"power"` each journal
block written since the last fsync comes back old, new or torn, independently of
the others, and the superblock old or new (its checksum makes a torn one fail to
mount; a single-block write is taken as atomic). `legal`, `ackEnd` and `overrun`
are history: the states a recovery may show, where the last acknowledged group
ended, and whether a group has lapped the ring. Nothing bounds a group in the
code, and the near-full guard reserves a fixed number of frames: a larger group
overwrites frames that recovery needs. `overrun` becomes `"yes"` with such a
commit, `"no"` again with the checkpoint that makes those frames unnecessary, and
`"crashed"` for good if a crash comes first. `Intact` is `overrun = "no"`: the
guarantees about the ring are stated for it. A process kill followed by a power loss that undoes writes the second
process has already read is outside both modes.

**BlockStore, Checkpoint.** BlockStore has the allocator's operations as actions
on its variables. Checkpoint composes them with a tree of one root and one leaf
per key, each leaf holding one extent: in-place edits in the cache (`extent`,
`dirty`), a copy-on-write transaction (`TxLeaf`, `TxRoot`), the steps of `sync`,
the commit that must sync first (`CommitNearFull`), `gc` as sync, sweep, sync,
and `open`. The journal is the sequence of groups since the checkpoint, which
Journal justifies. A crash here kills the process between two block writes.
Left out: splits during replay, and the frees of reclaim, which Reclaim has.

**DurableMap, Btree.** DurableMap says what the tree promises: a map, edited by
single writes and by transactions that take effect as a whole or not at all, and
the map that a crash leaves. Btree has the nodes: a block cache with dirty
blocks over the image, leaves and internal nodes of any level, the in-place and
the copying form of `insert_internal`, splits that promote up to a new root,
`TxBegin`, `TxCommit`, `TxAbort`, the pass that drops a deleted snapshot's keys,
`Checkpoint` and `SwapSuperblock` for `sync`, `Sweep` for `gc`, and `Crash`, which
replays the journaled records on the checkpoint's tree with cold caches. A leaf
is the merged view of its bsets; `crowded` stands for the copies that make it
split early. `ImplementsDurableMap` is DurableMap's specification under the
mapping that reads each map off the tree.

**LeafNode.** The leaves of one tree, left to right, with the separators that
route to them. A leaf is a sequence of bsets, each a map from keys to entries
with a seq and the needs_whiteout flag. `InsertInPlace` and `InsertSplit` are
the two ways of `insert_leaf`; `Flip` is a delete of one's own key; the two
compactions rebuild leaves. `map` is the reference: what was last written for
each key. Internal levels are abstracted to the separators: Btree has them.

**SubvolMaps, Snapshots.** SubvolMaps says what snapshots promise: each
subvolume is a map of its own. Snapshots has the versioned keys, the ancestor
chains and tombstones that implement it, and the deletion of snapshots with its
sweep. Its property `Isolation` is SubvolMaps' specification under the mapping
that reads each subvolume through its chain. `logged` follows the tree as replay
would rebuild it, without the unlogged drops. `Sync` sets it to the tree, although
the code keeps the records that no commit has drained and journals them later:
what they add to a replay are versions at dropped snap_ids, which a crash before
the sync brings back as well.

**Reclaim.** EXTENDS Snapshots with files: an inode key, extent keys whose value
is a data block, work items and the set of freed blocks. `ReclaimPass` is one
call of `reclaim_deleted_inodes` with any budget up to `MaxBudget`. `Write` and
`TruncateExtents` end with the `put_inode` of their handlers, so that an inherited
inode gets a version of its own. Blocks are never reused here (Checkpoint does that) and there are no crashes.

**FuseFs.** Inodes, dirents, work items, `next_ino`, and what the last commit
made durable. Each handler is one action, since it holds the mutex and ends in
one commit; reclaim may finish any of the work items in a commit. What the
kernel guarantees before it calls a handler (`VfsDirectory`, `VfsMayMove`) is
external and marked so. Since every handler that changes something ends in a
commit, and a commit is atomic here, `Crash` finds the tree as the last handler
left it: the step says that a remount starts from such a tree. What a crash inside
a commit leaves is Journal's subject.

**KeySpace, Files.** KeySpace is the tree as a sorted map from byte strings:
the keys of every kind as `fs.rs` lays them out, the snap_id behind them, and
`find_visible_with_snap`, `range_scan_visible` and the kind-specific scans as
operators on that order. Bytes are `0 .. MAX_BYTE`, with kinds renumbered in
their order and snap_ids of two bytes that begin with the largest one, as the
ids below `u32::MAX` do. Files keeps inodes, dirents, extents and the metadata of
snapshots in it, with `write_at`, `read_at` and `truncate_extents` on blocks of two
bytes, and a client that lists a directory by several `readdir` calls. `vols` is
the reference: for each subvolume a sequence of bytes per file and a map of names.

**MC modules** give TLC the values a configuration cannot spell: MCCheckpoint,
MCSnapshots and MCFiles list the combinations of bounds a behaviour may have
(one is chosen in the initial state), MCReclaim its keys, MCBtree the orders in
which the first image was filled.

## Runs

Passing runs:

| run | bounds | states | shows |
|---|---|---|---|
| `journal_process` | ring of 4 frames, a reserve of 1, groups of up to 3 records and seqs up to 7, unlimited kills | 2.3 million | recovery is atomic and the ring invariant holds unless a group laps the ring; only a group of two records more than the reserve does, and a checkpoint repairs it |
| `journal_power` | ring of 8 frames, two to a block, a reserve of 2, groups of up to 4 records, seqs up to 9, no step after a power loss | 257,988 | what the first power loss leaves recovers atomically and keeps acknowledged groups unless a group laps the ring; reclaim stays below the watermark |
| `checkpoint` | 2 leaves, 10 blocks, 2 groups; all operations and no crash, or all but truncation and 1 crash | 3.5 million | in the first mount one owner per block, reads, gc, recovery at every block write; in every mount the checkpoint's nodes are never overwritten, nor its free-list chain from the first sync on |
| `snapshots` | 1 key, 2 values, 6 snap ids; snapshots until the ids run out and no crash, or 1 snapshot with 2 commits and 1 crash | 98,487 | Isolation, sweep and drop; ids that a crash gives out again are clean |
| `reclaim` | 1 file of 2 blocks, 3 data blocks, 3 snap ids, budgets 1 and 2 | 266,506 | reclaim and gc free no referenced block and lose no extent, other files are untouched, every item gets reclaimed |
| `fuse_names` | 2 names, 4 inodes, 1 crash | 11,451 | dirents, link counts, reachability |
| `leaf_bsets` | 4 keys, 3 bsets of 1 entry, leaf of 4 entries, 6 seqs | 54,431 | the latest copy wins, a leaf never overflows |
| `btree` | 6 keys, nodes of 2 entries or separators, seeded trees of two and three levels, 3 operations | 51,320 | order and separators, scans, the free list, aborts, recovery; the tree implements DurableMap |
| `files` | 3 names of up to 3 bytes, 4 inodes, files of up to 2 blocks of 2 bytes; 3 operations on names, or 3 on content and a snapshot, or mixed | 47,419 | reads, lookups and listings agree with the reference in every subvolume |

Why the bounds are enough: in each journal run the ring is used more than once
round, the near-full guard fires, groups straddle the end of the ring, and some
groups fit the reserve while others overrun it; the checkpoint runs let a
block be allocated, freed, persisted in the chain and allocated again, with
chains of one and of two blocks; snapshots reach chains of three with a deleted
interior snapshot; `reclaim` has budgets that end before, at and after a file's
last extent; in `leaf_bsets` copies of a key in three bsets, compaction and
repeated splits all occur. The seeds of `btree` have a full root and a tree filled
from the right, so that the first edits already split an internal node, grow the
tree and meet separators without entries. The names of `files` are prefixes of
each other, one of them continued by the bytes of a snap_id. `RecoveryIsLegal` and the durability property
quantify over everything a crash could leave at a state, so `journal_power`
needs no crash step to ask about the first failure.

Deadlock is checked except in the Checkpoint runs, where the image is full when
`MaxBlock` is reached (the code grows the file), and in `btree` and `files`, where
the bounds on the operations run out.

Runs that expect a violation, each for one sentence of the repository:

| run | sentence | what the code does |
|---|---|---|
| `journal_stale_frames` | a trailing group with no CommitEnd "is discarded" (`storage.rs:182`) | its later frames can be replayed behind a newer, shorter group |
| `checkpoint_live_free` | replay's blocks "never collide with data blocks already persisted" (`fs.rs:459`) | blocks taken from the free list since the checkpoint are free again after `open` |
| `reclaim_truncate` | freeing a block a sibling shares "would corrupt that snapshot" (`fs.rs:1260`) | `truncate_extents` frees it |

The passing runs state their properties where these do not interfere:
`journal_process` and `journal_power` ask for atomicity after kills and after
the first power loss; `RecoveryIsLegal` of Checkpoint stops at the first crash
and leaves truncation out;
`FreesOnlyUnreferenced` is about reclaim and gc, not truncation.

Other places where code and comment part, met while modelling and without a run
of their own:

- A group of more than 65 records may lap the scan start that the guard at
  `fs.rs:534` protects. `RecoveryIsLegal`, `RingInv` and `AckedFramesKept` without
  the condition `Intact` are violated in `journal_process`.
- "A commit group is never allowed to push ... past" the soft limit
  (`fs.rs:366`): only reclaim is held back, a client's group is not.
- Chain blocks "are reclaimable after this checkpoint is superseded"
  (`storage.rs:792`): after `open` they are handed out at once. Until the first
  sync of such a mount the chain in force may be overwritten, and a second crash
  would read it; `ChainKept` speaks of the time from that sync on.
- "The previous checkpoint stays intact until the superblock swap" (`fs.rs:607`):
  a truncated block may be reused by the sync that precedes its commit. `checkpoint`
  violates `RecoveryIsLegal` without its condition on `"truncate"`.
- A reclaim pass "deletes the inode's extents and then removes the work item"
  (`fs.rs:65`): a write through a handle that is still open adds an extent after
  that, and nothing will reclaim it. Reclaim has the step, so
  `ExtentsStayCovered` is about extents that an inode or an item covered once.
- `parent_ino` is the "Parent directory inode" (`fs.rs:211`), but `rename` does
  not update it, and `..` is looked up through it.
- A scan returns "at most one" pair "for each distinct logical key" (`btree.rs:441`)
  if the versions of a key are contiguous. A name that continues another with
  the bytes of a snap_id lies between them: `ListingRight` without `Separated`
  is violated in `files`. Names are not restricted to UTF-8, so such names are
  possible; lookups (`LookupRight`) are right for all names.
- `list_dirents` "returns sorted names" (the test at `fs.rs:1653`): it returns
  them in the order of sortable keys, where a name comes after one that
  continues it with a byte below 0xFF.
- "The root inode is already there" (`fuse.rs:50`) on a second mount: not if the
  first died before its first commit. FuseFs therefore crashes only once the
  root is durable.

## Fairness

Only `reclaim` has a liveness property. Its assumption is that reclaim passes
keep coming while there is a work item: a pass is part of every commit, and the
checkpoint a nearly full ring forces brings the budget back above zero. It is
weak fairness of `Reclaiming`. So that TLC need not run a whole pass to see
whether one is enabled, it is stated of `PassStarts`: a pass is enabled exactly
when there is an item, and a step is a pass exactly when it gives `call` the
name of a new pass. The clients are not assumed to do anything else.

## Proofs

`JournalProofs` and `JournalAtomicity` prove, for every ring size, reserve, group size, crash mode and
operation bound that satisfies `JournalConstants`:

- `TypeCorrect`: `Spec => []TypeOK`;
- `RingCorrect`: `Spec => []RingIntact`;
- `Durability`: `Spec => []NoAckedGroupLost`;
- `FramesKept`: `Spec => AckedFramesKept`;
- `GuardSuffices`: `Spec => OnlyLargeGroupsOverrun`;
- `WatermarkKept`: `Spec => ReclaimKeepsWatermark`;
- `AtomicAfterKill`: `CrashMode = "process" => (Spec => []RecoveryIsLegal)`;
- `AtomicUntilFailure`: `SpecUntilFailure => []RecoveryIsLegal`.

None of them assumes anything of the size of a group. `RingIntact`,
`NoAckedGroupLost`, `AckedFramesKept` and `RecoveryIsLegal` are conditional on
`Intact`, a state in which no group has lapped the ring since the checkpoint;
`GuardSuffices` says which commits can leave it: only those whose group has at
least two records more than the guard reserves. A checkpoint leads back to it,
even in the middle of an overrun.

The argument. Durability alone is not inductive: it says nothing of the frames
a commit is about to overwrite. `RingInv` strengthens it. The frames since the
checkpoint fit into one lap and are valid in the cache; those of acknowledged
groups are the same on disk and end with a CommitEnd; both superblock copies are
either the published checkpoint or, in the last step of `sync`, the next one;
and a commit that starts to append has room for all it has left. The last part
is what an overrun breaks. `DurableInv` therefore asks for `RingInv` only where
`Intact` holds, and adds what holds throughout: the types, and `PublishInv`, that a
superblock about to be published covers every frame written so far. From these
alone `RingPublish` shows that the checkpoint restores `RingInv`. From `RingInv`,
`SlotsDiffer` (two seqs less than a lap apart have different slots) shows that
an append touches no frame still needed, and `RecoveryFindsAcked` that the scan
of any surviving image gets past the last acknowledged group. A crash step
re-establishes `RingInv` from the frames the scan accepted (`ScanResult`,
`ScanValid`). `MaxOfBounded` gives the maximum of a bounded set of integers.

Atomicity, the last two theorems, is the subject of `JournalAtomicity`. `RecoveryIsLegal` quantifies over
every image a crash can leave, so its proof must say what a scan of each of them
finds. `AtomicInv` names a boundary e, the seq behind the last complete group.
Both superblocks are then either the published one (`IsOld`: the frames before e
make a legal state of it, and all frames with the records still pending make
the state in memory of it) or the one that `sync` is about to publish (`IsNew`).
No frame left from an earlier lap ends a group ahead of the journal
(`NothingAhead`): this is what fails after a power loss, and why the theorem for
`"power"` is about the first one (`journal_stale_frames` shows the second).
`ReplayValue` and `ReplayMap` say which frame decides the value of a key,
`Turns` says the same of a list of records, and `SurvivingFrames` and
`RecoveryStops` that a recovery ends at e or, when only the fsync was missing,
at the end of the group. Of this too a part outlives an overrun (`MemoryInv`: what
the state in memory is made of, and that it is legal once it is published), from
which `AtomicSyncPublish` rebuilds the rest; `CrashInv` puts the cases together. `WatermarkKept` and `GuardSuffices`
rest on the two guards of `journal_commit`: the budget it gives reclaim is what is
left below the soft limit, and after the near-full check at least the reserve
and the CommitEnd fit (`GroupSize`).

`FuseProofs` proves, for every set of names and every bound on inodes, links and
crashes that satisfies `FuseConstants` (`MaxNlink` is at least the 2 that a
directory is created with):

- `FuseTypeCorrect`: `Spec => []TypeOK`;
- `DirentsResolve`: `Spec => []NoDanglingDirent`;
- `LinksCounted`: `Spec => []NlinkCounts`;
- `WorkItemsAreGone`: `Spec => []ReclaimedFilesAreGone`;
- `AllHangsBelowRoot`: `Spec => []AllReachable`.

None of the three before the last is inductive alone. That `unlink` leaves no dangling name
needs the count of links; that the count of a new inode starts at one needs that
no dirent names a number not yet handed out; and all three must hold of what a
crash brings back. `Sound` is their conjunction with the types, and with the root
as a directory that no dirent leads to; `FuseInv` says `Sound` of the tree in
memory and of the durable one. There is one lemma per handler about `Sound` of
any image (`SoundMake`, `SoundLink`, `SoundUnlink`, `SoundDrop` for the last
link and for `rmdir`, `SoundRename`), resting on three about the set of links when
a dirent is added or removed (`LinksWith`, `LinksWithout`, `OnlyLink`), and
`CommitSound` carries the result to the durable image.

`AllReachable` climbs from every inode to the root. That is not a statement
about single dirents, so `Rooted` says it of sets: a set that has some inode and
with every inode the directories of its dirents has the root. `RootedRename` is
the case that matters. A set that is closed after the move and does not have the
moved inode was closed before it. One that has it also has the new parent, and
its members above the new parent were closed before it, since the moved inode is
not among them (`VfsMayMove`). `AboveClosed` shows that the recursive `Above` is
such a set.

`SnapshotProofs` proves, for every set of keys and values, every `ROOT_SNAP` and
every bound on snapshots, commits and crashes:

- `SnapshotTypes`: `Spec => []TypeOK`;
- `HandedOutClean`: `Spec => []FreshIdsAreClean`;
- `TreeStaysTree`: `Spec => []SnapshotTreeOK`;
- `NoDeadKeys`: `Spec => []DeadKeysDropped`;
- `SubvolumesAreIsolated`: `Spec => Isolation`, the refinement: every step of
  Snapshots is a step of SubvolMaps or none under the mapping that reads each
  subvolume through its chain.

The ids of the tree in memory alone are not enough: a crash brings back the
durable tree with the durable counter, and a commit makes the logged tree
durable, which still has the keys of deleted snapshots. `IdsInv` says of all
three that the ids up to their counter are clean and that every subvolume writes
above it. `MetaInv` adds the metadata, in memory and durable: the parent of a
snapshot is a snapshot with a larger id, every subvolume has a snapshot of its
own that is nobody's parent, nothing is left to sweep, and the logged tree has
the versions of every live snapshot. Isolation rests on four lemmas about views:
a write changes one key of one view (`WriteView`), a snapshot copies a view
(`SnapshotView`), a deletion with its sweep removes one (`DeleteView`), and trees
that agree on a chain show the same (`SameViews`). The ancestor chain and the
sweep are recursive: `SnapshotLemmas` shows that each exists, that the chain is
the least set closed under parents (`ChainIsLeast`), and what a sweep leaves
(`SweepResult`).

`LeafProofs` proves, for every number of keys, bsets, entries, leaves and seqs
that satisfies `LeafConstants`:

- `SearchFindsLastWrite`: `Spec => []ReadsLatest`;
- `LeavesFit`: `Spec => []LeafFits`;
- `WhiteoutsAreFlagged`: `Spec => []WhiteoutsFlagged`;
- `LeafTypes`: `Spec => []TypeOK`.

`LeafInv` (an instance of `TreeOK`) says of every leaf that its bsets have
growing seqs below the next one and are flagged (`NodeOK`), that its entries fit,
and that what a search finds in leaf i for key x is what was written last if x
is routed to leaf i, and nothing otherwise. `FindsNewest` shows that `merged_find` picks the last
bset with a copy; `RewriteBset`, `NewBset` and `Rebuilds` what the three ways of
changing a leaf leave of the others' copies; `RankExists` and `Splits` that the
split point has keys on both sides; `RouteInserted` and `SplitTree` that a new
separator sends every key to the half that has it; `KeptNode` and `RebuildTree`
that a compaction keeps what is not dropped.

`Induction` has what these proofs need about recursion: the least element of a
set of numbers, induction upwards and downwards with the property given as a set
(the library's theorems take an operator, which the provers cannot instantiate),
and the existence of iterates of a function.

`CheckpointProofs` proves, for every number of leaves, blocks, chain entries,
writes, transactions, checkpoints and gc passes:

- `BlocksHaveOneOwner`: `Spec => []OneOwner`;
- `ReadsReturnWrites`: `Spec => []ReadsBack`.

`OneOwner` is not inductive: nothing keeps the high-water mark above the blocks
in use, and nothing says that a tree's nodes have blocks of their own.
`OwnerInv` adds both, what lies in the blocks of the extents, and that blocks
are in transit only while a sync flushes; a sweep at another time would free
them twice. `AllocFacts` says what `alloc` returns, `NodeWritten` covers every
write of a node to a fresh block, and there is one lemma per step. Both
properties, and `MountInv` with them, speak of the first mount: after a recovery
the free list may hold blocks in use (`NoLiveBlockFree`). The
module begins with facts about lists of block numbers: what popping, pushing,
joining and sorting does to the set of blocks they hold.

Only model-checked: liveness (`ItemsGetReclaimed`), which needs fairness; the
other properties of Checkpoint; and everything about Reclaim, Btree and Files,
which are built from recursive operators and folds over several steps of a scan.

## Not modelled

- Failing device calls and short reads (`device.rs`): an append that fails
  leaves a gap in the seqs and has lost its records; a `sync` that fails half
  way has already freed blocks.
- Power loss in Checkpoint: one fsync covers a commit's data blocks and its
  CommitEnd.
- `main.rs`, the encodings, timestamps and permissions.

## Plan

Done, in this order: Journal and its proofs, BlockStore, Checkpoint, SubvolMaps
and Snapshots, Reclaim, FuseFs, LeafNode; then Btree and DurableMap, KeySpace and
Files, and the first proofs about FuseFs, Snapshots and Checkpoint; then the
atomicity of Journal, reachability in FuseFs, the refinement of SubvolMaps, and
LeafNode.

Next, to model:
1. failing device calls in `journal_commit` and `sync`;
2. power loss in Checkpoint, crashes in Reclaim, and in FuseFs a crash before the
   root inode is durable.

Next, to prove:
1. `CheckpointTreeIntact`, `ChainKept`, `RecoveryIsLegal` and `GcLeavesNoOrphan` of
   Checkpoint;
2. `ExtentsStayCovered` and `FreesOnlyUnreferenced` of Reclaim.
