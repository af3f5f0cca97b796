------------------------------ MODULE Reclaim -------------------------------
(***************************************************************************)
(* Files, their data blocks and the lazy reclaim of unlinked files (fs.rs),*)
(* over the versioned keys of module Snapshots.                            *)
(*                                                                         *)
(* A file is an inode key and one extent key per block offset; an extent's *)
(* value is its data block.  unlink removes the inode and leaves a work    *)
(* item; every journal_commit runs one slice of reclaim_deleted_inodes.    *)
(* Every extent gets a block of its own, and `freed' collects the blocks   *)
(* handed back to the allocator: what happens to a block after that is the *)
(* subject of module Checkpoint.                                           *)
(***************************************************************************)
EXTENDS Snapshots, Sequences, SequencesExt

CONSTANTS
  Inos,        \* inode numbers create may hand out
  MaxOffset,   \* bound: blocks per file
  MaxBlock,    \* bound: data blocks
  MaxBudget,   \* the largest budget of one reclaim pass
  Ops          \* operations the clients use: "truncate", "write_unlinked"

Offsets == 1 .. MaxOffset

inode_key(ino) == <<ino, 0>>
extent_key(ino, offset) == <<ino, offset>>

InodeValue == 0

ASSUME ReclaimConstants ==
  /\ Inos \subseteq Nat
  /\ MaxOffset \in Nat
  /\ MaxBlock \in Nat
  /\ MaxBudget \in Nat \ {0}
  /\ Keys = {inode_key(ino) : ino \in Inos}
              \cup {extent_key(ino, off) : ino \in Inos, off \in Offsets}
  /\ Values = 0 .. MaxBlock
  /\ Ops \subseteq {"truncate", "write_unlinked"}

VARIABLES
  deleted_inodes,   \* work items: <<ino, snap_id>> -> next_offset
  next_block,
  freed             \* data blocks returned to the allocator

fileVars == <<deleted_inodes, next_block, freed>>
allVars == <<vars, fileVars>>

ReclaimInit ==
  /\ Init
  /\ deleted_inodes = [i \in {} |-> 0]
  /\ next_block = 1
  /\ freed = {}

Visible(k) == find_visible(tree, k, current_chain) # NoEntry
-----------------------------------------------------------------------------
\* create: an inode number is handed out once.
Create(ino) ==
  /\ \A s \in SnapId : logged[inode_key(ino)][s] = NoEntry
  /\ Insert(inode_key(ino), InodeValue)
  /\ UNCHANGED fileVars

\* put_extent: always a fresh block; the one it replaces is left to gc.
PutExtent(ino, off) ==
  /\ next_block <= MaxBlock
  /\ Insert(extent_key(ino, off), next_block)
  /\ next_block' = next_block + 1
  /\ UNCHANGED <<deleted_inodes, freed>>

\* put_inode: a handler that changes a file's size stores the inode again, at
\* the current snap_id.
WithInode(t, ino) == [t EXCEPT ![inode_key(ino)][current_snap] = Live(InodeValue)]

\* write: the extent, then the inode.
Write(ino, off) ==
  LET Apply(t) == WithInode([t EXCEPT ![extent_key(ino, off)][current_snap] =
                                        Live(next_block)], ino)
  IN  /\ Visible(inode_key(ino))
      /\ next_block <= MaxBlock
      /\ tree' = Apply(tree)
      /\ logged' = Apply(logged)
      /\ next_block' = next_block + 1
      /\ call' = "put"
      /\ UNCHANGED <<metaVars, durable, commits, crashes, bounds, deleted_inodes, freed>>

\* A write through an open handle after the last unlink: the handler looks at
\* the inode only when write_at is done, and answers ENOENT.
WriteUnlinked(ino, off) ==
  /\ "write_unlinked" \in Ops
  /\ Versions(tree, inode_key(ino), current_chain) # {}
  /\ ~ Visible(inode_key(ino))
  /\ PutExtent(ino, off)

\* Mutant: the work item names the snap_id it is stored at.
UnlinkRootItem(ino) ==
  /\ Delete(inode_key(ino))
  /\ deleted_inodes' = [i \in DOMAIN deleted_inodes \cup {<<ino, ROOT_SNAP>>} |->
                          IF i = <<ino, ROOT_SNAP>> THEN 0 ELSE deleted_inodes[i]]
  /\ UNCHANGED <<next_block, freed>>

\* unlink of the last link: the inode goes, the work item comes.
Unlink(ino) ==
  /\ Delete(inode_key(ino))
  /\ deleted_inodes' = [i \in DOMAIN deleted_inodes \cup {<<ino, current_snap>>} |->
                          IF i = <<ino, current_snap>> THEN 0 ELSE deleted_inodes[i]]
  /\ UNCHANGED <<next_block, freed>>

\* The entry delete_at writes for an extent that chain shows.
Tombstone(t, k, snap, chain) ==
  IF visible_snap(t, k, chain) = snap THEN Deleted ELSE Whiteout

(***************************************************************************)
(* truncate_extents to `size' blocks, or to a little more when partial:    *)
(* delete_extent and free_data_block for every visible extent behind the   *)
(* new end, and a shortened copy of the extent that straddles it; setattr  *)
(* then stores the inode.                                                  *)
(***************************************************************************)
TruncateExtents(ino, size, partial) ==
  LET end  == IF partial THEN size + 1 ELSE size
      gone == {off \in end + 1 .. MaxOffset : Visible(extent_key(ino, off))}
      cut  == IF partial /\ Visible(extent_key(ino, end)) THEN {end} ELSE {}
      Entered(k) == IF k[2] \in cut THEN Live(next_block)
                    ELSE Tombstone(tree, k, current_snap, current_chain)
      Apply(t) == WithInode([k \in Keys |->
                               IF k \in {extent_key(ino, off) : off \in gone \cup cut}
                               THEN [t[k] EXCEPT ![current_snap] = Entered(k)]
                               ELSE t[k]], ino)
  IN  /\ "truncate" \in Ops
      /\ Visible(inode_key(ino))
      /\ next_block + Cardinality(cut) <= MaxBlock + 1
      /\ tree' = Apply(tree)
      /\ logged' = Apply(logged)
      /\ next_block' = next_block + Cardinality(cut)
      /\ freed' = freed \cup {find_visible(tree, extent_key(ino, off), current_chain).value :
                                off \in gone}
      /\ call' = "other"
      /\ UNCHANGED <<metaVars, durable, commits, crashes, bounds, deleted_inodes>>

\* gc, for data blocks: a block is live if a Live extent points at it at any
\* snap_id, the others are freed.
LiveData(t) ==
  {t[extent_key(ino, off)][s].value : ino \in Inos, off \in Offsets, s \in SnapId} \ {None}

Gc ==
  /\ 1 .. next_block - 1 # LiveData(tree) \cup freed
  /\ freed' = freed \cup ((1 .. next_block - 1) \ LiveData(tree))
  /\ call' = "other"
  /\ UNCHANGED <<tree, logged, metaVars, durable, commits, crashes, bounds,
                 deleted_inodes, next_block>>
-----------------------------------------------------------------------------
(***************************************************************************)
(* reclaim_deleted_inodes.  A pass carries the tree, the work items, the   *)
(* freed blocks and what is left of the budget from item to item.          *)
(***************************************************************************)
WithoutItem(items, i) == Restrict(items, DOMAIN items \ {i})

\* The extents of an item that are still to be deleted.
Pending(st, i) ==
  {off \in st.items[i] .. MaxOffset :
     off > 0 /\ find_visible(st.tree, extent_key(i[1], off),
                             ancestor_chain(snapshots, i[2])) # NoEntry}

\* The first n of them.
FirstOf(offs, n) == {off \in offs : Cardinality({o \in offs : o <= off}) <= n}

\* Mutant: the block of an inherited extent is freed as well.
DeleteExtentsFreeingAll(st, i, offs) ==
  LET chain == ancestor_chain(snapshots, i[2])
      Cut(t) == [k \in Keys |->
                   IF k \in {extent_key(i[1], off) : off \in offs}
                   THEN [t[k] EXCEPT ![i[2]] = Tombstone(st.tree, k, i[2], chain)]
                   ELSE t[k]]
      shown  == {find_visible(st.tree, extent_key(i[1], off), chain).value : off \in offs}
  IN  [st EXCEPT !.tree = Cut(st.tree), !.logged = Cut(st.logged),
                 !.freed = st.freed \cup shown,
                 !.budget = st.budget - Cardinality(offs)]

\* Mutant: an inherited extent is flipped where it is stored.
DeleteExtentsInPlace(st, i, offs) ==
  LET chain == ancestor_chain(snapshots, i[2])
      Cut(t) == [k \in Keys |->
                   IF k \in {extent_key(i[1], off) : off \in offs}
                   THEN [t[k] EXCEPT ![visible_snap(st.tree, k, chain)] = Deleted]
                   ELSE t[k]]
      own    == {off \in offs :
                   visible_snap(st.tree, extent_key(i[1], off), chain) = i[2]}
  IN  [st EXCEPT !.tree = Cut(st.tree), !.logged = Cut(st.logged),
                 !.freed = st.freed \cup {st.tree[extent_key(i[1], off)][i[2]].value : off \in own},
                 !.budget = st.budget - Cardinality(offs)]

\* delete_at for each of offs; a block is freed only when the extent is stored
\* at the item's own snap_id.
DeleteExtents(st, i, offs) ==
  LET chain == ancestor_chain(snapshots, i[2])
      Cut(t) == [k \in Keys |->
                   IF k \in {extent_key(i[1], off) : off \in offs}
                   THEN [t[k] EXCEPT ![i[2]] = Tombstone(st.tree, k, i[2], chain)]
                   ELSE t[k]]
      own    == {off \in offs :
                   visible_snap(st.tree, extent_key(i[1], off), chain) = i[2]}
  IN  [st EXCEPT !.tree = Cut(st.tree), !.logged = Cut(st.logged),
                 !.freed = st.freed \cup {st.tree[extent_key(i[1], off)][i[2]].value : off \in own},
                 !.budget = st.budget - Cardinality(offs)]

\* Mutant: the work item is removed only if a frame is left after it.
reclaim_item_reserving(st, i) ==
  LET pending == Pending(st, i)
      offs    == FirstOf(pending, st.budget)
      cut     == DeleteExtents(st, i, offs)
  IN  CASE st.budget = 0 -> st
        [] st.budget > 0 /\ i[2] \notin DOMAIN snapshots ->
             [st EXCEPT !.items = WithoutItem(st.items, i), !.budget = st.budget - 1]
        [] OTHER ->
             IF offs # pending THEN [cut EXCEPT !.items[i] = Max(offs) + 1]
             ELSE IF cut.budget <= 1 THEN cut
             ELSE [cut EXCEPT !.items = WithoutItem(st.items, i), !.budget = cut.budget - 1]

reclaim_item(st, i) ==
  LET pending == Pending(st, i)
      offs    == FirstOf(pending, st.budget)
      cut     == DeleteExtents(st, i, offs)
  IN  CASE st.budget = 0 -> st
        [] st.budget > 0 /\ i[2] \notin DOMAIN snapshots ->
             [st EXCEPT !.items = WithoutItem(st.items, i), !.budget = st.budget - 1]
        [] OTHER ->
             IF offs # pending THEN [cut EXCEPT !.items[i] = Max(offs) + 1]
             ELSE IF cut.budget = 0 THEN cut
             ELSE [cut EXCEPT !.items = WithoutItem(st.items, i), !.budget = cut.budget - 1]

Before(i, j) == i[1] < j[1] \/ (i[1] = j[1] /\ i[2] <= j[2])

\* The worklist is read once, in key order.
reclaim_deleted_inodes(st) ==
  FoldLeft(reclaim_item, st, SetToSortSeq(DOMAIN st.items, Before))

\* The name of a pass tells it from the call before it, a pass or not.
PassName == IF call = "reclaim" THEN "reclaim again" ELSE "reclaim"

ReclaimPass(budget) ==
  /\ DOMAIN deleted_inodes # {}
  /\ call' = PassName
  /\ \E st \in {reclaim_deleted_inodes(
                  [tree |-> tree, logged |-> logged, items |-> deleted_inodes,
                   freed |-> freed, budget |-> budget])} :
       /\ tree' = st.tree
       /\ logged' = st.logged
       /\ deleted_inodes' = st.items
       /\ freed' = st.freed
  /\ UNCHANGED <<metaVars, durable, commits, crashes, bounds, next_block>>

Reclaiming == \E budget \in 1 .. MaxBudget : ReclaimPass(budget)

ReclaimNext ==
  \/ \E ino \in Inos : Create(ino)
  \/ \E ino \in Inos, off \in Offsets : Write(ino, off)
  \/ \E ino \in Inos, off \in Offsets : WriteUnlinked(ino, off)
  \/ \E ino \in Inos : Unlink(ino)
  \/ \E ino \in Inos, size \in 0 .. MaxOffset - 1, partial \in BOOLEAN :
       TruncateExtents(ino, size, partial)
  \/ Gc
  \/ Reclaiming
  \/ \E id \in DOMAIN subvols : SnapshotSubvol(id) /\ UNCHANGED fileVars
  \/ \E id \in DOMAIN subvols : SwitchSubvol(id) /\ UNCHANGED fileVars
  \/ \E id \in DOMAIN subvols : DeleteSnapshot(id) /\ UNCHANGED fileVars

ReclaimSpec == ReclaimInit /\ [][ReclaimNext]_allVars

(***************************************************************************)
(* Commits keep coming, and the near-full checkpoint keeps their reclaim   *)
(* budgets positive; so a pass, possible as long as there is a work item,  *)
(* is not put off for ever.  This is weak fairness of Reclaiming: a step   *)
(* is one of its steps iff it gives call the name of a new pass.           *)
(***************************************************************************)
PassStarts == DOMAIN deleted_inodes # {} /\ call' = PassName

FairReclaimSpec == ReclaimSpec /\ WF_call(PassStarts)
-----------------------------------------------------------------------------
\* The block of an extent as subvolume id shows it, None if there is none.
Shown(id, ino, off) ==
  find_visible(tree, extent_key(ino, off),
               ancestor_chain(snapshots, subvols[id].snap_id)).value

HasInode(id, ino) ==
  find_visible(tree, inode_key(ino),
               ancestor_chain(snapshots, subvols[id].snap_id)) # NoEntry

(***************************************************************************)
(* README: "a block a sibling snapshot still references is never           *)
(* reclaimed".  No block that some subvolume shows has been freed          *)
(* (reclaim_deleted_inodes, truncate_extents).                             *)
(***************************************************************************)
SharedBlocksKept ==
  \A id \in DOMAIN subvols, ino \in Inos, off \in Offsets :
    Shown(id, ino, off) \notin freed

(***************************************************************************)
(* The comment on gc: "it can never free a live block".  Neither gc nor    *)
(* the reclaim of a subvolume's unlinked files frees a block that a Live   *)
(* extent points at, at any snap_id and visible or not.                    *)
(***************************************************************************)
FreesOnlyUnreferenced ==
  [][tree' = tree \/ call' \in {"reclaim", "reclaim again"} =>
       (freed' \ freed) \cap LiveData(tree') = {}]_allVars

\* The extent has an inode, or a work item that will get to it: one between the
\* subvolume and the snapshot the extent is stored at.
Covered(id, ino, off) ==
  LET chain == ancestor_chain(snapshots, subvols[id].snap_id)
  IN  \/ HasInode(id, ino)
      \/ \E i \in DOMAIN deleted_inodes :
           /\ i[1] = ino
           /\ i[2] \in chain
           /\ i[2] <= visible_snap(tree, extent_key(ino, off), chain)
           /\ deleted_inodes[i] <= off

(***************************************************************************)
(* The comment on KIND_DELETED_INODES: "a later bounded reclaim pass       *)
(* deletes the inode's extents and then removes the work item".  An extent *)
(* that has an inode or a work item keeps one of them as long as it is     *)
(* there, in every subvolume, through unlink, partial passes and snapshots.*)
(***************************************************************************)
ExtentsStayCovered ==
  [][\A id \in DOMAIN subvols \cap DOMAIN subvols', ino \in Inos, off \in Offsets :
       /\ Shown(id, ino, off) # None
       /\ Shown(id, ino, off)' = Shown(id, ino, off)
       /\ Covered(id, ino, off)
       => Covered(id, ino, off)']_allVars

(***************************************************************************)
(* Reclaim works on the item's own ancestor chain, "never the currently    *)
(* active subvolume's": a pass changes no file that some subvolume can     *)
(* still reach.                                                            *)
(***************************************************************************)
ReclaimLeavesFilesAlone ==
  [][call' # call /\ call' \in {"reclaim", "reclaim again"} =>
       \A id \in DOMAIN subvols, ino \in Inos, off \in Offsets :
         HasInode(id, ino)' => Shown(id, ino, off)' = Shown(id, ino, off)]_allVars

(***************************************************************************)
(* Reclaim gets done: with commits coming, every work item is removed,     *)
(* however small the budgets (reclaim_deleted_inodes saves its progress).  *)
(***************************************************************************)
ItemsGetReclaimed ==
  \A ino \in Inos, s \in SnapId :
    <<ino, s>> \in DOMAIN deleted_inodes ~> <<ino, s>> \notin DOMAIN deleted_inodes
=============================================================================
