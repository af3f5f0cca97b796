----------------------------- MODULE Snapshots ------------------------------
(***************************************************************************)
(* Snapshots and subvolumes of rfs (fs.rs) over the versioned keys of its  *)
(* B-tree (btree.rs): every key carries the snap_id it was written at, a   *)
(* subvolume reads the version closest to it on the ancestor chain of its  *)
(* snap_id, and a delete leaves a tombstone that hides older versions.     *)
(*                                                                         *)
(* The tree is a function from keys and snap_ids to entries.  The metadata *)
(* of snapshots and subvolumes, which the code keeps in the same tree at   *)
(* ROOT_SNAP, are functions of their own.  drop_snapshot_keys edits the    *)
(* tree without logging it, so `logged' follows the tree as a replay would *)
(* rebuild it.                                                             *)
(***************************************************************************)
EXTENDS Naturals, FiniteSets, FiniteSetsExt, Functions

CONSTANTS
  Keys,         \* logical keys
  Values,
  None,         \* no value
  ROOT_SNAP,    \* the largest snap_id (u32::MAX); ids are handed out downwards
  MAX_SUBVOL,   \* the largest SubvolId (u32::MAX)
  Bounds        \* bounds: snapshots taken, commits and syncs, crashes

NO_PARENT_SNAP == 0
ROOT_SUBVOL == 1

ASSUME SnapshotConstants ==
  /\ ROOT_SNAP \in Nat \ {0}
  /\ MAX_SUBVOL \in Nat \ {0, 1}
  /\ None \notin Values
  /\ Bounds \subseteq [snapshots : Nat, commits : Nat, crashes : Nat]

SnapId == 1 .. ROOT_SNAP
SubvolId == ROOT_SUBVOL .. MAX_SUBVOL

Live(v) == [kind |-> "Live", value |-> v]
Deleted == [kind |-> "Deleted", value |-> None]
Whiteout == [kind |-> "Whiteout", value |-> None]
NoEntry == [kind |-> "NoEntry", value |-> None]

Entry == {Live(v) : v \in Values} \cup {Deleted, Whiteout, NoEntry}

Subvol == [snap_id : SnapId, readonly : BOOLEAN, parent_subvol : Nat]

VARIABLES
  tree,            \* key -> snap_id -> entry, in memory
  logged,          \* the tree that checkpoint plus logged records rebuild
  snapshots,       \* live snap_id -> parent_id
  subvols,         \* live subvolume id -> metadata
  current_subvol,
  next_snap_id,
  next_subvol_id,
  durable,         \* all of it as the last commit or sync made it durable
  commits,
  crashes,
  bounds,          \* the bounds of this behaviour
  call             \* history: the kind of the last call ("reclaim": module Reclaim)

metaVars == <<snapshots, subvols, current_subvol, next_snap_id, next_subvol_id>>
vars == <<tree, logged, metaVars, durable, commits, crashes, bounds, call>>

Tree == [Keys -> [SnapId -> Entry]]

TypeOK ==
  /\ tree \in Tree
  /\ logged \in Tree
  /\ DOMAIN snapshots \subseteq SnapId
  /\ \A s \in DOMAIN snapshots : snapshots[s] \in SnapId \cup {NO_PARENT_SNAP}
  /\ DOMAIN subvols \subseteq SubvolId
  /\ \A id \in DOMAIN subvols : subvols[id] \in Subvol
  /\ current_subvol \in SubvolId
  /\ next_snap_id \in 0 .. ROOT_SNAP
  /\ next_subvol_id \in SubvolId
  /\ bounds \in Bounds
  /\ commits \in 0 .. bounds.commits
  /\ crashes \in 0 .. bounds.crashes
  /\ call \in {"put", "delete", "reclaim", "reclaim again", "other"}
-----------------------------------------------------------------------------
(***************************************************************************)
(* Visibility.                                                             *)
(***************************************************************************)
\* ancestor_chain: the parents of a snap_id, itself included.  The code's list
\* is ascending, so the set says it all.
ancestor_chain(snaps, snap) ==
  LET up[s \in SnapId] ==
        {s} \cup IF s \in DOMAIN snaps /\ snaps[s] # NO_PARENT_SNAP /\ snaps[s] > s
                 THEN up[snaps[s]] ELSE {}
  IN  up[snap]

Versions(t, k, chain) == {s \in chain : t[k][s] # NoEntry}

\* find_visible_with_snap: the first version on the chain decides, and a
\* tombstone hides what is behind it.
find_visible(t, k, chain) ==
  IF Versions(t, k, chain) = {} THEN NoEntry
  ELSE LET e == t[k][Min(Versions(t, k, chain))]
       IN  IF e.kind = "Live" THEN e ELSE NoEntry

visible_snap(t, k, chain) == Min(Versions(t, k, chain))

current_snap == subvols[current_subvol].snap_id

current_chain == ancestor_chain(snapshots, current_snap)
-----------------------------------------------------------------------------
Now == [tree |-> logged, snapshots |-> snapshots, subvols |-> subvols,
        current_subvol |-> current_subvol, next_snap_id |-> next_snap_id,
        next_subvol_id |-> next_subvol_id]

\* Fs::create: the root snapshot and the default subvolume, synced.
Init ==
  /\ tree = [k \in Keys |-> [s \in SnapId |-> NoEntry]]
  /\ logged = tree
  /\ snapshots = [s \in {ROOT_SNAP} |-> NO_PARENT_SNAP]
  /\ subvols = [id \in {ROOT_SUBVOL} |->
                  [snap_id |-> ROOT_SNAP, readonly |-> FALSE, parent_subvol |-> 0]]
  /\ current_subvol = ROOT_SUBVOL
  /\ next_snap_id = ROOT_SNAP - 1
  /\ next_subvol_id = ROOT_SUBVOL + 1
  /\ durable = Now
  /\ commits = 0
  /\ crashes = 0
  /\ bounds \in Bounds
  /\ call = "other"

\* One logged write of the tree.
WriteEntry(k, snap, e) ==
  /\ tree' = [tree EXCEPT ![k][snap] = e]
  /\ logged' = [logged EXCEPT ![k][snap] = e]

\* insert_at, under put_inode, put_dirent and put_extent.
Insert(k, v) ==
  /\ WriteEntry(k, current_snap, Live(v))
  /\ call' = "put"
  /\ UNCHANGED <<metaVars, durable, commits, crashes, bounds>>

\* Mutant: a version of our own is removed instead of flipped.
DeleteErasing(k) ==
  /\ find_visible(tree, k, current_chain) # NoEntry
  /\ WriteEntry(k, current_snap,
                IF visible_snap(tree, k, current_chain) = current_snap
                THEN NoEntry ELSE Whiteout)
  /\ call' = "delete"
  /\ UNCHANGED <<metaVars, durable, commits, crashes, bounds>>

\* delete_at, under delete_inode, delete_dirent and delete_extent: a version of
\* our own is flipped to Deleted, an inherited one is hidden by a Whiteout.
Delete(k) ==
  /\ find_visible(tree, k, current_chain) # NoEntry
  /\ WriteEntry(k, current_snap,
                IF visible_snap(tree, k, current_chain) = current_snap
                THEN Deleted ELSE Whiteout)
  /\ call' = "delete"
  /\ UNCHANGED <<metaVars, durable, commits, crashes, bounds>>
-----------------------------------------------------------------------------
\* The bound: each snapshot taken uses up two ids.
MayTakeSnapshot == ROOT_SNAP - 1 - next_snap_id < 2 * bounds.snapshots

\* Mutant: the last pair of ids reaches down to NO_PARENT_SNAP.
SnapshotSubvolToZero(src) ==
  LET s_w    == next_snap_id
      s_ro   == next_snap_id - 1
      parent == subvols[src].snap_id
      new    == next_subvol_id
  IN  /\ MayTakeSnapshot
      /\ next_snap_id >= 1
      /\ next_subvol_id < MAX_SUBVOL
      /\ snapshots' = [s \in DOMAIN snapshots \cup {s_w, s_ro} |->
                         IF s \in {s_w, s_ro} THEN parent ELSE snapshots[s]]
      /\ subvols' = [id \in DOMAIN subvols \cup {new} |->
                       CASE id = new -> [snap_id |-> s_ro, readonly |-> TRUE,
                                         parent_subvol |-> src]
                         [] id = src -> [subvols[src] EXCEPT !.snap_id = s_w]
                         [] OTHER -> subvols[id]]
      /\ next_snap_id' = IF next_snap_id = 1 THEN 0 ELSE next_snap_id - 2
      /\ next_subvol_id' = next_subvol_id + 1
      /\ call' = "other"
      /\ UNCHANGED <<tree, logged, current_subvol, durable, commits, crashes, bounds>>

(***************************************************************************)
(* snapshot_subvol: two fresh ids below the snapshot of src, one to write  *)
(* on and one for the new readonly subvolume.  Exhausted ids refuse.       *)
(***************************************************************************)
SnapshotSubvol(src) ==
  LET s_w    == next_snap_id
      s_ro   == next_snap_id - 1
      parent == subvols[src].snap_id
      new    == next_subvol_id
  IN  /\ MayTakeSnapshot
      /\ next_snap_id >= 2
      /\ next_subvol_id < MAX_SUBVOL
      /\ snapshots' = [s \in DOMAIN snapshots \cup {s_w, s_ro} |->
                         IF s \in {s_w, s_ro} THEN parent ELSE snapshots[s]]
      /\ subvols' = [id \in DOMAIN subvols \cup {new} |->
                       CASE id = new -> [snap_id |-> s_ro, readonly |-> TRUE,
                                         parent_subvol |-> src]
                         [] id = src -> [subvols[src] EXCEPT !.snap_id = s_w]
                         [] OTHER -> subvols[id]]
      /\ next_snap_id' = next_snap_id - 2
      /\ next_subvol_id' = next_subvol_id + 1
      /\ call' = "other"
      /\ UNCHANGED <<tree, logged, current_subvol, durable, commits, crashes, bounds>>

SwitchSubvol(id) ==
  /\ current_subvol' = id
  /\ call' = "other"
  /\ UNCHANGED <<tree, logged, snapshots, subvols, next_snap_id, next_subvol_id,
                 durable, commits, crashes, bounds>>

is_ancestor(ancestor, of) == ancestor \in ancestor_chain(snapshots, of)

\* Mutant: the active subvolume may be deleted.
DeletableActive(id) ==
  LET dead == subvols[id].snap_id
  IN  /\ id # ROOT_SUBVOL
      /\ subvols[id].readonly
      /\ dead # ROOT_SNAP
      /\ \A s \in DOMAIN snapshots : snapshots[s] # dead
      /\ \A other \in DOMAIN subvols \ {id} :
           /\ subvols[other].parent_subvol # id
           /\ ~ is_ancestor(dead, subvols[other].snap_id)

\* The conditions of delete_snapshot.
Deletable(id) ==
  LET dead == subvols[id].snap_id
  IN  /\ id # ROOT_SUBVOL
      /\ subvols[id].readonly
      /\ current_subvol # id
      /\ dead # ROOT_SNAP
      /\ \A s \in DOMAIN snapshots : snapshots[s] # dead
      /\ \A other \in DOMAIN subvols \ {id} :
           /\ subvols[other].parent_subvol # id
           /\ ~ is_ancestor(dead, subvols[other].snap_id)

\* One round of sweep_unreferenced_snapshots.
Candidates(snaps, svs) ==
  {s \in DOMAIN snaps : /\ s # ROOT_SNAP
                        /\ \A id \in DOMAIN svs : svs[id].snap_id # s
                        /\ \A c \in DOMAIN snaps : snaps[c] # s}

\* The rounds until there is no candidate; no round but the last is idle, so
\* there are at most ROOT_SNAP of them.
sweep_unreferenced_snapshots(snaps, svs) ==
  LET after[n \in 0 .. ROOT_SNAP] ==
        IF n = 0 THEN snaps
        ELSE Restrict(after[n - 1],
                      DOMAIN after[n - 1] \ Candidates(after[n - 1], svs))
  IN  after[ROOT_SNAP]

\* Mutant: only live versions are dropped.
drop_live_keys(t, dead) ==
  [k \in Keys |-> [s \in SnapId |->
     IF s \in dead /\ t[k][s].kind = "Live" THEN NoEntry ELSE t[k][s]]]

drop_snapshot_keys(t, dead) ==
  [k \in Keys |-> [s \in SnapId |-> IF s \in dead THEN NoEntry ELSE t[k][s]]]

(***************************************************************************)
(* delete_snapshot: the metadata goes in one transaction, its keys go      *)
(* unlogged, and the same for the snapshots nobody needs any more.         *)
(***************************************************************************)
DeleteSnapshot(id) ==
  LET dead == subvols[id].snap_id
      svs  == Restrict(subvols, DOMAIN subvols \ {id})
  IN  /\ Deletable(id)
      /\ subvols' = svs
      /\ snapshots' = sweep_unreferenced_snapshots(
                        Restrict(snapshots, DOMAIN snapshots \ {dead}), svs)
      /\ tree' = drop_snapshot_keys(tree, DOMAIN snapshots \ DOMAIN snapshots')
      /\ call' = "other"
      /\ UNCHANGED <<logged, current_subvol, next_snap_id, next_subvol_id,
                     durable, commits, crashes, bounds>>
-----------------------------------------------------------------------------
\* journal_commit: the logged records become durable.
JournalCommit ==
  /\ commits < bounds.commits
  /\ durable' = Now
  /\ commits' = commits + 1
  /\ call' = "other"
  /\ UNCHANGED <<tree, logged, metaVars, crashes, bounds>>

\* Fs::sync: the tree itself becomes durable.  Records not yet drained from the
\* tree's log are journaled by the next commit once more.  They are in the tree
\* already; a replay brings back only versions at snap_ids that were dropped, as
\* a crash before the sync does.
Sync ==
  /\ commits < bounds.commits
  /\ logged' = tree
  /\ durable' = [Now EXCEPT !.tree = tree]
  /\ commits' = commits + 1
  /\ call' = "other"
  /\ UNCHANGED <<tree, metaVars, crashes, bounds>>

\* Mutant: open starts over with the snap_ids.
CrashForgetsIds ==
  /\ crashes < bounds.crashes
  /\ tree' = durable.tree
  /\ logged' = durable.tree
  /\ snapshots' = durable.snapshots
  /\ subvols' = durable.subvols
  /\ current_subvol' = durable.current_subvol
  /\ next_snap_id' = ROOT_SNAP - 1
  /\ next_subvol_id' = durable.next_subvol_id
  /\ crashes' = crashes + 1
  /\ call' = "other"
  /\ UNCHANGED <<durable, commits, bounds>>

\* The process stops and Fs::open rebuilds what was durable.
Crash ==
  /\ crashes < bounds.crashes
  /\ tree' = durable.tree
  /\ logged' = durable.tree
  /\ snapshots' = durable.snapshots
  /\ subvols' = durable.subvols
  /\ current_subvol' = durable.current_subvol
  /\ next_snap_id' = durable.next_snap_id
  /\ next_subvol_id' = durable.next_subvol_id
  /\ crashes' = crashes + 1
  /\ call' = "other"
  /\ UNCHANGED <<durable, commits, bounds>>

Next ==
  \/ \E k \in Keys, v \in Values : Insert(k, v)
  \/ \E k \in Keys : Delete(k)
  \/ \E id \in DOMAIN subvols : SnapshotSubvol(id)
  \/ \E id \in DOMAIN subvols : SwitchSubvol(id)
  \/ \E id \in DOMAIN subvols : DeleteSnapshot(id)
  \/ JournalCommit
  \/ Sync
  \/ Crash

Spec == Init /\ [][Next]_vars
-----------------------------------------------------------------------------
\* What a subvolume shows.
View(t, snaps, svs, id) ==
  [k \in Keys |-> find_visible(t, k, ancestor_chain(snaps, svs[id].snap_id)).value]

Views(t, snaps, svs) == [id \in DOMAIN svs |-> View(t, snaps, svs, id)]

Maps == INSTANCE SubvolMaps WITH
  vols    <- Views(tree, snapshots, subvols),
  current <- current_subvol,
  saved   <- [vols |-> Views(durable.tree, durable.snapshots, durable.subvols),
              current |-> durable.current_subvol]

(***************************************************************************)
(* Isolation (find_visible_with_snap, delete_at, snapshot_subvol,          *)
(* delete_snapshot): the shared tree of versioned keys behaves as one map  *)
(* per subvolume, crashes included.                                        *)
(***************************************************************************)
Isolation == Maps!Spec

(***************************************************************************)
(* The snapshot tree stays a tree (snapshot_subvol, delete_snapshot, open):*)
(* parents exist and are larger, no two subvolumes write at one snap_id,   *)
(* the active subvolume is never deleted under its user (current_snap      *)
(* panics when it is missing), and sweep_unreferenced_snapshots finds all  *)
(* there is: every snapshot is on the ancestor chain of some subvolume.    *)
(***************************************************************************)
SnapshotTreeOK ==
  /\ current_subvol \in DOMAIN subvols
  /\ IsInjective([id \in DOMAIN subvols |-> subvols[id].snap_id])
  /\ \A id \in DOMAIN subvols : subvols[id].snap_id \in DOMAIN snapshots
  /\ \A s \in DOMAIN snapshots :
       IF s = ROOT_SNAP THEN snapshots[s] = NO_PARENT_SNAP
       ELSE snapshots[s] \in DOMAIN snapshots /\ snapshots[s] > s
  /\ \A s \in DOMAIN snapshots \ {ROOT_SNAP} :
       \E id \in DOMAIN subvols : is_ancestor(s, subvols[id].snap_id)

(***************************************************************************)
(* A snap_id that is still to be handed out has no key version, not even   *)
(* garbage of a deleted snapshot that a crash brought back: what a new     *)
(* snapshot shows is what its parent has.                                  *)
(***************************************************************************)
FreshIdsAreClean ==
  \A k \in Keys : \A s \in 1 .. next_snap_id : tree[k][s] = NoEntry

(***************************************************************************)
(* delete_snapshot leaves no key version behind: without a crash, every    *)
(* version belongs to a live snapshot.                                     *)
(***************************************************************************)
DeadKeysDropped ==
  crashes = 0 =>
    \A k \in Keys : \A s \in SnapId \ DOMAIN snapshots : tree[k][s] = NoEntry
=============================================================================
