------------------------------ MODULE KeySpace -------------------------------
(***************************************************************************)
(* The one tree of rfs as a sorted map from byte strings to entries: how   *)
(* inodes, dirents, extents, snapshots, subvolumes and work items share    *)
(* its key space (fs.rs), and how the versions of a key are found by       *)
(* scanning it (btree.rs).                                                 *)
(*                                                                         *)
(* A key is a sequence of bytes 0 .. MAX_BYTE.  Inode numbers, offsets and *)
(* subvolume ids have one byte, snap_ids SNAP_ID_BYTES, so that a snap_id  *)
(* starts with the largest byte as the ids below u32::MAX do.  `rows' maps *)
(* each sortable key (logical key, then snap_id) to its entry; how nodes   *)
(* hold it is the subject of Btree and LeafNode.                           *)
(***************************************************************************)
EXTENDS Integers, Sequences, FiniteSets, TLC

CONSTANTS
  MAX_BYTE,       \* 0xFF
  Names,          \* names that pass validate_name
  Inos,           \* inode numbers
  Offsets,        \* file offsets
  SnapIds,        \* snap_ids in use
  SubvolIds       \* subvolume ids

SNAP_ID_BYTES == 2
Base == MAX_BYTE + 1
ROOT_SNAP == Base ^ SNAP_ID_BYTES - 1
NO_PARENT_SNAP == 0
ROOT_SUBVOL == 1
ROOT_INO == 1

KIND_INODE == 1
KIND_DIRENT == 2
KIND_EXTENT == 3
KIND_SNAPSHOT == 5
KIND_SUBVOL == 6
KIND_DELETED_INODES == 7

ASSUME KeySpaceConstants ==
  /\ MAX_BYTE \in Nat /\ MAX_BYTE > KIND_DELETED_INODES
  /\ \A n \in Names : /\ n \in Seq(1 .. MAX_BYTE)
                      /\ n # <<>>
  /\ Inos \subseteq 1 .. MAX_BYTE - 1
  /\ Offsets \subseteq 0 .. MAX_BYTE
  /\ ROOT_SNAP \in SnapIds /\ SnapIds \subseteq 1 .. ROOT_SNAP
  /\ SubvolIds \subseteq 1 .. MAX_BYTE
-----------------------------------------------------------------------------
(***************************************************************************)
(* Logical keys and the ranges the file system scans.                      *)
(***************************************************************************)
\* to_be_bytes.
be_bytes(n, width) == [i \in 1 .. width |-> (n \div Base ^ (width - i)) % Base]

inode_key(ino) == <<KIND_INODE, ino>>
dirent_key(parent_ino, name) == <<KIND_DIRENT, parent_ino>> \o name
extent_key(ino, offset) == <<KIND_EXTENT, ino, offset>>
snapshot_key(snap) == <<KIND_SNAPSHOT>> \o be_bytes(snap, SNAP_ID_BYTES)
subvol_key(subvol) == <<KIND_SUBVOL, subvol>>
deleted_inode_key(ino, snap) == <<KIND_DELETED_INODES, ino>> \o be_bytes(snap, SNAP_ID_BYTES)

saturating_add(n) == IF n = MAX_BYTE THEN n ELSE n + 1

dirent_range(parent_ino) ==
  << <<KIND_DIRENT, parent_ino>>, <<KIND_DIRENT, saturating_add(parent_ino)>> >>
extent_range(ino) == << extent_key(ino, 0), extent_key(saturating_add(ino), 0) >>
deleted_inode_range ==
  << deleted_inode_key(0, 0), <<KIND_DELETED_INODES + 1>> >>

dirent_name_from_key(key) == SubSeq(key, 3, Len(key))
extent_offset_from_key(key) == key[3]
deleted_inode_from_key(key) == [ino |-> key[2], snap |-> key[3] * Base + key[4]]
-----------------------------------------------------------------------------
(***************************************************************************)
(* Sortable keys in byte order.                                            *)
(***************************************************************************)
Padded(key, byte) == key \o [i \in 1 .. SNAP_ID_BYTES |-> byte]

sortable_key(logical, snap) == logical \o be_bytes(snap, SNAP_ID_BYTES)
logical_of(key) == SubSeq(key, 1, Len(key) - SNAP_ID_BYTES)
snap_of(key) == key[Len(key) - 1] * Base + key[Len(key)]

\* The order of byte slices: a proper prefix comes first.
Less(a, b) ==
  \/ \E i \in 1 .. Len(a) :
       /\ i <= Len(b)
       /\ SubSeq(a, 1, i - 1) = SubSeq(b, 1, i - 1)
       /\ a[i] < b[i]
  \/ Len(a) < Len(b) /\ SubSeq(b, 1, Len(a)) = a

Logicals ==
  {inode_key(i) : i \in Inos}
  \cup {dirent_key(i, n) : i \in Inos, n \in Names}
  \cup {extent_key(i, o) : i \in Inos, o \in Offsets}
  \cup {snapshot_key(s) : s \in SnapIds}
  \cup {subvol_key(id) : id \in SubvolIds}
  \cup {deleted_inode_key(i, s) : i \in Inos, s \in SnapIds}

SortableKeys == {sortable_key(l, s) : l \in Logicals, s \in SnapIds}

\* A set of keys in byte order.
InOrder(keys) ==
  LET rank == [k \in keys |-> Cardinality({j \in keys : Less(j, k)})]
  IN  [i \in 1 .. Cardinality(keys) |-> CHOOSE k \in keys : rank[k] = i - 1]

\* All sortable keys in order, and those of each range that is ever scanned,
\* tabulated once.
KeyOrder == InOrder(SortableKeys)

\* The bounds range_scan_all makes of a range of logical keys.
Padding(range) == << Padded(range[1], 0), Padded(range[2], 0) >>

\* The bounds find_visible_with_snap makes of one key: all its versions.
version_range(logical) == << Padded(logical, 0), Padded(logical, MAX_BYTE) \o <<0>> >>

Ranges ==
  {version_range(l) : l \in Logicals}
  \cup {Padding(dirent_range(i)) : i \in Inos}
  \cup {Padding(extent_range(i)) : i \in Inos}
  \cup {Padding(<<extent_key(i, a), extent_key(i, b)>>) : i \in Inos, a, b \in Offsets}
  \cup {Padding(deleted_inode_range)}

KeysIn ==
  [r \in Ranges |-> SelectSeq(KeyOrder, LAMBDA k : ~ Less(k, r[1]) /\ Less(k, r[2]))]
-----------------------------------------------------------------------------
(***************************************************************************)
(* Reading.  A row is a key of the tree; a chain is the set of the         *)
(* snap_ids on it.                                                         *)
(***************************************************************************)
range_scan_all(rows, range) == SelectSeq(KeysIn[range], LAMBDA k : k \in DOMAIN rows)

\* Row i of a scan is behind another version of its key, on the chain, in the
\* same run of rows with equal logical keys.
Decided(scan, i, chain) ==
  \E j \in 1 .. i - 1 :
    /\ snap_of(scan[j]) \in chain
    /\ \A m \in j .. i - 1 : logical_of(scan[m]) = logical_of(scan[i])

\* In each run of rows with one logical key the first on the chain decides,
\* and is emitted if live.
Emitted(rows, scan, chain) ==
  LET shown == SelectSeq([i \in 1 .. Len(scan) |-> i],
                         LAMBDA i : /\ snap_of(scan[i]) \in chain
                                    /\ ~ Decided(scan, i, chain)
                                    /\ rows[scan[i]].kind = "Live")
  IN  [n \in 1 .. Len(shown) |-> scan[shown[n]]]

\* Mutant: a tombstone is passed over and the version behind it shows.
range_scan_visible_behind(rows, range, chain) ==
  Emitted(rows, SelectSeq(range_scan_all(rows, Padding(range)),
                          LAMBDA k : rows[k].kind = "Live"), chain)

\* range_scan_visible and range_scan_visible_with_snap.
range_scan_visible(rows, range, chain) ==
  Emitted(rows, range_scan_all(rows, Padding(range)), chain)

NotFound == [found |-> FALSE]

\* The first of the versions on the chain decides.
FirstOf(rows, versions) ==
  IF versions = <<>> \/ rows[versions[1]].kind # "Live" THEN NotFound
  ELSE [found |-> TRUE, value |-> rows[versions[1]].value, snap |-> snap_of(versions[1])]

\* Mutant: the rows of longer names are not skipped.
find_visible_any_row(rows, logical, chain) ==
  FirstOf(rows, SelectSeq(range_scan_all(rows, version_range(logical)),
                          LAMBDA k : snap_of(k) \in chain))

\* The scan also meets longer names that start with this one: they are skipped.
find_visible_with_snap(rows, logical, chain) ==
  FirstOf(rows, SelectSeq(range_scan_all(rows, version_range(logical)),
                          LAMBDA k : logical_of(k) = logical /\ snap_of(k) \in chain))

\* find_at: the version at one snap_id.
find_at(rows, logical, snap) ==
  LET key == sortable_key(logical, snap)
  IN  IF key \in DOMAIN rows /\ rows[key].kind = "Live"
      THEN [found |-> TRUE, value |-> rows[key].value]
      ELSE NotFound
-----------------------------------------------------------------------------
(***************************************************************************)
(* Writing.                                                                *)
(***************************************************************************)
Live(v) == [kind |-> "Live", value |-> v]

insert_at(rows, logical, snap, v) == (sortable_key(logical, snap) :> Live(v)) @@ rows

\* A visible version of our own is flipped to Deleted, an inherited one is
\* hidden by a Whiteout.
delete_at(rows, logical, snap, chain) ==
  LET seen == find_visible_with_snap(rows, logical, chain)
      key  == sortable_key(logical, snap)
  IN  IF ~ seen.found THEN rows
      ELSE IF seen.snap = snap THEN [rows EXCEPT ![key].kind = "Deleted"]
      ELSE (key :> [kind |-> "Whiteout", value |-> <<>>]) @@ rows
=============================================================================
