-------------------------------- MODULE Files ---------------------------------
(***************************************************************************)
(* Files and directories of rfs as its handlers keep them in the one tree  *)
(* of KeySpace (fs.rs, fuse.rs): content in extents of one block each,     *)
(* names in dirents, and both versioned by the snapshots taken in between. *)
(* The metadata of snapshots, subvolumes and work items are rows as well.  *)
(*                                                                         *)
(* An extent's value is the content of its block up to its length:         *)
(* put_extent writes a fresh block each time, and that nobody else writes  *)
(* it while it is named is the subject of Checkpoint and Reclaim.  `vols'  *)
(* is the reference: a byte sequence per file and a map of names per       *)
(* subvolume.                                                              *)
(***************************************************************************)
EXTENDS KeySpace, SequencesExt, FiniteSetsExt

CONSTANTS
  BLOCK_SIZE,
  MaxSize,      \* bound: file size
  MaxReply,     \* bound: entries in one readdir reply
  SeedDir,      \* names in the root of the image at the start: a directory
  SeedFile,     \* and a file
  Budgets       \* bounds: operations on names and on content, and snapshots

ASSUME FilesConstants ==
  /\ BLOCK_SIZE \in Nat \ {0}
  /\ 0 .. MaxSize \subseteq Offsets
  /\ MaxReply \in Nat \ {0}
  /\ {SeedDir, SeedFile} \subseteq Names
  /\ Budgets \subseteq [names : Nat, content : Nat, snapshots : Nat]

VARIABLES
  rows,             \* the tree
  current_subvol,
  next_ino,
  next_snap_id,
  next_subvol_id,
  listing,          \* a directory being listed by a client
  vols,             \* history: subvolume -> what it should show
  left              \* operations left of the budget

ids == <<current_subvol, next_ino, next_snap_id, next_subvol_id>>
vars == <<rows, ids, listing, vols, left>>

NoListing == [open |-> FALSE]
-----------------------------------------------------------------------------
(***************************************************************************)
(* Snapshots and subvolumes.                                               *)
(***************************************************************************)
get_snapshot(r, snap) == find_at(r, snapshot_key(snap), ROOT_SNAP)
get_subvol(r, id) == find_at(r, subvol_key(id), ROOT_SNAP)

ancestor_chain(r, snap) ==
  LET up[s \in SnapIds] ==
        LET meta == get_snapshot(r, s)
        IN  {s} \cup IF meta.found /\ meta.value # NO_PARENT_SNAP /\ meta.value > s
                     THEN up[meta.value] ELSE {}
  IN  up[snap]

SnapOf(r, id) == get_subvol(r, id).value
Chain(r, id) == ancestor_chain(r, SnapOf(r, id))
current_snap == SnapOf(rows, current_subvol)
current_chain == Chain(rows, current_subvol)
-----------------------------------------------------------------------------
(***************************************************************************)
(* Inodes, dirents and extents, read along a chain.                        *)
(***************************************************************************)
Inode(kind, size) == [kind |-> kind, size |-> size]

get_inode(r, ino, chain) == find_visible_with_snap(r, inode_key(ino), chain)
lookup_dirent(r, parent, name, chain) ==
  find_visible_with_snap(r, dirent_key(parent, name), chain)
get_extent(r, ino, offset, chain) ==
  find_visible_with_snap(r, extent_key(ino, offset), chain)

\* The names of a directory, as the scan returns them.
NamesOf(found) == [i \in DOMAIN found |-> dirent_name_from_key(logical_of(found[i]))]

list_dirents(r, parent, chain) ==
  NamesOf(range_scan_visible(r, dirent_range(parent), chain))

ExtentsOf(r, found) ==
  [i \in DOMAIN found |-> [offset |-> extent_offset_from_key(found[i]),
                           data   |-> r[found[i]].value]]

collect_extents(r, range, chain) == ExtentsOf(r, range_scan_visible(r, range, chain))

list_extents(r, ino, chain) == collect_extents(r, extent_range(ino), chain)

extents_in_range(r, ino, start_off, end_off, chain) ==
  IF end_off <= start_off THEN <<>>
  ELSE collect_extents(r, <<extent_key(ino, start_off), extent_key(ino, end_off)>>, chain)

BlockOf(offset) == offset - (offset % BLOCK_SIZE)

(***************************************************************************)
(* read_at: clipped to the size, zero where no extent has the byte.  The   *)
(* extents found are at distinct block offsets, so the order in which they *)
(* are copied does not matter.                                             *)
(***************************************************************************)
read_at(r, ino, offset, size, chain) ==
  LET inode == get_inode(r, ino, chain)
      end   == Min({offset + size, inode.value.size})
      exts  == ToSet(extents_in_range(r, ino, BlockOf(offset), end, chain))
      At(pos) == {e \in exts : e.offset <= pos /\ pos < e.offset + Len(e.data)}
  IN  IF ~ inode.found \/ offset >= inode.value.size THEN <<>>
      ELSE [i \in 1 .. end - offset |->
              LET pos == offset + i - 1
              IN  IF At(pos) = {} THEN 0
                  ELSE LET e == CHOOSE x \in At(pos) : TRUE IN e.data[pos - e.offset + 1]]
-----------------------------------------------------------------------------
(***************************************************************************)
(* Writing content.  A block's new content is the old one up to its        *)
(* length, zeros up to where the write starts, and the data; the blocks of *)
(* one call are distinct, so they are put at once.                         *)
(***************************************************************************)
Blocks(offset, len) == {BlockOf(pos) : pos \in offset .. offset + len - 1}

\* new_len of write_at: a write never shortens a block.
BlockLen(old, block_off, end) ==
  Max({Len(old), Min({end - block_off, BLOCK_SIZE})})

write_at(r, ino, offset, data, snap, chain) ==
  LET end == offset + Len(data)
      Old(b) == LET ext == get_extent(r, ino, b, chain)
                IN  IF ext.found THEN ext.value ELSE <<>>
      New(b) == [i \in 1 .. BlockLen(Old(b), b, end) |->
                   LET pos == b + i - 1
                   IN  IF offset <= pos /\ pos < end THEN data[pos - offset + 1]
                       ELSE IF i <= Len(Old(b)) THEN Old(b)[i] ELSE 0]
      touched == {sortable_key(extent_key(ino, b), snap) : b \in Blocks(offset, Len(data))}
  IN  [k \in touched |-> Live(New(extent_offset_from_key(k)))] @@ r

\* Mutant: the block at the boundary keeps its tail.
tail_kept(ext, new_size) == FALSE

\* The extent at the boundary is put again without its tail.
tail_cut(ext, new_size) ==
  /\ ext.offset = BlockOf(new_size)
  /\ new_size % BLOCK_SIZE > 0
  /\ Len(ext.data) > new_size - ext.offset

truncate_extents(r, ino, new_size, snap, chain) ==
  LET exts == list_extents(r, ino, chain)
      Step(acc, ext) ==
        IF ext.offset >= new_size
        THEN delete_at(acc, extent_key(ino, ext.offset), snap, chain)
        ELSE IF tail_cut(ext, new_size)
        THEN insert_at(acc, extent_key(ino, ext.offset), snap,
                       SubSeq(ext.data, 1, new_size % BLOCK_SIZE))
        ELSE acc
  IN  FoldLeft(Step, r, exts)
-----------------------------------------------------------------------------
(***************************************************************************)
(* journal_commit runs reclaim_deleted_inodes first.  Here its budget ends *)
(* after any number of work items; Reclaim has it end within one.          *)
(***************************************************************************)
ItemsOf(found) == [i \in DOMAIN found |-> deleted_inode_from_key(found[i])]

list_deleted_inodes(r) ==
  ItemsOf(range_scan_visible(r, deleted_inode_range, {ROOT_SNAP}))

reclaim_item(r, item) ==
  LET chain == ancestor_chain(r, item.snap)
      Drop(acc, ext) == delete_at(acc, extent_key(item.ino, ext.offset), item.snap, chain)
  IN  delete_at(FoldLeft(Drop, r, list_extents(r, item.ino, chain)),
                deleted_inode_key(item.ino, item.snap), ROOT_SNAP, {ROOT_SNAP})

reclaim_deleted_inodes(r, n) ==
  FoldLeft(reclaim_item, r, SubSeq(list_deleted_inodes(r), 1, n))

\* The handler's edits r, then the commit.
journal_commit(r) ==
  \E n \in 0 .. Len(list_deleted_inodes(r)) : rows' = reclaim_deleted_inodes(r, n)
-----------------------------------------------------------------------------
\* What a subvolume should show, and how it changes.
Vol == vols[current_subvol]
Show(file, dir) == vols' = [vols EXCEPT ![current_subvol] = [file |-> file, dir |-> dir]]
Without(f, x) == [y \in DOMAIN f \ {x} |-> f[y]]

\* Names <<parent, name>> came and went: what that is to a listing in progress.
Changed(added, removed) ==
  listing' =
    IF ~ listing.open THEN listing
    ELSE LET Here(pairs) == {d[2] : d \in {p \in pairs : p[1] = listing.parent}}
         IN  [listing EXCEPT !.kept = @ \ Here(removed),
                             !.insertions = @ + Cardinality(Here(added)),
                             !.removals = @ + Cardinality(Here(removed))]

Spend(what) == left[what] > 0 /\ left' = [left EXCEPT ![what] = @ - 1]

\* Mounted on an image with the root snapshot and subvolume, and an empty
\* directory (inode 2) and an empty file (inode 3) in the root directory.
Seed ==
  (snapshot_key(ROOT_SNAP) :> NO_PARENT_SNAP) @@ (subvol_key(ROOT_SUBVOL) :> ROOT_SNAP)
  @@ (inode_key(ROOT_INO) :> Inode("dir", 0))
  @@ (inode_key(2) :> Inode("dir", 0)) @@ (dirent_key(ROOT_INO, SeedDir) :> 2)
  @@ (inode_key(3) :> Inode("file", 0)) @@ (dirent_key(ROOT_INO, SeedFile) :> 3)

Init ==
  /\ rows = [k \in {sortable_key(l, ROOT_SNAP) : l \in DOMAIN Seed} |->
               Live(Seed[logical_of(k)])]
  /\ current_subvol = ROOT_SUBVOL
  /\ next_ino = 4
  /\ next_snap_id = ROOT_SNAP - 1
  /\ next_subvol_id = ROOT_SUBVOL + 1
  /\ listing = NoListing
  /\ vols = [id \in {ROOT_SUBVOL} |->
               [file |-> [ino \in 1 .. 3 |-> <<>>],
                dir  |-> <<ROOT_INO, SeedDir>> :> 2 @@ <<ROOT_INO, SeedFile>> :> 3]]
  /\ left \in Budgets

\* The kernel calls name operations on directories that are there.
VfsDirectory(ino) ==
  LET inode == get_inode(rows, ino, current_chain)
  IN  inode.found /\ inode.value.kind = "dir"

Absent(parent, name) == ~ lookup_dirent(rows, parent, name, current_chain).found

(***************************************************************************)
(* create, mkdir and symlink: a new inode, for a link the target in its    *)
(* first block, and the dirent.                                            *)
(***************************************************************************)
Make(parent, name, kind, target) ==
  LET with_inode == insert_at(rows, inode_key(next_ino), current_snap,
                              Inode(kind, Len(target)))
      with_target == IF kind = "symlink"
                     THEN insert_at(with_inode, extent_key(next_ino, 0), current_snap, target)
                     ELSE with_inode
  IN  /\ Spend("names")
      /\ VfsDirectory(parent)
      /\ Absent(parent, name)
      /\ next_ino \in Inos
      /\ next_ino' = next_ino + 1
      /\ journal_commit(insert_at(with_target, dirent_key(parent, name), current_snap, next_ino))
      /\ Show(next_ino :> target @@ Vol.file, <<parent, name>> :> next_ino @@ Vol.dir)
      /\ Changed({<<parent, name>>}, {})
      /\ UNCHANGED <<current_subvol, next_snap_id, next_subvol_id>>

Create(parent, name) == Make(parent, name, "file", <<>>)
Mkdir(parent, name) == Make(parent, name, "dir", <<>>)
Symlink(parent, name) == Make(parent, name, "symlink", [i \in 1 .. BLOCK_SIZE |-> i])

\* unlink of a file's only link: dirent and inode go, a work item stays.
Unlink(parent, name) ==
  LET dirent == lookup_dirent(rows, parent, name, current_chain)
      inode  == get_inode(rows, dirent.value, current_chain)
  IN  /\ Spend("names")
      /\ dirent.found /\ inode.found
      /\ inode.value.kind # "dir"
      /\ journal_commit(
           insert_at(delete_at(delete_at(rows, dirent_key(parent, name),
                                         current_snap, current_chain),
                               inode_key(dirent.value), current_snap, current_chain),
                     deleted_inode_key(dirent.value, current_snap), ROOT_SNAP, 0))
      /\ Show(Without(Vol.file, dirent.value), Without(Vol.dir, <<parent, name>>))
      /\ Changed({}, {<<parent, name>>})
      /\ UNCHANGED ids

Rmdir(parent, name) ==
  LET dirent == lookup_dirent(rows, parent, name, current_chain)
      inode  == get_inode(rows, dirent.value, current_chain)
  IN  /\ Spend("names")
      /\ dirent.found
      /\ inode.value.kind = "dir"
      /\ list_dirents(rows, dirent.value, current_chain) = <<>>
      /\ journal_commit(
           delete_at(delete_at(rows, dirent_key(parent, name), current_snap, current_chain),
                     inode_key(dirent.value), current_snap, current_chain))
      /\ Show(Without(Vol.file, dirent.value), Without(Vol.dir, <<parent, name>>))
      /\ Changed({}, {<<parent, name>>})
      /\ UNCHANGED ids

\* rename, to another directory or within one; of a file, or of a directory to
\* the root (FuseFs has all moves).
Rename(parent, name, newparent, newname) ==
  LET dirent == lookup_dirent(rows, parent, name, current_chain)
      inode  == get_inode(rows, dirent.value, current_chain)
  IN  /\ Spend("names")
      /\ dirent.found
      /\ inode.value.kind # "dir" \/ newparent = ROOT_INO
      /\ VfsDirectory(newparent)
      /\ Absent(newparent, newname)
      /\ journal_commit(
           delete_at(insert_at(rows, dirent_key(newparent, newname),
                               current_snap, dirent.value),
                     dirent_key(parent, name), current_snap, current_chain))
      /\ Show(Vol.file, <<newparent, newname>> :> dirent.value
                        @@ Without(Vol.dir, <<parent, name>>))
      /\ Changed({<<newparent, newname>>}, {<<parent, name>>})
      /\ UNCHANGED ids
-----------------------------------------------------------------------------
\* The bytes of one write, distinct from those of every other.
Data(len) == [i \in 1 .. len |-> 10 * left.content + i]

Overlaid(file, offset, data) ==
  [i \in 1 .. Max({Len(file), offset + Len(data)}) |->
     IF offset < i /\ i <= offset + Len(data) THEN data[i - offset]
     ELSE IF i <= Len(file) THEN file[i] ELSE 0]

(***************************************************************************)
(* write: the extents first, then the size.  The file may have been        *)
(* unlinked by then: the reply is ENOENT, with the extents already put.    *)
(***************************************************************************)
Write(ino, offset, len) ==
  LET written == write_at(rows, ino, offset, Data(len), current_snap, current_chain)
      inode   == get_inode(rows, ino, current_chain)
  IN  /\ Spend("content")
      /\ \/ /\ ~ inode.found
            /\ rows' = written
            /\ UNCHANGED vols
         \/ /\ inode.found
            /\ inode.value.kind = "file"
            /\ journal_commit(insert_at(written, inode_key(ino), current_snap,
                 Inode("file", Max({inode.value.size, offset + len}))))
            /\ Show([Vol.file EXCEPT ![ino] = Overlaid(@, offset, Data(len))], Vol.dir)
      /\ UNCHANGED <<ids, listing>>

\* setattr with a size.
SetSize(ino, new_size) ==
  LET inode == get_inode(rows, ino, current_chain)
      cut   == IF new_size < inode.value.size
               THEN truncate_extents(rows, ino, new_size, current_snap, current_chain)
               ELSE rows
  IN  /\ Spend("content")
      /\ inode.found
      /\ inode.value.kind = "file"
      /\ journal_commit(insert_at(cut, inode_key(ino), current_snap, Inode("file", new_size)))
      /\ Show([Vol.file EXCEPT ![ino] = [i \in 1 .. new_size |->
                                            IF i <= Len(@) THEN @[i] ELSE 0]], Vol.dir)
      /\ UNCHANGED <<ids, listing>>
-----------------------------------------------------------------------------
\* snapshot_subvol of the current subvolume.
SnapshotSubvol ==
  LET s_w == next_snap_id
      s_ro == next_snap_id - 1
      Meta(key, v) == sortable_key(key, ROOT_SNAP) :> Live(v)
  IN  /\ Spend("snapshots")
      /\ {s_w, s_ro} \subseteq SnapIds
      /\ next_subvol_id \in SubvolIds
      /\ rows' = Meta(snapshot_key(s_w), current_snap)
                 @@ Meta(snapshot_key(s_ro), current_snap)
                 @@ Meta(subvol_key(current_subvol), s_w)
                 @@ Meta(subvol_key(next_subvol_id), s_ro)
                 @@ rows
      /\ next_snap_id' = next_snap_id - 2
      /\ next_subvol_id' = next_subvol_id + 1
      /\ vols' = next_subvol_id :> Vol @@ vols
      /\ UNCHANGED <<current_subvol, next_ino, listing>>

\* switch_subvol, while operations are left; no handler calls it, so no listing
\* is in progress.
SwitchSubvol(id) ==
  /\ left.names + left.content > 0
  /\ id # current_subvol
  /\ get_subvol(rows, id).found
  /\ ~ listing.open
  /\ current_subvol' = id
  /\ UNCHANGED <<rows, next_ino, next_snap_id, next_subvol_id, listing, vols, left>>
-----------------------------------------------------------------------------
(***************************************************************************)
(* A client lists a directory: it calls readdir with the offset of the     *)
(* last entry it got until the reply is empty.                             *)
(***************************************************************************)
Dot == <<0>>
DotDot == <<0, 0>>

Opendir(parent) ==
  /\ Spend("names")
  /\ ~ listing.open
  /\ VfsDirectory(parent)
  /\ listing' = [open |-> TRUE, done |-> FALSE, parent |-> parent, offset |-> 0, got |-> <<>>,
                 kept |-> {d[2] : d \in {p \in DOMAIN Vol.dir : p[1] = parent}},
                 insertions |-> 0, removals |-> 0]
  /\ UNCHANGED <<rows, ids, vols>>

\* Mutant: the offset of an entry is that of the one after the next.
NextOffsetBeyond(offset, reply) == offset + Len(reply) + 1

\* Each entry carries its index in the whole listing, plus one.
NextOffset(offset, reply) == offset + Len(reply)

\* One call; the reply holds up to n entries.  The directory may be gone.
Readdir(n) ==
  /\ listing.open /\ ~ listing.done
  /\ LET entries == <<Dot, DotDot>> \o list_dirents(rows, listing.parent, current_chain)
         reply == SubSeq(entries, listing.offset + 1, Min({listing.offset + n, Len(entries)}))
     IN  \/ /\ ~ VfsDirectory(listing.parent)
            /\ listing' = NoListing
         \/ /\ VfsDirectory(listing.parent)
            /\ listing' = [listing EXCEPT !.got = @ \o reply,
                                          !.offset = NextOffset(@, reply),
                                          !.done = reply = <<>>]
  /\ UNCHANGED <<rows, ids, vols, left>>

Releasedir ==
  /\ listing.open /\ listing.done
  /\ listing' = NoListing
  /\ UNCHANGED <<rows, ids, vols, left>>

Next ==
  \/ \E parent \in Inos, name \in Names :
       \/ Create(parent, name)
       \/ Mkdir(parent, name)
       \/ Symlink(parent, name)
       \/ Unlink(parent, name)
       \/ Rmdir(parent, name)
       \/ \E newparent \in Inos, newname \in Names :
            Rename(parent, name, newparent, newname)
  \/ \E ino \in ROOT_INO + 1 .. next_ino - 1 :
       \/ \E offset \in 0 .. MaxSize - 1 :
            \E len \in 1 .. MaxSize - offset : Write(ino, offset, len)
       \/ \E new_size \in 0 .. MaxSize : SetSize(ino, new_size)
  \/ SnapshotSubvol
  \/ \E id \in SubvolIds : SwitchSubvol(id)
  \/ \E parent \in Inos : Opendir(parent)
  \/ \E n \in 1 .. MaxReply : Readdir(n)
  \/ Releasedir

Spec == Init /\ [][Next]_vars
-----------------------------------------------------------------------------
(***************************************************************************)
(* Reads return what was written (read_at, write_at, truncate_extents):    *)
(* for every subvolume, file, offset and length, the bytes of the file up  *)
(* to its size, zero where nothing was written or where the file was cut   *)
(* and grew again, whatever snapshots were taken in between.               *)
(***************************************************************************)
ReadsBack ==
  \A id \in DOMAIN vols :
    LET chain == Chain(rows, id)
    IN  \A ino \in 2 .. next_ino - 1 :
          LET file == IF ino \in DOMAIN vols[id].file THEN vols[id].file[ino] ELSE <<>>
          IN  \A offset \in 0 .. MaxSize : \A size \in 1 .. MaxSize + 1 - offset :
                read_at(rows, ino, offset, size, chain)
                  = SubSeq(file, offset + 1, Min({offset + size, Len(file)}))

(***************************************************************************)
(* find_visible_with_snap finds the right version among those of longer    *)
(* names that sort between them: a lookup gives the file last linked under *)
(* the name in that subvolume, or nothing.                                 *)
(***************************************************************************)
LookupRight ==
  \A id \in DOMAIN vols :
    LET chain == Chain(rows, id)
        dir   == vols[id].dir
    IN  \A parent \in 1 .. next_ino - 1, name \in Names :
          LET dirent == lookup_dirent(rows, parent, name, chain)
          IN  IF <<parent, name>> \in DOMAIN dir
              THEN dirent.found /\ dirent.value = dir[<<parent, name>>]
              ELSE ~ dirent.found

\* No name of the directory continues another with the largest byte, as a
\* snap_id would: the versions of each name are contiguous in a scan.
Separated(parent) ==
  LET stored == {name \in Names : \E s \in SnapIds :
                   sortable_key(dirent_key(parent, name), s) \in DOMAIN rows}
  IN  \A a, b \in stored :
        ~ (Len(a) < Len(b) /\ SubSeq(b, 1, Len(a)) = a /\ b[Len(a) + 1] = MAX_BYTE)

(***************************************************************************)
(* list_dirents returns each visible name of the directory once and none   *)
(* of another directory, wherever the names are separated.                 *)
(***************************************************************************)
ListingRight ==
  \A id \in DOMAIN vols :
    LET chain == Chain(rows, id)
    IN  \A parent \in 1 .. next_ino - 1 :
          LET listed == list_dirents(rows, parent, chain)
              there  == {d[2] : d \in {p \in DOMAIN vols[id].dir : p[1] = parent}}
          IN  Separated(parent) => ToSet(listed) = there /\ Len(listed) = Cardinality(there)

(***************************************************************************)
(* readdir continues at an index: every removal during a listing costs at  *)
(* most one of the names that were there all along, and every insertion    *)
(* repeats at most one.  Without changes the listing is exact.             *)
(***************************************************************************)
ReaddirShifts ==
  listing.open /\ listing.done /\ Separated(listing.parent) =>
    /\ Cardinality(listing.kept \ ToSet(listing.got)) <= listing.removals
    /\ Len(listing.got) - Cardinality(ToSet(listing.got)) <= listing.insertions
=============================================================================
