------------------------------- MODULE FuseFs --------------------------------
(***************************************************************************)
(* The name space of rfs as its FUSE handlers build it (fuse.rs over the   *)
(* inode and dirent operations of fs.rs), on one subvolume.                *)
(*                                                                         *)
(* All handlers run under one mutex, so a handler is one step; it ends in  *)
(* journal_commit, which makes the step durable and runs a slice of the    *)
(* reclaim of unlinked files (module Reclaim has the detail: here a slice  *)
(* finishes any of the work items).  A handler that replies with an error  *)
(* leaves the name space as it is and is not a step.                       *)
(***************************************************************************)
EXTENDS Naturals, FiniteSets, Functions

CONSTANTS
  Names,        \* names that pass validate_name
  MaxIno,       \* bound: inode numbers
  MaxNlink,     \* bound: links of a file
  MaxCrashes    \* bound: crashes

ROOT_INO == 1

ASSUME FuseConstants ==
  /\ MaxIno \in Nat \ {0}
  /\ MaxNlink \in Nat \ {0, 1}
  /\ MaxCrashes \in Nat

Ino == 1 .. MaxIno
Kind == {"dir", "file", "symlink"}
Inode == [kind : Kind, nlink : 1 .. MaxNlink, parent_ino : Ino]
Dirent == [target_ino : Ino, kind : Kind]

VARIABLES
  inodes,     \* inode number -> inode
  dirents,    \* <<parent, name>> -> dirent
  orphans,    \* inode numbers with a deleted-inode work item
  next_ino,
  durable,    \* the four above as the last commit made them durable
  crashes

vars == <<inodes, dirents, orphans, next_ino, durable, crashes>>

Image(ins, ds, os, next) ==
  [inodes |-> ins, dirents |-> ds, orphans |-> os, next_ino |-> next]

Empty == [x \in {} |-> x]

TypeOK ==
  /\ DOMAIN inodes \subseteq Ino
  /\ \A i \in DOMAIN inodes : inodes[i] \in Inode
  /\ DOMAIN dirents \subseteq Ino \X Names
  /\ \A d \in DOMAIN dirents : dirents[d] \in Dirent
  /\ orphans \subseteq Ino
  /\ next_ino \in 1 .. MaxIno + 1
  /\ crashes \in 0 .. MaxCrashes

\* create_image: Fs::create syncs an empty tree, bootstrap_root then puts the
\* root inode and does not commit.
Init ==
  /\ inodes = [i \in {ROOT_INO} |-> [kind |-> "dir", nlink |-> 2, parent_ino |-> ROOT_INO]]
  /\ dirents = Empty
  /\ orphans = {}
  /\ next_ino = ROOT_INO + 1
  /\ durable = Image(Empty, Empty, {}, ROOT_INO)
  /\ crashes = 0

With(f, x, v) == [y \in DOMAIN f \cup {x} |-> IF y = x THEN v ELSE f[y]]
Without(f, x) == Restrict(f, DOMAIN f \ {x})

list_dirents(ino) == {d \in DOMAIN dirents : d[1] = ino}
Links(ino) == {d \in DOMAIN dirents : dirents[d].target_ino = ino}

\* journal_commit, given the work items at its start.
journal_commit(items) ==
  /\ \E done \in SUBSET items : orphans' = items \ done
  /\ durable' = Image(inodes', dirents', orphans', next_ino')
-----------------------------------------------------------------------------
(***************************************************************************)
(* What the kernel checks before it calls a handler: the parent is a       *)
(* directory, unlink is not called for a directory, and a directory is not *)
(* moved below itself.                                                     *)
(***************************************************************************)
VfsDirectory(ino) == ino \in DOMAIN inodes /\ inodes[ino].kind = "dir"

\* The directories at and above ino.
Above(ino) ==
  LET up[S \in SUBSET Ino] ==
        LET T == S \cup {d[1] : d \in UNION {Links(i) : i \in S}}
        IN  IF T = S THEN S ELSE up[T]
  IN  up[{ino}]

VfsMayMove(ino, newparent) == ino \notin Above(newparent)
-----------------------------------------------------------------------------
\* create, mkdir and symlink.
Make(parent, name, kind) ==
  /\ VfsDirectory(parent)
  /\ <<parent, name>> \notin DOMAIN dirents
  /\ next_ino <= MaxIno
  /\ inodes' = With(inodes, next_ino,
                    [kind |-> kind, nlink |-> IF kind = "dir" THEN 2 ELSE 1,
                     parent_ino |-> parent])
  /\ dirents' = With(dirents, <<parent, name>>, [target_ino |-> next_ino, kind |-> kind])
  /\ next_ino' = next_ino + 1
  /\ UNCHANGED crashes
  /\ journal_commit(orphans)

Create(parent, name) == Make(parent, name, "file")
Mkdir(parent, name) == Make(parent, name, "dir")
Symlink(parent, name) == Make(parent, name, "symlink")

\* Mutant: the new link is not counted.
LinkUncounted(ino, newparent, newname) ==
  /\ VfsDirectory(newparent)
  /\ ino \in DOMAIN inodes
  /\ inodes[ino].kind # "dir"
  /\ <<newparent, newname>> \notin DOMAIN dirents
  /\ inodes[ino].nlink < MaxNlink
  /\ UNCHANGED inodes
  /\ dirents' = With(dirents, <<newparent, newname>>,
                     [target_ino |-> ino, kind |-> inodes[ino].kind])
  /\ UNCHANGED <<next_ino, crashes>>
  /\ journal_commit(orphans)

\* link: the inode may be gone already, then the reply is ENOENT.
Link(ino, newparent, newname) ==
  /\ VfsDirectory(newparent)
  /\ ino \in DOMAIN inodes
  /\ inodes[ino].kind # "dir"
  /\ <<newparent, newname>> \notin DOMAIN dirents
  /\ inodes[ino].nlink < MaxNlink
  /\ inodes' = [inodes EXCEPT ![ino].nlink = @ + 1]
  /\ dirents' = With(dirents, <<newparent, newname>>,
                     [target_ino |-> ino, kind |-> inodes[ino].kind])
  /\ UNCHANGED <<next_ino, crashes>>
  /\ journal_commit(orphans)

\* Mutant: every unlink leaves a work item.
UnlinkAlwaysOrphan(parent, name) ==
  /\ <<parent, name>> \in DOMAIN dirents
  /\ UNCHANGED <<next_ino, crashes>>
  /\ dirents' = Without(dirents, <<parent, name>>)
  /\ LET ino == dirents[<<parent, name>>].target_ino
     IN  /\ ino \in DOMAIN inodes
         /\ inodes[ino].kind # "dir"
         /\ \/ /\ inodes[ino].nlink <= 1
               /\ inodes' = Without(inodes, ino)
               /\ journal_commit(orphans \cup {ino})
            \/ /\ inodes[ino].nlink > 1
               /\ inodes' = [inodes EXCEPT ![ino].nlink = @ - 1]
               /\ journal_commit(orphans \cup {ino})

\* unlink: the last link takes the inode with it and leaves a work item.
Unlink(parent, name) ==
  /\ <<parent, name>> \in DOMAIN dirents
  /\ UNCHANGED <<next_ino, crashes>>
  /\ dirents' = Without(dirents, <<parent, name>>)
  /\ LET ino == dirents[<<parent, name>>].target_ino
     IN  /\ ino \in DOMAIN inodes
         /\ inodes[ino].kind # "dir"
         /\ \/ /\ inodes[ino].nlink <= 1
               /\ inodes' = Without(inodes, ino)
               /\ journal_commit(orphans \cup {ino})
            \/ /\ inodes[ino].nlink > 1
               /\ inodes' = [inodes EXCEPT ![ino].nlink = @ - 1]
               /\ journal_commit(orphans)

\* Mutant: a directory need not be empty.
RmdirNonEmpty(parent, name) ==
  /\ <<parent, name>> \in DOMAIN dirents
  /\ dirents[<<parent, name>>].kind = "dir"
  /\ LET ino == dirents[<<parent, name>>].target_ino
     IN  /\ dirents' = Without(dirents, <<parent, name>>)
         /\ inodes' = Without(inodes, ino)
  /\ UNCHANGED <<next_ino, crashes>>
  /\ journal_commit(orphans)

Rmdir(parent, name) ==
  /\ <<parent, name>> \in DOMAIN dirents
  /\ dirents[<<parent, name>>].kind = "dir"
  /\ LET ino == dirents[<<parent, name>>].target_ino
     IN  /\ list_dirents(ino) = {}
         /\ dirents' = Without(dirents, <<parent, name>>)
         /\ inodes' = Without(inodes, ino)
  /\ UNCHANGED <<next_ino, crashes>>
  /\ journal_commit(orphans)

\* Mutant: the new name may be taken already.
RenameReplacing(parent, name, newparent, newname) ==
  /\ <<parent, name>> \in DOMAIN dirents
  /\ VfsDirectory(newparent)
  /\ VfsMayMove(dirents[<<parent, name>>].target_ino, newparent)
  /\ dirents' = With(Without(dirents, <<parent, name>>),
                     <<newparent, newname>>, dirents[<<parent, name>>])
  /\ UNCHANGED <<inodes, next_ino, crashes>>
  /\ journal_commit(orphans)

\* rename: refuses an existing target, moves the dirent, leaves the inode alone.
Rename(parent, name, newparent, newname) ==
  /\ <<parent, name>> \in DOMAIN dirents
  /\ VfsDirectory(newparent)
  /\ VfsMayMove(dirents[<<parent, name>>].target_ino, newparent)
  /\ <<newparent, newname>> \notin DOMAIN dirents
  /\ dirents' = With(Without(dirents, <<parent, name>>),
                     <<newparent, newname>>, dirents[<<parent, name>>])
  /\ UNCHANGED <<inodes, next_ino, crashes>>
  /\ journal_commit(orphans)

\* write, setattr and fsync as far as the name space goes: the inode is written
\* back as it was read, and the commit runs its slice of reclaim.
Touch ==
  /\ ROOT_INO \in DOMAIN inodes
  /\ UNCHANGED <<inodes, dirents, next_ino, crashes>>
  /\ journal_commit(orphans)

\* The process dies; open_image mounts what the last commit left.  An image that
\* dies before its first commit has no root inode and cannot be used.
Crash ==
  /\ crashes < MaxCrashes
  /\ ROOT_INO \in DOMAIN durable.inodes
  /\ inodes' = durable.inodes
  /\ dirents' = durable.dirents
  /\ orphans' = durable.orphans
  /\ next_ino' = durable.next_ino
  /\ crashes' = crashes + 1
  /\ UNCHANGED durable

Next ==
  \/ \E parent \in Ino, name \in Names :
       \/ Create(parent, name)
       \/ Mkdir(parent, name)
       \/ Symlink(parent, name)
       \/ Unlink(parent, name)
       \/ Rmdir(parent, name)
  \/ \E ino \in Ino, parent \in Ino, name \in Names : Link(ino, parent, name)
  \/ \E parent, newparent \in Ino, name, newname \in Names :
       Rename(parent, name, newparent, newname)
  \/ Touch
  \/ Crash

Spec == Init /\ [][Next]_vars
-----------------------------------------------------------------------------
\* lookup of a name and of "..": an inode number or an error.
lookup(parent, name) ==
  IF <<parent, name>> \notin DOMAIN dirents THEN "ENOENT"
  ELSE IF dirents[<<parent, name>>].target_ino \in DOMAIN inodes THEN "found" ELSE "EIO"

(***************************************************************************)
(* No lookup fails with EIO: through links, renames, removals and crashes  *)
(* every dirent has its inode, of the kind it says (lookup, readdir), and  *)
(* lies in a directory.                                                    *)
(***************************************************************************)
NoDanglingDirent ==
  \A d \in DOMAIN dirents :
    /\ lookup(d[1], d[2]) = "found"
    /\ inodes[dirents[d].target_ino].kind = dirents[d].kind
    /\ VfsDirectory(d[1])

(***************************************************************************)
(* nlink counts the dirents of a file (link, unlink): one too few and      *)
(* unlink removes an inode that still has a name.  A directory other than  *)
(* the root has exactly one.                                               *)
(***************************************************************************)
NlinkCounts ==
  \A ino \in DOMAIN inodes \ {ROOT_INO} :
    Cardinality(Links(ino)) = IF inodes[ino].kind = "dir" THEN 1 ELSE inodes[ino].nlink

(***************************************************************************)
(* Reclaim deletes the extents of the inodes on the worklist (unlink):     *)
(* none of them has an inode or a name, and no inode number is handed out  *)
(* a second time, before or after a crash.                                 *)
(***************************************************************************)
ReclaimedFilesAreGone ==
  /\ \A ino \in orphans : ino \notin DOMAIN inodes /\ Links(ino) = {}
  /\ \A ino \in DOMAIN inodes \cup orphans : ino < next_ino

(***************************************************************************)
(* Every inode hangs below the root (rename, rmdir, unlink): no inode that *)
(* has lost its last name, no subtree cut off by the removal of the        *)
(* directory above it.                                                     *)
(***************************************************************************)
AllReachable == \A ino \in DOMAIN inodes : ROOT_INO \in Above(ino)
=============================================================================
