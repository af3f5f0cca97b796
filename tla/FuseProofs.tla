----------------------------- MODULE FuseProofs -----------------------------
(***************************************************************************)
(* Proofs about the name space: types, dirents, link counts, work items    *)
(* and paths to the root, for every set of names and every number of       *)
(* inodes, links and crashes.                                              *)
(***************************************************************************)
EXTENDS FuseFs, Induction, FiniteSetTheorems

LinksIn(ds, ino) == {d \in DOMAIN ds : ds[d].target_ino = ino}

IsDir(ins, ino) == ino \in DOMAIN ins /\ ins[ino].kind = "dir"

Typed(ins, ds, os, next) ==
  /\ DOMAIN ins \subseteq Ino
  /\ \A i \in DOMAIN ins : ins[i] \in Inode
  /\ DOMAIN ds \subseteq Ino \X Names
  /\ \A d \in DOMAIN ds : ds[d] \in Dirent
  /\ os \subseteq Ino
  /\ next \in 1 .. MaxIno + 1

\* Every dirent leads from a directory to an inode of its kind, never the root.
Resolves(ins, ds) ==
  \A d \in DOMAIN ds :
    /\ IsDir(ins, d[1])
    /\ ds[d].target_ino \in DOMAIN ins \ {ROOT_INO}
    /\ ins[ds[d].target_ino].kind = ds[d].kind

Expected(inode) == IF inode.kind = "dir" THEN 1 ELSE inode.nlink

Counted(ins, ds) ==
  \A ino \in DOMAIN ins \ {ROOT_INO} :
    Cardinality(LinksIn(ds, ino)) = Expected(ins[ino])

Fresh(ins, os, next) ==
  /\ \A ino \in os : ino \notin DOMAIN ins
  /\ \A ino \in DOMAIN ins \cup os : ino < next

(***************************************************************************)
(* The inductive invariant: what holds of an image, said of the tree in    *)
(* memory and of the one a crash brings back.                              *)
(***************************************************************************)
Sound(ins, ds, os, next) ==
  /\ Typed(ins, ds, os, next)
  /\ IsFiniteSet(DOMAIN ds)
  /\ IsDir(ins, ROOT_INO)
  /\ Resolves(ins, ds)
  /\ Counted(ins, ds)
  /\ Fresh(ins, os, next)

DurableSound ==
  ROOT_INO \in DOMAIN durable.inodes =>
    Sound(durable.inodes, durable.dirents, durable.orphans, durable.next_ino)

FuseInv ==
  /\ Sound(inodes, dirents, orphans, next_ino)
  /\ DurableSound
  /\ crashes \in 0 .. MaxCrashes
-----------------------------------------------------------------------------
(***************************************************************************)
(* The links of an inode when a dirent is added or removed (link, unlink). *)
(***************************************************************************)
LEMMA LinksWith ==
  ASSUME NEW ds, NEW d, NEW e, NEW ino, d \notin DOMAIN ds, IsFiniteSet(DOMAIN ds)
  PROVE  LET new == With(ds, d, e)
         IN  /\ IsFiniteSet(DOMAIN new)
             /\ Cardinality(LinksIn(new, ino))
                  = IF e.target_ino = ino THEN Cardinality(LinksIn(ds, ino)) + 1
                    ELSE Cardinality(LinksIn(ds, ino))
<1> DEFINE new == With(ds, d, e)
<1>0. /\ DOMAIN new = DOMAIN ds \cup {d}
      /\ new[d] = e
      /\ \A y \in DOMAIN ds : new[y] = ds[y]
  BY DEF With
<1> HIDE DEF new
<1>1. IsFiniteSet(LinksIn(ds, ino))
  BY FS_Subset DEF LinksIn
<1>2. IsFiniteSet(DOMAIN new)
  BY <1>0, FS_AddElement
<1>3. LinksIn(new, ino) = IF e.target_ino = ino THEN LinksIn(ds, ino) \cup {d}
                        ELSE LinksIn(ds, ino)
  BY <1>0 DEF LinksIn
<1>4. d \notin LinksIn(ds, ino)
  BY DEF LinksIn
<1>5. /\ IsFiniteSet(LinksIn(ds, ino) \cup {d})
      /\ Cardinality(LinksIn(ds, ino) \cup {d}) = Cardinality(LinksIn(ds, ino)) + 1
  BY <1>1, <1>4, FS_AddElement
<1>6. Cardinality(LinksIn(new, ino))
        = IF e.target_ino = ino THEN Cardinality(LinksIn(ds, ino)) + 1
          ELSE Cardinality(LinksIn(ds, ino))
  BY <1>3, <1>5
<1> QED
  BY <1>2, <1>6 DEF new

LEMMA LinksWithout ==
  ASSUME NEW ds, NEW d \in DOMAIN ds, NEW ino, IsFiniteSet(DOMAIN ds)
  PROVE  LET new == Without(ds, d)
         IN  /\ IsFiniteSet(DOMAIN new)
             /\ Cardinality(LinksIn(new, ino))
                  = IF ds[d].target_ino = ino THEN Cardinality(LinksIn(ds, ino)) - 1
                    ELSE Cardinality(LinksIn(ds, ino))
<1> DEFINE new == Without(ds, d)
<1>0. /\ DOMAIN new = DOMAIN ds \ {d}
      /\ \A y \in DOMAIN ds \ {d} : new[y] = ds[y]
  BY DEF Without, Restrict
<1> HIDE DEF new
<1>1. IsFiniteSet(LinksIn(ds, ino))
  BY FS_Subset DEF LinksIn
<1>2. IsFiniteSet(DOMAIN new)
  BY <1>0, FS_RemoveElement
<1>3. LinksIn(new, ino) = IF ds[d].target_ino = ino THEN LinksIn(ds, ino) \ {d}
                        ELSE LinksIn(ds, ino)
  BY <1>0 DEF LinksIn
<1>4. ds[d].target_ino = ino => d \in LinksIn(ds, ino)
  BY DEF LinksIn
<1>5. d \in LinksIn(ds, ino) =>
        Cardinality(LinksIn(ds, ino) \ {d}) = Cardinality(LinksIn(ds, ino)) - 1
  BY <1>1, FS_RemoveElement
<1>6. Cardinality(LinksIn(new, ino))
        = IF ds[d].target_ino = ino THEN Cardinality(LinksIn(ds, ino)) - 1
          ELSE Cardinality(LinksIn(ds, ino))
  BY <1>3, <1>4, <1>5
<1> QED
  BY <1>2, <1>6 DEF new

\* An inode with one link has no dirent but that one (unlink, rmdir).
LEMMA OnlyLink ==
  ASSUME NEW ds, NEW d \in DOMAIN ds, IsFiniteSet(DOMAIN ds),
         Cardinality(LinksIn(ds, ds[d].target_ino)) = 1
  PROVE  \A e \in DOMAIN ds \ {d} : ds[e].target_ino # ds[d].target_ino
<1>1. IsFiniteSet(LinksIn(ds, ds[d].target_ino))
  BY FS_Subset DEF LinksIn
<1>2. PICK x : LinksIn(ds, ds[d].target_ino) = {x}
  BY <1>1, FS_Singleton
<1> QED
  BY <1>2 DEF LinksIn
-----------------------------------------------------------------------------
(***************************************************************************)
(* What each handler makes of a sound image.                               *)
(***************************************************************************)
\* create, mkdir and symlink: the new inode has a number nothing refers to.
LEMMA SoundMake ==
  ASSUME NEW ins, NEW ds, NEW os, NEW next, Sound(ins, ds, os, next),
         NEW parent \in Ino, NEW name \in Names, NEW kind \in Kind,
         IsDir(ins, parent), <<parent, name>> \notin DOMAIN ds, next <= MaxIno
  PROVE  LET inode == [kind |-> kind, nlink |-> IF kind = "dir" THEN 2 ELSE 1,
                       parent_ino |-> parent]
             e     == [target_ino |-> next, kind |-> kind]
         IN  Sound(With(ins, next, inode), With(ds, <<parent, name>>, e), os, next + 1)
<1> DEFINE inode == [kind |-> kind, nlink |-> IF kind = "dir" THEN 2 ELSE 1,
                     parent_ino |-> parent]
           e     == [target_ino |-> next, kind |-> kind]
           d     == <<parent, name>>
           ins2  == With(ins, next, inode)
           ds2   == With(ds, d, e)
<1>1. /\ DOMAIN ins2 = DOMAIN ins \cup {next}
      /\ ins2[next] = inode
      /\ \A i \in DOMAIN ins \ {next} : ins2[i] = ins[i]
  BY DEF With
<1>2. /\ DOMAIN ds2 = DOMAIN ds \cup {d}
      /\ ds2[d] = e
      /\ \A x \in DOMAIN ds : ds2[x] = ds[x]
  BY DEF With
<1>3. /\ inode \in Inode
      /\ Expected(inode) = 1
      /\ inode.kind = kind
  BY FuseConstants DEF Inode, Kind, Expected
<1>4. /\ next \in Ino
      /\ e \in Dirent
      /\ e.target_ino = next
      /\ e.kind = kind
      /\ d \in Ino \X Names
      /\ d[1] = parent
  BY FuseConstants DEF Sound, Typed, Ino, Dirent
<1>5. /\ \A i \in DOMAIN ins \cup os : i # next
      /\ next # ROOT_INO
  BY FuseConstants DEF Sound, Typed, Fresh, IsDir, Ino
<1>6. /\ IsFiniteSet(DOMAIN ds2)
      /\ \A i : Cardinality(LinksIn(ds2, i))
                  = IF e.target_ino = i THEN Cardinality(LinksIn(ds, i)) + 1
                    ELSE Cardinality(LinksIn(ds, i))
  BY LinksWith DEF Sound
<1> HIDE DEF inode, e, d, ins2, ds2
<1>7. Typed(ins2, ds2, os, next + 1)
  BY <1>1, <1>2, <1>3, <1>4, FuseConstants DEF Sound, Typed, Ino
<1>8. IsDir(ins2, ROOT_INO) /\ IsDir(ins2, parent)
  BY <1>1, <1>5 DEF Sound, IsDir
<1>9. Resolves(ins2, ds2)
  BY <1>1, <1>2, <1>3, <1>4, <1>5, <1>8 DEF Sound, Resolves, IsDir
<1>10. LinksIn(ds, next) = {}
  BY <1>5 DEF Sound, Resolves, LinksIn
<1>11. Counted(ins2, ds2)
  <2> SUFFICES ASSUME NEW i \in DOMAIN ins2 \ {ROOT_INO}
               PROVE  Cardinality(LinksIn(ds2, i)) = Expected(ins2[i])
    BY DEF Counted
  <2>1. CASE i = next
    BY <2>1, <1>1, <1>3, <1>4, <1>6, <1>10, FS_EmptySet
  <2>2. CASE i # next
    BY <2>2, <1>1, <1>4, <1>6 DEF Sound, Counted
  <2> QED
    BY <2>1, <2>2
<1>12. Fresh(ins2, os, next + 1)
  <2>1. /\ next \in 1 .. MaxIno + 1
        /\ DOMAIN ins \cup os \subseteq 1 .. MaxIno
    BY DEF Sound, Typed, Ino
  <2>2. \A i \in DOMAIN ins \cup os : i < next
    BY DEF Sound, Fresh
  <2>3. \A i \in DOMAIN ins2 \cup os : i < next + 1
    BY <1>1, <2>1, <2>2, FuseConstants
  <2> QED
    BY <1>1, <1>5, <2>3 DEF Sound, Fresh
<1> QED
  BY <1>6, <1>7, <1>8, <1>9, <1>11, <1>12 DEF Sound, inode, e, d, ins2, ds2

\* link: one more dirent, one more in nlink.
LEMMA SoundLink ==
  ASSUME NEW ins, NEW ds, NEW os, NEW next, Sound(ins, ds, os, next),
         NEW ino \in DOMAIN ins, NEW parent \in Ino, NEW name \in Names,
         IsDir(ins, parent), <<parent, name>> \notin DOMAIN ds,
         ins[ino].kind # "dir", ins[ino].nlink < MaxNlink
  PROVE  Sound([ins EXCEPT ![ino].nlink = @ + 1],
               With(ds, <<parent, name>>, [target_ino |-> ino, kind |-> ins[ino].kind]),
               os, next)
<1> DEFINE e    == [target_ino |-> ino, kind |-> ins[ino].kind]
           d    == <<parent, name>>
           ins2 == [ins EXCEPT ![ino].nlink = @ + 1]
           ds2  == With(ds, d, e)
<1>1. /\ ins[ino] \in Inode
      /\ ino \in Ino
      /\ ino # ROOT_INO
  BY DEF Sound, Typed, IsDir
<1>2. /\ DOMAIN ins2 = DOMAIN ins
      /\ ins2[ino] = [ins[ino] EXCEPT !.nlink = @ + 1]
      /\ \A i \in DOMAIN ins \ {ino} : ins2[i] = ins[i]
  OBVIOUS
<1>3. /\ ins2[ino] \in Inode
      /\ ins2[ino].kind = ins[ino].kind
      /\ Expected(ins2[ino]) = Expected(ins[ino]) + 1
  BY <1>1, <1>2, FuseConstants DEF Inode, Expected
<1>4. /\ DOMAIN ds2 = DOMAIN ds \cup {d}
      /\ ds2[d] = e
      /\ \A x \in DOMAIN ds : ds2[x] = ds[x]
  BY DEF With
<1>5. /\ e \in Dirent
      /\ e.target_ino = ino
      /\ e.kind = ins[ino].kind
      /\ d \in Ino \X Names
      /\ d[1] = parent
  BY <1>1 DEF Dirent, Inode
<1>6. /\ IsFiniteSet(DOMAIN ds2)
      /\ \A i : Cardinality(LinksIn(ds2, i))
                  = IF e.target_ino = i THEN Cardinality(LinksIn(ds, i)) + 1
                    ELSE Cardinality(LinksIn(ds, i))
  BY LinksWith DEF Sound
<1> HIDE DEF e, d, ins2, ds2
<1>7. Typed(ins2, ds2, os, next)
  BY <1>2, <1>3, <1>4, <1>5 DEF Sound, Typed
<1>8. /\ \A i \in DOMAIN ins : ins2[i].kind = ins[i].kind
      /\ \A i : IsDir(ins, i) => IsDir(ins2, i)
  BY <1>2, <1>3 DEF IsDir
<1>9. Resolves(ins2, ds2)
  BY <1>1, <1>2, <1>4, <1>5, <1>8 DEF Sound, Resolves
<1>10. Counted(ins2, ds2)
  BY <1>1, <1>2, <1>3, <1>5, <1>6 DEF Sound, Counted
<1>11. Fresh(ins2, os, next)
  BY <1>2 DEF Sound, Fresh
<1> QED
  BY <1>6, <1>7, <1>8, <1>9, <1>10, <1>11 DEF Sound, e, d, ins2, ds2

\* unlink of a file with other links: one dirent less, one less in nlink.
LEMMA SoundUnlink ==
  ASSUME NEW ins, NEW ds, NEW os, NEW next, Sound(ins, ds, os, next),
         NEW d \in DOMAIN ds, NEW ino \in DOMAIN ins, ino = ds[d].target_ino,
         ins[ino].kind # "dir", ins[ino].nlink > 1
  PROVE  Sound([ins EXCEPT ![ino].nlink = @ - 1], Without(ds, d), os, next)
<1> DEFINE ins2 == [ins EXCEPT ![ino].nlink = @ - 1]
           ds2  == Without(ds, d)
<1>1. ins[ino] \in Inode /\ ino # ROOT_INO
  BY DEF Sound, Typed, IsDir
<1>2. /\ DOMAIN ins2 = DOMAIN ins
      /\ ins2[ino] = [ins[ino] EXCEPT !.nlink = @ - 1]
      /\ \A i \in DOMAIN ins \ {ino} : ins2[i] = ins[i]
  OBVIOUS
<1>3. /\ ins2[ino] \in Inode
      /\ ins2[ino].kind = ins[ino].kind
      /\ Expected(ins2[ino]) = Expected(ins[ino]) - 1
  BY <1>1, <1>2, FuseConstants DEF Inode, Expected
<1>4. /\ DOMAIN ds2 = DOMAIN ds \ {d}
      /\ \A x \in DOMAIN ds2 : ds2[x] = ds[x]
  BY DEF Without, Restrict
<1>5. /\ IsFiniteSet(DOMAIN ds2)
      /\ \A i : Cardinality(LinksIn(ds2, i))
                  = IF ds[d].target_ino = i THEN Cardinality(LinksIn(ds, i)) - 1
                    ELSE Cardinality(LinksIn(ds, i))
  BY LinksWithout DEF Sound
<1> HIDE DEF ins2, ds2
<1>6. Typed(ins2, ds2, os, next)
  BY <1>2, <1>3, <1>4 DEF Sound, Typed
<1>7. /\ \A i \in DOMAIN ins : ins2[i].kind = ins[i].kind
      /\ \A i : IsDir(ins, i) => IsDir(ins2, i)
  BY <1>2, <1>3 DEF IsDir
<1>8. Resolves(ins2, ds2)
  BY <1>2, <1>4, <1>7 DEF Sound, Resolves
<1>9. Counted(ins2, ds2)
  BY <1>1, <1>2, <1>3, <1>5 DEF Sound, Counted
<1>10. Fresh(ins2, os, next)
  BY <1>2 DEF Sound, Fresh
<1> QED
  BY <1>5, <1>6, <1>7, <1>8, <1>9, <1>10 DEF Sound, ins2, ds2

(***************************************************************************)
(* The inode goes with its last dirent (unlink of the last link, rmdir):   *)
(* no other dirent leads to it, and none lies in it.  Its number may join  *)
(* the work items.                                                         *)
(***************************************************************************)
LEMMA SoundDrop ==
  ASSUME NEW ins, NEW ds, NEW os, NEW next, Sound(ins, ds, os, next),
         NEW d \in DOMAIN ds, NEW ino \in DOMAIN ins, ino = ds[d].target_ino,
         Expected(ins[ino]) = 1, \A x \in DOMAIN ds : x[1] # ino,
         NEW os2 \in SUBSET (os \cup {ino})
  PROVE  Sound(Without(ins, ino), Without(ds, d), os2, next)
<1> DEFINE ins2 == Without(ins, ino)
           ds2  == Without(ds, d)
<1>1. /\ DOMAIN ins2 = DOMAIN ins \ {ino}
      /\ \A i \in DOMAIN ins2 : ins2[i] = ins[i]
  BY DEF Without, Restrict
<1>2. /\ DOMAIN ds2 = DOMAIN ds \ {d}
      /\ \A x \in DOMAIN ds2 : ds2[x] = ds[x]
  BY DEF Without, Restrict
<1>3. /\ IsFiniteSet(DOMAIN ds2)
      /\ \A i : i # ino => Cardinality(LinksIn(ds2, i)) = Cardinality(LinksIn(ds, i))
  BY LinksWithout DEF Sound
<1> HIDE DEF ins2, ds2
<1>4. ino # ROOT_INO
  BY DEF Sound, Resolves
<1>5. \A x \in DOMAIN ds \ {d} : ds[x].target_ino # ino
  BY <1>4, OnlyLink DEF Sound, Counted
<1>6. Typed(ins2, ds2, os2, next)
  BY <1>1, <1>2 DEF Sound, Typed
<1>7. \A i : i # ino /\ IsDir(ins, i) => IsDir(ins2, i)
  BY <1>1 DEF IsDir
<1>8. Resolves(ins2, ds2)
  BY <1>1, <1>2, <1>5, <1>7 DEF Sound, Resolves
<1>9. Counted(ins2, ds2)
  BY <1>1, <1>3 DEF Sound, Counted
<1>10. Fresh(ins2, os2, next)
  BY <1>1 DEF Sound, Fresh
<1> QED
  BY <1>3, <1>4, <1>6, <1>7, <1>8, <1>9, <1>10 DEF Sound, ins2, ds2

\* rename: the same dirent under another parent and name.
LEMMA SoundRename ==
  ASSUME NEW ins, NEW ds, NEW os, NEW next, Sound(ins, ds, os, next),
         NEW d \in DOMAIN ds, NEW parent \in Ino, NEW name \in Names,
         IsDir(ins, parent), <<parent, name>> \notin DOMAIN ds
  PROVE  Sound(ins, With(Without(ds, d), <<parent, name>>, ds[d]), os, next)
<1> DEFINE d2  == <<parent, name>>
           ds1 == Without(ds, d)
           ds2 == With(ds1, d2, ds[d])
<1>1. /\ DOMAIN ds1 = DOMAIN ds \ {d}
      /\ \A x \in DOMAIN ds1 : ds1[x] = ds[x]
  BY DEF Without, Restrict
<1>2. /\ IsFiniteSet(DOMAIN ds1)
      /\ \A i : Cardinality(LinksIn(ds1, i))
                  = IF ds[d].target_ino = i THEN Cardinality(LinksIn(ds, i)) - 1
                    ELSE Cardinality(LinksIn(ds, i))
  BY LinksWithout DEF Sound
<1>3. d2 \in Ino \X Names /\ d2[1] = parent
  OBVIOUS
<1> HIDE DEF d2, ds1
<1>4. d2 \notin DOMAIN ds1
  BY <1>1 DEF d2
<1>5. /\ DOMAIN ds2 = DOMAIN ds1 \cup {d2}
      /\ ds2[d2] = ds[d]
      /\ \A x \in DOMAIN ds1 : ds2[x] = ds1[x]
  BY <1>4 DEF With
<1>6. /\ IsFiniteSet(DOMAIN ds2)
      /\ \A i : Cardinality(LinksIn(ds2, i))
                  = IF ds[d].target_ino = i THEN Cardinality(LinksIn(ds1, i)) + 1
                    ELSE Cardinality(LinksIn(ds1, i))
  BY <1>2, <1>4, LinksWith
<1> HIDE DEF ds2
<1>7. Typed(ins, ds2, os, next)
  BY <1>1, <1>3, <1>5 DEF Sound, Typed
<1>8. Resolves(ins, ds2)
  BY <1>1, <1>3, <1>5 DEF Sound, Resolves
<1>9. \A i : Cardinality(LinksIn(ds, i)) \in Nat
  BY FS_Subset, FS_CardinalityType DEF Sound, LinksIn
<1>10. \A i : Cardinality(LinksIn(ds2, i)) = Cardinality(LinksIn(ds, i))
  BY <1>2, <1>6, <1>9
<1>11. Counted(ins, ds2)
  BY <1>10 DEF Sound, Counted
<1> QED
  BY <1>6, <1>7, <1>8, <1>11 DEF Sound, d2, ds1, ds2

\* A slice of reclaim finishes some of the work items.
LEMMA SoundFewer ==
  ASSUME NEW ins, NEW ds, NEW os, NEW next, Sound(ins, ds, os, next),
         NEW os2 \in SUBSET os
  PROVE  Sound(ins, ds, os2, next)
BY DEF Sound, Typed, Fresh
-----------------------------------------------------------------------------
\* A handler that makes a sound image and commits it: what is in memory and what
\* is durable are sound after it.
LEMMA CommitSound ==
  ASSUME NEW items, Sound(inodes', dirents', items, next_ino'), journal_commit(items)
  PROVE  Sound(inodes', dirents', orphans', next_ino') /\ DurableSound'
<1>1. orphans' \in SUBSET items
  BY DEF journal_commit
<1>2. Sound(inodes', dirents', orphans', next_ino')
  BY <1>1, SoundFewer
<1>3. /\ durable'.inodes = inodes'
      /\ durable'.dirents = dirents'
      /\ durable'.orphans = orphans'
      /\ durable'.next_ino = next_ino'
  BY DEF journal_commit, Image
<1> QED
  BY <1>2, <1>3 DEF DurableSound

\* A fresh image with its root directory (create_image).
LEMMA InitSound == Init => FuseInv
<1> SUFFICES ASSUME Init PROVE FuseInv
  OBVIOUS
<1>1. DOMAIN dirents = {} /\ IsFiniteSet(DOMAIN dirents)
  BY FS_EmptySet DEF Init, Empty
<1>2. /\ DOMAIN inodes = {ROOT_INO}
      /\ inodes[ROOT_INO] = [kind |-> "dir", nlink |-> 2, parent_ino |-> ROOT_INO]
      /\ inodes[ROOT_INO] \in Inode
  BY FuseConstants DEF Init, Inode, Kind, Ino, ROOT_INO
<1>3. Typed(inodes, dirents, orphans, next_ino)
  BY <1>1, <1>2, FuseConstants DEF Init, Typed, Ino, ROOT_INO
<1>4. IsDir(inodes, ROOT_INO) /\ Resolves(inodes, dirents) /\ Counted(inodes, dirents)
  BY <1>1, <1>2 DEF IsDir, Resolves, Counted
<1>5. Fresh(inodes, orphans, next_ino)
  BY <1>2 DEF Init, Fresh, ROOT_INO
<1>6. DurableSound
  BY DEF Init, DurableSound, Image, Empty
<1> QED
  BY <1>1, <1>3, <1>4, <1>5, <1>6, FuseConstants DEF Init, FuseInv, Sound

\* Every handler, and a crash with the mount that follows, keeps FuseInv.
LEMMA StepSound == FuseInv /\ [Next]_vars => FuseInv'
<1> SUFFICES ASSUME FuseInv, [Next]_vars PROVE FuseInv'
  OBVIOUS
<1>0. Sound(inodes, dirents, orphans, next_ino)
  BY DEF FuseInv
<1>1. ASSUME NEW parent \in Ino, NEW name \in Names, NEW kind \in Kind,
             Make(parent, name, kind)
      PROVE  FuseInv'
  <2>1. Sound(inodes', dirents', orphans, next_ino')
    BY <1>0, <1>1, SoundMake DEF Make, VfsDirectory, IsDir
  <2> QED
    BY <1>1, <2>1, CommitSound DEF Make, FuseInv
<1>2. ASSUME NEW parent \in Ino, NEW name \in Names, Unlink(parent, name)
      PROVE  FuseInv'
  <2> DEFINE d   == <<parent, name>>
             ino == dirents[d].target_ino
  <2>1. /\ d \in DOMAIN dirents
        /\ dirents' = Without(dirents, d)
        /\ ino \in DOMAIN inodes
        /\ inodes[ino].kind # "dir"
        /\ next_ino' = next_ino
        /\ crashes' = crashes
    BY <1>2 DEF Unlink
  <2>2. CASE inodes[ino].nlink <= 1 /\ inodes' = Without(inodes, ino)
               /\ journal_commit(orphans \cup {ino})
    <3>1. Expected(inodes[ino]) = 1
      BY <1>0, <2>1, <2>2, FuseConstants DEF Sound, Typed, Inode, Expected
    <3>2. \A x \in DOMAIN dirents : x[1] # ino
      BY <1>0, <2>1 DEF Sound, Resolves, IsDir
    <3>3. Sound(inodes', dirents', orphans \cup {ino}, next_ino')
      BY <1>0, <2>1, <2>2, <3>1, <3>2, SoundDrop
    <3> QED
      BY <2>1, <2>2, <3>3, CommitSound DEF FuseInv
  <2>3. CASE inodes[ino].nlink > 1 /\ inodes' = [inodes EXCEPT ![ino].nlink = @ - 1]
               /\ journal_commit(orphans)
    <3>1. Sound(inodes', dirents', orphans, next_ino')
      BY <1>0, <2>1, <2>3, SoundUnlink
    <3> QED
      BY <2>1, <2>3, <3>1, CommitSound DEF FuseInv
  <2> QED
    BY <1>2, <2>2, <2>3 DEF Unlink
<1>3. ASSUME NEW parent \in Ino, NEW name \in Names, Rmdir(parent, name)
      PROVE  FuseInv'
  <2> DEFINE d   == <<parent, name>>
             ino == dirents[d].target_ino
  <2>1. /\ d \in DOMAIN dirents
        /\ dirents[d].kind = "dir"
        /\ \A x \in DOMAIN dirents : x[1] # ino
        /\ dirents' = Without(dirents, d)
        /\ inodes' = Without(inodes, ino)
        /\ next_ino' = next_ino
        /\ crashes' = crashes
        /\ journal_commit(orphans)
    BY <1>3 DEF Rmdir, list_dirents
  <2>2. ino \in DOMAIN inodes /\ Expected(inodes[ino]) = 1
    BY <1>0, <2>1 DEF Sound, Resolves, Expected
  <2>3. Sound(inodes', dirents', orphans, next_ino')
    BY <1>0, <2>1, <2>2, SoundDrop
  <2> QED
    BY <2>1, <2>3, CommitSound DEF FuseInv
<1>4. ASSUME NEW ino \in Ino, NEW parent \in Ino, NEW name \in Names,
             Link(ino, parent, name)
      PROVE  FuseInv'
  <2>1. Sound(inodes', dirents', orphans, next_ino')
    BY <1>0, <1>4, SoundLink DEF Link, VfsDirectory, IsDir
  <2> QED
    BY <1>4, <2>1, CommitSound DEF Link, FuseInv
<1>5. ASSUME NEW parent \in Ino, NEW newparent \in Ino,
             NEW name \in Names, NEW newname \in Names,
             Rename(parent, name, newparent, newname)
      PROVE  FuseInv'
  <2>1. Sound(inodes', dirents', orphans, next_ino')
    BY <1>0, <1>5, SoundRename DEF Rename, VfsDirectory, IsDir
  <2> QED
    BY <1>5, <2>1, CommitSound DEF Rename, FuseInv
<1>6. CASE Touch
  BY <1>0, <1>6, CommitSound DEF Touch, FuseInv
<1>7. CASE Crash
  BY <1>7, FuseConstants DEF Crash, FuseInv, DurableSound
<1>8. CASE UNCHANGED vars
  BY <1>8 DEF vars, FuseInv, DurableSound
<1> QED
  BY <1>1, <1>2, <1>3, <1>4, <1>5, <1>6, <1>7, <1>8
     DEF Next, Create, Mkdir, Symlink, Kind

\* FuseInv holds of every image the handlers and crashes can make.
LEMMA FuseInductive == Spec => []FuseInv
BY InitSound, StepSound, PTL DEF Spec

(***************************************************************************)
(* The maps, work items and counters of the name space keep their types.   *)
(***************************************************************************)
THEOREM FuseTypeCorrect == Spec => []TypeOK
<1>1. FuseInv => TypeOK
  BY DEF FuseInv, Sound, Typed, TypeOK
<1> QED
  BY <1>1, FuseInductive, PTL

(***************************************************************************)
(* No lookup replies EIO, after any handlers and any crashes: a dirent     *)
(* always has its inode, of its kind, and lies in a directory.             *)
(***************************************************************************)
THEOREM DirentsResolve == Spec => []NoDanglingDirent
<1>1. FuseInv => NoDanglingDirent
  <2> SUFFICES ASSUME FuseInv, NEW d \in DOMAIN dirents
               PROVE  /\ lookup(d[1], d[2]) = "found"
                      /\ inodes[dirents[d].target_ino].kind = dirents[d].kind
                      /\ VfsDirectory(d[1])
    BY DEF NoDanglingDirent
  <2>1. d = <<d[1], d[2]>>
    BY DEF FuseInv, Sound, Typed
  <2>2. /\ dirents[d].target_ino \in DOMAIN inodes
        /\ inodes[dirents[d].target_ino].kind = dirents[d].kind
        /\ VfsDirectory(d[1])
    BY DEF FuseInv, Sound, Resolves, IsDir, VfsDirectory
  <2> QED
    BY <2>1, <2>2 DEF lookup
<1> QED
  BY <1>1, FuseInductive, PTL

(***************************************************************************)
(* nlink is the number of dirents of a file, and a directory below the     *)
(* root has one (link, unlink, rename, rmdir).                             *)
(***************************************************************************)
THEOREM LinksCounted == Spec => []NlinkCounts
<1>1. FuseInv => NlinkCounts
  BY DEF FuseInv, Sound, Counted, Expected, LinksIn, NlinkCounts, Links
<1> QED
  BY <1>1, FuseInductive, PTL

(***************************************************************************)
(* An inode with a work item has no inode entry and no name, and every     *)
(* number in use is below next_ino: reclaim never deletes the extents of a *)
(* file that is in use (unlink, alloc_ino, reclaim_deleted_inodes).        *)
(***************************************************************************)
THEOREM WorkItemsAreGone == Spec => []ReclaimedFilesAreGone
<1>1. FuseInv => ReclaimedFilesAreGone
  <2> SUFFICES ASSUME FuseInv PROVE ReclaimedFilesAreGone
    OBVIOUS
  <2>1. /\ \A ino \in orphans : ino \notin DOMAIN inodes
        /\ \A ino \in DOMAIN inodes \cup orphans : ino < next_ino
    BY DEF FuseInv, Sound, Fresh
  <2>2. \A ino \in orphans : Links(ino) = {}
    BY <2>1 DEF FuseInv, Sound, Resolves, Links
  <2> QED
    BY <2>1, <2>2 DEF ReclaimedFilesAreGone
<1> QED
  BY <1>1, FuseInductive, PTL
-----------------------------------------------------------------------------
(***************************************************************************)
(* Everything hangs below the root.                                        *)
(***************************************************************************)
\* A set of inodes with the directories their dirents lie in.
Upward(ds, C) == \A d \in DOMAIN ds : ds[d].target_ino \in C => d[1] \in C

(***************************************************************************)
(* Whoever walks up from an inode meets the root.  Said of all sets that   *)
(* are closed under the walk, it needs no recursion.                       *)
(***************************************************************************)
Rooted(ins, ds) ==
  \A C \in SUBSET Ino : Upward(ds, C) /\ C \cap DOMAIN ins # {} => ROOT_INO \in C

RootedInv ==
  /\ Rooted(inodes, dirents)
  /\ ROOT_INO \in DOMAIN durable.inodes => Rooted(durable.inodes, durable.dirents)

\* A name for a new inode or one more for an old one (create, mkdir, symlink, link).
LEMMA RootedAdd ==
  ASSUME NEW ins, NEW ds, Rooted(ins, ds), NEW d, NEW e, d \notin DOMAIN ds,
         d[1] \in DOMAIN ins, NEW ins2, DOMAIN ins2 \subseteq DOMAIN ins \cup {e.target_ino}
  PROVE  Rooted(ins2, With(ds, d, e))
<1> DEFINE ds2 == With(ds, d, e)
<1>1. /\ DOMAIN ds2 = DOMAIN ds \cup {d}
      /\ ds2[d] = e
      /\ \A x \in DOMAIN ds : ds2[x] = ds[x]
  BY DEF With
<1> HIDE DEF ds2
<1>2. ASSUME NEW C \in SUBSET Ino, Upward(ds2, C), NEW i \in C, i \in DOMAIN ins2
      PROVE  ROOT_INO \in C
  <2>1. Upward(ds, C)
    BY <1>1, <1>2 DEF Upward
  <2>2. i \in DOMAIN ins \/ d[1] \in C
    BY <1>1, <1>2 DEF Upward
  <2>3. C \cap DOMAIN ins # {}
    BY <1>2, <2>2
  <2> QED
    BY <2>1, <2>3 DEF Rooted
<1>3. Rooted(ins2, ds2)
  BY <1>2 DEF Rooted
<1> QED
  BY <1>3 DEF ds2

(***************************************************************************)
(* A dirent goes whose target nothing lies in (unlink, rmdir).  The target *)
(* goes with it or has another name.                                       *)
(***************************************************************************)
LEMMA RootedRemove ==
  ASSUME NEW ins, NEW ds, Resolves(ins, ds), Rooted(ins, ds), NEW d \in DOMAIN ds,
         NEW ino, ino = ds[d].target_ino, \A x \in DOMAIN ds : x[1] # ino,
         NEW ins2, DOMAIN ins2 \subseteq DOMAIN ins,
         ino \in DOMAIN ins2 => \E x \in DOMAIN ds \ {d} : ds[x].target_ino = ino
  PROVE  Rooted(ins2, Without(ds, d))
<1> DEFINE ds2 == Without(ds, d)
<1>1. /\ DOMAIN ds2 = DOMAIN ds \ {d}
      /\ \A x \in DOMAIN ds2 : ds2[x] = ds[x]
  BY DEF Without, Restrict
<1> HIDE DEF ds2
<1>2. ASSUME NEW C \in SUBSET Ino, Upward(ds2, C), NEW i \in C, i \in DOMAIN ins2
      PROVE  ROOT_INO \in C
  <2> DEFINE B == C \ {ino}
  <2>1. Upward(ds, B)
    BY <1>1, <1>2 DEF Upward
  <2>2. CASE i # ino
    <3>1. i \in B /\ i \in DOMAIN ins /\ B \in SUBSET Ino
      BY <1>2, <2>2
    <3> HIDE DEF B
    <3>2. ROOT_INO \in B
      BY <2>1, <3>1 DEF Rooted
    <3> QED
      BY <3>2 DEF B
  <2>3. CASE i = ino
    <3>1. PICK x \in DOMAIN ds \ {d} : ds[x].target_ino = ino
      BY <1>2, <2>3
    <3>2. x[1] \in C /\ x[1] # ino
      BY <1>1, <1>2, <2>3, <3>1 DEF Upward
    <3>3. x[1] \in DOMAIN ins
      BY <3>1 DEF Resolves, IsDir
    <3>4. x[1] \in B /\ B \in SUBSET Ino
      BY <3>2
    <3> HIDE DEF B
    <3>5. ROOT_INO \in B
      BY <2>1, <3>3, <3>4 DEF Rooted
    <3> QED
      BY <3>5 DEF B
  <2> QED
    BY <2>2, <2>3
<1>3. Rooted(ins2, ds2)
  BY <1>2 DEF Rooted
<1> QED
  BY <1>3 DEF ds2

\* A dirent moves to a directory that is not below its target (rename).
LEMMA RootedRename ==
  ASSUME NEW ins, NEW ds, Rooted(ins, ds), NEW d \in DOMAIN ds,
         NEW d2, d2 \notin DOMAIN ds, d2[1] \in DOMAIN ins,
         NEW A \in SUBSET Ino, Upward(ds, A), d2[1] \in A, ds[d].target_ino \notin A
  PROVE  Rooted(ins, With(Without(ds, d), d2, ds[d]))
<1> DEFINE ds1 == Without(ds, d)
           ds2 == With(ds1, d2, ds[d])
           m == ds[d].target_ino
<1>1. /\ DOMAIN ds1 = DOMAIN ds \ {d}
      /\ \A x \in DOMAIN ds1 : ds1[x] = ds[x]
  BY DEF Without, Restrict
<1> HIDE DEF ds1
<1>2. /\ DOMAIN ds2 = DOMAIN ds1 \cup {d2}
      /\ ds2[d2] = ds[d]
      /\ \A x \in DOMAIN ds1 : ds2[x] = ds1[x]
  BY <1>1 DEF With
<1> HIDE DEF ds2
<1>3. ASSUME NEW C \in SUBSET Ino, Upward(ds2, C), NEW i \in C, i \in DOMAIN ins
      PROVE  ROOT_INO \in C
  <2>1. CASE m \notin C
    <3>1. Upward(ds, C)
      BY <1>1, <1>2, <1>3, <2>1 DEF Upward
    <3> QED
      BY <1>3, <3>1 DEF Rooted
  <2>2. CASE m \in C
    <3> DEFINE B == C \cap A
    <3>1. d2[1] \in C
      BY <1>2, <1>3, <2>2 DEF Upward
    <3>2. Upward(ds, B)
      BY <1>1, <1>2, <1>3 DEF Upward
    <3>3. B \in SUBSET Ino /\ d2[1] \in B
      BY <3>1
    <3> HIDE DEF B
    <3>4. ROOT_INO \in B
      BY <3>2, <3>3 DEF Rooted
    <3> QED
      BY <3>4 DEF B
  <2> QED
    BY <2>1, <2>2
<1>4. Rooted(ins, ds2)
  BY <1>3 DEF Rooted
<1> QED
  BY <1>4 DEF ds1, ds2

\* A walk up ends in a set that has no way out (VfsMayMove).
LEMMA AboveClosed ==
  ASSUME DOMAIN dirents \subseteq Ino \X Names, NEW ino \in Ino
  PROVE  /\ Above(ino) \in SUBSET Ino
         /\ ino \in Above(ino)
         /\ Upward(dirents, Above(ino))
<1> DEFINE T(S) == S \cup {d[1] : d \in UNION {Links(i) : i \in S}}
           Eq(f) == f = [S \in SUBSET Ino |-> IF T(S) = S THEN S ELSE f[T(S)]]
           hull == [S \in SUBSET Ino |-> {i \in Ino : \A C \in SUBSET Ino :
                                            S \subseteq C /\ Upward(dirents, C) => i \in C}]
           up == CHOOSE f : Eq(f)
           Good(S) == S \subseteq up[S] /\ up[S] \in SUBSET Ino /\ Upward(dirents, up[S])
<1>1. ASSUME NEW S \in SUBSET Ino
      PROVE  /\ S \subseteq T(S) /\ T(S) \in SUBSET Ino
             /\ T(S) = S => Upward(dirents, S)
             /\ \A C : S \subseteq C /\ Upward(dirents, C) => T(S) \subseteq C
  <2>1. \A x : x \in T(S) <=> x \in S \/ \E d \in DOMAIN dirents : dirents[d].target_ino \in S /\ x = d[1]
    BY DEF Links
  <2> HIDE DEF T
  <2>2. \A d \in DOMAIN dirents : d[1] \in Ino
    OBVIOUS
  <2> QED
    BY <2>1, <2>2 DEF Upward
<1> HIDE DEF T
<1>2. ASSUME NEW S \in SUBSET Ino
      PROVE  hull[S] = IF T(S) = S THEN S ELSE hull[T(S)]
  <2>1. CASE T(S) = S
    <3>1. Upward(dirents, S)
      BY <1>1, <2>1
    <3> QED
      BY <2>1, <3>1
  <2>2. CASE T(S) # S
    <3>1. \A C : (S \subseteq C /\ Upward(dirents, C)) <=> (T(S) \subseteq C /\ Upward(dirents, C))
      BY <1>1
    <3>2. T(S) \in SUBSET Ino
      BY <1>1
    <3> QED
      BY <2>2, <3>1, <3>2
  <2> HIDE DEF hull
  <2> QED
    BY <2>1, <2>2
<1>3. Eq(hull)
  <2>1. hull \in [SUBSET Ino -> SUBSET Ino]
    OBVIOUS
  <2> HIDE DEF hull
  <2> QED
    BY <1>2, <2>1
<1>4. Eq(up)
  <2> HIDE DEF Eq, hull
  <2> QED
    BY <1>3
<1>5. Above(ino) = up[{ino}]
  BY DEF Above, T
<1> HIDE DEF hull, up
<1>6. \A S \in SUBSET Ino : up[S] = IF T(S) = S THEN S ELSE up[T(S)]
  BY <1>4
<1> HIDE DEF Eq
<1>7. IsFiniteSet(Ino)
  BY FuseConstants, FS_Interval DEF Ino
<1>8. \A S \in SUBSET Ino : Good(S)
  <2> DEFINE Bad == {S \in SUBSET Ino : ~ Good(S)}
             Left == {Cardinality(Ino \ S) : S \in Bad}
  <2> SUFFICES ASSUME Bad # {} PROVE FALSE
    OBVIOUS
  <2>1. \A S \in SUBSET Ino : IsFiniteSet(Ino \ S) /\ Cardinality(Ino \ S) \in Nat
    BY <1>7, FS_Subset, FS_CardinalityType
  <2>0. \A S \in Bad : S \in SUBSET Ino /\ ~ Good(S)
    OBVIOUS
  <2>00. \A S \in SUBSET Ino : Good(S) \/ S \in Bad
    OBVIOUS
  <2> HIDE DEF Good, Bad
  <2>2. Left \in SUBSET Nat /\ Left # {}
    <3>1. \A n : n \in Left <=> \E S \in Bad : n = Cardinality(Ino \ S)
      BY Zenon
    <3> HIDE DEF Left
    <3> QED
      BY <2>0, <2>1, <3>1, Zenon
  <2>3. PICK n \in Left : \A m \in Left : n <= m
    <3> HIDE DEF Left
    <3> QED
      BY <2>2, LeastNumber
  <2>4. PICK S \in Bad : n = Cardinality(Ino \ S)
    BY <2>3
  <2>5. S \in SUBSET Ino /\ ~ Good(S) /\ T(S) \in SUBSET Ino /\ S \subseteq T(S)
    BY <1>1, <2>0
  <2>6. T(S) # S
    BY <1>1, <1>6, <2>5 DEF Good
  <2>7. Cardinality(Ino \ T(S)) < Cardinality(Ino \ S)
    <3>1. Ino \ T(S) \in SUBSET (Ino \ S) /\ Ino \ T(S) # Ino \ S
      BY <2>5, <2>6
    <3>2. IsFiniteSet(Ino \ S) /\ Cardinality(Ino \ S) \in Nat /\ Cardinality(Ino \ T(S)) \in Nat
      BY <2>1, <2>5
    <3>3. /\ Cardinality(Ino \ T(S)) <= Cardinality(Ino \ S)
          /\ Cardinality(Ino \ S) # Cardinality(Ino \ T(S))
      BY <3>1, <3>2, FS_Subset, Zenon
    <3> QED
      BY <3>2, <3>3
  <2>8. T(S) \notin Bad
    <3>1. T(S) \in Bad => Cardinality(Ino \ T(S)) \in Left
      BY Zenon
    <3>2. Cardinality(Ino \ S) \in Nat /\ Cardinality(Ino \ T(S)) \in Nat
      BY <2>1, <2>5
    <3> HIDE DEF Left
    <3> QED
      BY <2>3, <2>4, <2>7, <3>1, <3>2
  <2>9. Good(T(S)) /\ up[S] = up[T(S)]
    BY <1>6, <2>00, <2>5, <2>6, <2>8
  <2> QED
    BY <2>5, <2>9 DEF Good
<1>9. Good({ino})
  <2>1. {ino} \in SUBSET Ino
    OBVIOUS
  <2> HIDE DEF Good
  <2> QED
    BY <1>8, <2>1
<1> QED
  BY <1>5, <1>9

\* A handler that commits a rooted name space.
LEMMA CommitRooted ==
  ASSUME NEW items, Rooted(inodes', dirents'), journal_commit(items)
  PROVE  RootedInv'
<1>1. durable'.inodes = inodes' /\ durable'.dirents = dirents'
  BY DEF journal_commit, Image
<1> QED
  BY <1>1 DEF RootedInv

\* A fresh image has the root alone (create_image).
LEMMA InitRooted == Init => RootedInv
<1> SUFFICES ASSUME Init PROVE RootedInv
  OBVIOUS
<1>1. DOMAIN inodes = {ROOT_INO}
  BY DEF Init
<1>2. ROOT_INO \notin DOMAIN durable.inodes
  BY DEF Init, Image, Empty
<1> QED
  BY <1>1, <1>2 DEF RootedInv, Rooted

\* Every handler, and a crash with the mount that follows, keeps RootedInv.
LEMMA StepRooted == FuseInv /\ RootedInv /\ [Next]_vars => RootedInv'
<1> SUFFICES ASSUME FuseInv, RootedInv, [Next]_vars PROVE RootedInv'
  OBVIOUS
<1>0. /\ Sound(inodes, dirents, orphans, next_ino)
      /\ Resolves(inodes, dirents)
      /\ DOMAIN dirents \subseteq Ino \X Names
      /\ Rooted(inodes, dirents)
  BY DEF FuseInv, Sound, Typed, RootedInv
<1>1. ASSUME NEW parent \in Ino, NEW name \in Names, NEW kind \in Kind,
             Make(parent, name, kind)
      PROVE  RootedInv'
  <2> DEFINE d == <<parent, name>>
             e == [target_ino |-> next_ino, kind |-> kind]
  <2>1. /\ d \notin DOMAIN dirents /\ parent \in DOMAIN inodes /\ d[1] = parent
        /\ dirents' = With(dirents, d, e)
        /\ DOMAIN inodes' \subseteq DOMAIN inodes \cup {e.target_ino}
        /\ journal_commit(orphans)
    BY <1>1 DEF Make, VfsDirectory, With
  <2> HIDE DEF d, e
  <2>2. Rooted(inodes', dirents')
    BY <1>0, <2>1, RootedAdd
  <2> QED
    BY <2>1, <2>2, CommitRooted
<1>2. ASSUME NEW parent \in Ino, NEW name \in Names, Unlink(parent, name)
      PROVE  RootedInv'
  <2> DEFINE d   == <<parent, name>>
             ino == dirents[d].target_ino
  <2>1. /\ d \in DOMAIN dirents
        /\ dirents' = Without(dirents, d)
        /\ ino \in DOMAIN inodes
        /\ inodes[ino].kind # "dir"
    BY <1>2 DEF Unlink
  <2>2. \A x \in DOMAIN dirents : x[1] # ino
    BY <1>0, <2>1 DEF Resolves, IsDir
  <2>3. CASE inodes' = Without(inodes, ino) /\ journal_commit(orphans \cup {ino})
    <3>1. DOMAIN inodes' \subseteq DOMAIN inodes /\ ino \notin DOMAIN inodes'
      BY <2>3 DEF Without, Restrict
    <3>2. Rooted(inodes', dirents')
      BY <1>0, <2>1, <2>2, <3>1, RootedRemove
    <3> QED
      BY <2>3, <3>2, CommitRooted
  <2>4. CASE inodes[ino].nlink > 1 /\ inodes' = [inodes EXCEPT ![ino].nlink = @ - 1]
               /\ journal_commit(orphans)
    <3>1. DOMAIN inodes' \subseteq DOMAIN inodes
      BY <2>4
    <3>2. \E x \in DOMAIN dirents \ {d} : dirents[x].target_ino = ino
      <4> SUFFICES ASSUME \A x \in DOMAIN dirents \ {d} : dirents[x].target_ino # ino
                   PROVE  FALSE
        OBVIOUS
      <4>1. LinksIn(dirents, ino) = {d}
        BY <2>1 DEF LinksIn
      <4>2. Cardinality({d}) = 1
        BY FS_Singleton, Zenon
      <4>3. Cardinality(LinksIn(dirents, ino)) = inodes[ino].nlink
        BY <1>0, <2>1 DEF Sound, IsDir, Counted, Expected
      <4> QED
        BY <2>4, <4>1, <4>2, <4>3
    <3>3. Rooted(inodes', dirents')
      BY <1>0, <2>1, <2>2, <3>1, <3>2, RootedRemove
    <3>4. journal_commit(orphans)
      BY <2>4
    <3> QED
      BY <3>3, <3>4, CommitRooted, Zenon
  <2> QED
    BY <1>2, <2>3, <2>4 DEF Unlink
<1>3. ASSUME NEW parent \in Ino, NEW name \in Names, Rmdir(parent, name)
      PROVE  RootedInv'
  <2> DEFINE d   == <<parent, name>>
             ino == dirents[d].target_ino
  <2>1. /\ d \in DOMAIN dirents
        /\ \A x \in DOMAIN dirents : x[1] # ino
        /\ dirents' = Without(dirents, d)
        /\ inodes' = Without(inodes, ino)
        /\ journal_commit(orphans)
    BY <1>3 DEF Rmdir, list_dirents
  <2>2. DOMAIN inodes' \subseteq DOMAIN inodes /\ ino \notin DOMAIN inodes'
    BY <2>1 DEF Without, Restrict
  <2>3. Rooted(inodes', dirents')
    BY <1>0, <2>1, <2>2, RootedRemove
  <2> QED
    BY <2>1, <2>3, CommitRooted
<1>4. ASSUME NEW ino \in Ino, NEW parent \in Ino, NEW name \in Names,
             Link(ino, parent, name)
      PROVE  RootedInv'
  <2> DEFINE d == <<parent, name>>
             e == [target_ino |-> ino, kind |-> inodes[ino].kind]
  <2>1. /\ d \notin DOMAIN dirents /\ parent \in DOMAIN inodes /\ d[1] = parent
        /\ dirents' = With(dirents, d, e)
        /\ DOMAIN inodes' \subseteq DOMAIN inodes \cup {e.target_ino}
        /\ journal_commit(orphans)
    BY <1>4 DEF Link, VfsDirectory
  <2> HIDE DEF d, e
  <2>2. Rooted(inodes', dirents')
    BY <1>0, <2>1, RootedAdd
  <2> QED
    BY <2>1, <2>2, CommitRooted
<1>5. ASSUME NEW parent \in Ino, NEW newparent \in Ino,
             NEW name \in Names, NEW newname \in Names,
             Rename(parent, name, newparent, newname)
      PROVE  RootedInv'
  <2> DEFINE d  == <<parent, name>>
             d2 == <<newparent, newname>>
             A  == Above(newparent)
  <2>1. /\ d \in DOMAIN dirents /\ d2 \notin DOMAIN dirents
        /\ newparent \in DOMAIN inodes /\ d2[1] = newparent
        /\ dirents[d].target_ino \notin A
        /\ dirents' = With(Without(dirents, d), d2, dirents[d])
        /\ inodes' = inodes
        /\ journal_commit(orphans)
    BY <1>5 DEF Rename, VfsDirectory, VfsMayMove
  <2>2. A \in SUBSET Ino /\ newparent \in A /\ Upward(dirents, A)
    BY <1>0, AboveClosed
  <2> HIDE DEF d, d2, A
  <2>3. Rooted(inodes', dirents')
    BY <1>0, <2>1, <2>2, RootedRename
  <2> QED
    BY <2>1, <2>3, CommitRooted
<1>6. CASE Touch
  BY <1>0, <1>6, CommitRooted DEF Touch
<1>7. CASE Crash
  BY <1>7 DEF Crash, RootedInv
<1>8. CASE UNCHANGED vars
  BY <1>8 DEF vars, RootedInv
<1> QED
  BY <1>1, <1>2, <1>3, <1>4, <1>5, <1>6, <1>7, <1>8
     DEF Next, Create, Mkdir, Symlink, Kind

(***************************************************************************)
(* Every inode hangs below the root, after any handlers and any crashes:   *)
(* rename makes no cycle, rmdir and unlink cut off no subtree.             *)
(***************************************************************************)
THEOREM AllHangsBelowRoot == Spec => []AllReachable
<1>1. FuseInv /\ RootedInv => AllReachable
  <2> SUFFICES ASSUME FuseInv, RootedInv, NEW ino \in DOMAIN inodes
               PROVE  ROOT_INO \in Above(ino)
    BY DEF AllReachable
  <2>1. ino \in Ino /\ DOMAIN dirents \subseteq Ino \X Names
    BY DEF FuseInv, Sound, Typed
  <2>2. Above(ino) \in SUBSET Ino /\ ino \in Above(ino) /\ Upward(dirents, Above(ino))
    BY <2>1, AboveClosed
  <2> QED
    BY <2>2 DEF RootedInv, Rooted
<1>2. Spec => []RootedInv
  BY InitRooted, StepRooted, FuseInductive, PTL DEF Spec
<1> QED
  BY <1>1, <1>2, FuseInductive, PTL
=============================================================================
