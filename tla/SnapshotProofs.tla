-------------------------- MODULE SnapshotProofs ----------------------------
(***************************************************************************)
(* Proofs about module Snapshots, for every number of keys, snapshots,     *)
(* commits and crashes: a snap_id is clean when it is handed out, the      *)
(* snapshot tree stays a tree without leftovers, and the shared tree of    *)
(* versioned keys implements one map per subvolume.                        *)
(***************************************************************************)
EXTENDS SnapshotLemmas

Clean(t, next) == \A k \in Keys : \A s \in 1 .. next : t[k][s] = NoEntry

(***************************************************************************)
(* Of a tree with its subvolumes: the ids up to next are clean, every      *)
(* subvolume writes above them, and there is a current one.                *)
(***************************************************************************)
IdsOK(t, svs, cur, next) ==
  /\ t \in Tree
  /\ next \in 0 .. ROOT_SNAP
  /\ Clean(t, next)
  /\ cur \in DOMAIN svs
  /\ \A id \in DOMAIN svs :
       svs[id] \in [snap_id : next + 1 .. ROOT_SNAP, readonly : BOOLEAN, parent_subvol : Nat]
  /\ DOMAIN svs \subseteq Nat

(***************************************************************************)
(* The inductive invariant: of the tree in memory, of the one a replay     *)
(* rebuilds, which still has the keys of deleted snapshots, and of the     *)
(* durable one.                                                            *)
(***************************************************************************)
IdsInv ==
  /\ IdsOK(tree, subvols, current_subvol, next_snap_id)
  /\ IdsOK(logged, subvols, current_subvol, next_snap_id)
  /\ IdsOK(durable.tree, durable.subvols, durable.current_subvol, durable.next_snap_id)
  /\ next_subvol_id \in Nat
  /\ durable.next_subvol_id \in Nat
-----------------------------------------------------------------------------
\* A fresh image (Fs::create).
LEMMA InitIds == Init => IdsInv
<1> SUFFICES ASSUME Init PROVE IdsInv
  OBVIOUS
<1>1. IdsOK(tree, subvols, current_subvol, next_snap_id)
  BY SnapshotConstants
     DEF Init, IdsOK, Tree, Entry, SnapId, Clean, ROOT_SUBVOL
<1>2. /\ durable.tree = logged
      /\ durable.subvols = subvols
      /\ durable.current_subvol = current_subvol
      /\ durable.next_snap_id = next_snap_id
      /\ durable.next_subvol_id = next_subvol_id
      /\ logged = tree
      /\ next_subvol_id \in Nat
  BY DEF Init, Now, ROOT_SUBVOL
<1> QED
  BY <1>1, <1>2 DEF IdsInv

\* A write at the current snap_id (insert_at, delete_at) is above the clean ids.
LEMMA WriteIds ==
  ASSUME NEW t, NEW svs, NEW cur, NEW next, IdsOK(t, svs, cur, next),
         NEW k \in Keys, NEW e \in Entry
  PROVE  IdsOK([t EXCEPT ![k][svs[cur].snap_id] = e], svs, cur, next)
<1> DEFINE snap == svs[cur].snap_id
           t2   == [t EXCEPT ![k][snap] = e]
<1>1. snap \in next + 1 .. ROOT_SNAP
  BY DEF IdsOK
<1> HIDE DEF snap
<1>2. t2 \in Tree
  BY <1>1, SnapshotConstants DEF IdsOK, Tree, SnapId
<1>3. ASSUME NEW j \in Keys, NEW s \in 1 .. next
      PROVE  t2[j][s] = NoEntry
  <2>1. s # snap /\ s \in SnapId
    BY <1>1, SnapshotConstants DEF IdsOK, SnapId
  <2>2. t2[j][s] = t[j][s]
    BY <1>1, <2>1 DEF IdsOK, Tree
  <2> QED
    BY <2>2 DEF IdsOK, Clean
<1> QED
  BY <1>2, <1>3 DEF IdsOK, Clean, snap

\* The subvolumes after snapshot_subvol(src): the new one is frozen, the source
\* moves on to an id of its own.
Snapshotted(svs, svs2, src, new, next) ==
  /\ DOMAIN svs2 = DOMAIN svs \cup {new}
  /\ \A id \in DOMAIN svs2 :
       \/ id = new /\ svs2[id] = [snap_id |-> next - 1, readonly |-> TRUE,
                                  parent_subvol |-> src]
       \/ id = src /\ svs2[id] = [svs[src] EXCEPT !.snap_id = next]
       \/ id \in DOMAIN svs \ {src, new} /\ svs2[id] = svs[id]

\* snapshot_subvol: both new ids leave the range of ids to be handed out.
LEMMA SnapshotIds ==
  ASSUME NEW t, NEW src, NEW svs, NEW cur, NEW next, IdsOK(t, svs, cur, next),
         src \in DOMAIN svs, next >= 2, NEW new \in Nat,
         NEW svs2, Snapshotted(svs, svs2, src, new, next)
  PROVE  IdsOK(t, svs2, cur, next - 2)
<1> DEFINE Sv(n) == [snap_id : n + 1 .. ROOT_SNAP, readonly : BOOLEAN, parent_subvol : Nat]
<1>1. next \in 2 .. ROOT_SNAP /\ next - 2 \in 0 .. ROOT_SNAP
  BY SnapshotConstants DEF IdsOK
<1>2. Clean(t, next - 2)
  BY <1>1 DEF IdsOK, Clean
<1>3. src \in Nat /\ svs[src] \in Sv(next)
  BY DEF IdsOK
<1>4. [snap_id |-> next - 1, readonly |-> TRUE, parent_subvol |-> src] \in Sv(next - 2)
  BY <1>1, <1>3, SnapshotConstants
<1>5. [svs[src] EXCEPT !.snap_id = next] \in Sv(next - 2)
  BY <1>1, <1>3, SnapshotConstants
<1>6. \A id \in DOMAIN svs : svs[id] \in Sv(next - 2)
  BY <1>1, SnapshotConstants DEF IdsOK
<1>7. \A id \in DOMAIN svs2 : svs2[id] \in Sv(next - 2)
  <2> HIDE DEF Sv
  <2> QED
    BY <1>4, <1>5, <1>6 DEF Snapshotted
<1>8. cur \in DOMAIN svs2 /\ DOMAIN svs2 \subseteq Nat
  BY DEF Snapshotted, IdsOK
<1> QED
  BY <1>1, <1>2, <1>7, <1>8 DEF IdsOK

\* Every call, commit and crash keeps IdsInv.
LEMMA StepIds == IdsInv /\ [Next]_vars => IdsInv'
<1> SUFFICES ASSUME IdsInv, [Next]_vars PROVE IdsInv'
  OBVIOUS
<1> USE DEF IdsInv
<1>1. ASSUME NEW k \in Keys, NEW v \in Values, Insert(k, v) PROVE IdsInv'
  <2>1. Live(v) \in Entry
    BY DEF Entry
  <2> QED
    BY <1>1, <2>1, WriteIds DEF Insert, WriteEntry, current_snap, metaVars
<1>2. ASSUME NEW k \in Keys, Delete(k) PROVE IdsInv'
  <2>1. Deleted \in Entry /\ Whiteout \in Entry
    BY DEF Entry
  <2>2. PICK e \in Entry : WriteEntry(k, current_snap, e)
    BY <1>2, <2>1 DEF Delete
  <2>3. UNCHANGED <<metaVars, durable>>
    BY <1>2 DEF Delete
  <2> QED
    BY <2>2, <2>3, WriteIds DEF WriteEntry, current_snap, metaVars
<1>3. ASSUME NEW src \in DOMAIN subvols, SnapshotSubvol(src) PROVE IdsInv'
  <2>1. Snapshotted(subvols, subvols', src, next_subvol_id, next_snap_id)
    BY <1>3 DEF SnapshotSubvol, Snapshotted
  <2>2. /\ next_snap_id >= 2
        /\ next_snap_id' = next_snap_id - 2
        /\ next_subvol_id' = next_subvol_id + 1
        /\ UNCHANGED <<tree, logged, current_subvol, durable>>
    BY <1>3 DEF SnapshotSubvol
  <2>3. IdsOK(tree, subvols', current_subvol, next_snap_id - 2)
    BY <2>1, <2>2, SnapshotIds, Zenon
  <2>4. IdsOK(logged, subvols', current_subvol, next_snap_id - 2)
    BY <2>1, <2>2, SnapshotIds, Zenon
  <2> QED
    BY <2>2, <2>3, <2>4
<1>4. ASSUME NEW id \in DOMAIN subvols, SwitchSubvol(id) PROVE IdsInv'
  BY <1>4 DEF SwitchSubvol, IdsOK
<1>5. ASSUME NEW id \in DOMAIN subvols, DeleteSnapshot(id) PROVE IdsInv'
  <2>1. /\ current_subvol # id
        /\ subvols' = Restrict(subvols, DOMAIN subvols \ {id})
        /\ UNCHANGED <<logged, current_subvol, next_snap_id, next_subvol_id, durable>>
        /\ tree' = drop_snapshot_keys(tree, DOMAIN snapshots \ DOMAIN snapshots')
    BY <1>5 DEF DeleteSnapshot, Deletable
  <2>2. /\ DOMAIN subvols' \subseteq DOMAIN subvols
        /\ current_subvol \in DOMAIN subvols'
        /\ \A i \in DOMAIN subvols' : subvols'[i] = subvols[i]
    BY <2>1 DEF Restrict, IdsOK
  <2>3. IdsOK(logged, subvols', current_subvol, next_snap_id)
    BY <2>2 DEF IdsOK
  <2>4. tree' \in Tree /\ Clean(tree', next_snap_id)
    <3>1. tree \in Tree /\ Clean(tree, next_snap_id) /\ next_snap_id \in 0 .. ROOT_SNAP
      BY DEF IdsOK
    <3>2. 1 .. next_snap_id \subseteq SnapId /\ NoEntry \in Entry
      BY <3>1, SnapshotConstants DEF SnapId, Entry
    <3>3. tree' \in Tree
      BY <2>1, <3>1, <3>2 DEF drop_snapshot_keys, Tree
    <3>4. \A k \in Keys : \A s \in SnapId : tree'[k][s] \in {NoEntry, tree[k][s]}
      BY <2>1 DEF drop_snapshot_keys
    <3> QED
      BY <3>1, <3>2, <3>3, <3>4 DEF Clean
  <2>5. IdsOK(tree', subvols', current_subvol, next_snap_id)
    BY <2>2, <2>4 DEF IdsOK
  <2> QED
    BY <2>1, <2>3, <2>5
<1>6. CASE JournalCommit
  BY <1>6 DEF JournalCommit, Now, metaVars
<1>7. CASE Sync
  BY <1>7 DEF Sync, Now, metaVars
<1>8. CASE Crash
  BY <1>8 DEF Crash
<1>9. CASE UNCHANGED vars
  BY <1>9 DEF vars, metaVars
<1> QED
  BY <1>1, <1>2, <1>3, <1>4, <1>5, <1>6, <1>7, <1>8, <1>9 DEF Next

(***************************************************************************)
(* A snap_id that snapshot_subvol may still hand out has no key version,   *)
(* although a crash brings back keys that drop_snapshot_keys had removed   *)
(* and ids that were handed out since the last commit.                     *)
(***************************************************************************)
THEOREM HandedOutClean == Spec => []FreshIdsAreClean
<1>1. IdsInv => FreshIdsAreClean
  BY DEF IdsInv, IdsOK, Clean, FreshIdsAreClean
<1> QED
  BY <1>1, InitIds, StepIds, PTL DEF Spec
-----------------------------------------------------------------------------
(***************************************************************************)
(* Of the metadata in memory, and of the durable metadata: a tree of       *)
(* snapshots in which every subvolume has a leaf of its own and nothing is *)
(* left to sweep.                                                          *)
(***************************************************************************)
MetaOK(snaps, svs, cur, next, nextSub) ==
  /\ next \in 0 .. ROOT_SNAP
  /\ snaps \in Metas(next + 1 .. ROOT_SNAP)
  /\ ROOT_SNAP \in DOMAIN snaps /\ snaps[ROOT_SNAP] = NO_PARENT_SNAP
  /\ \A s \in DOMAIN snaps \ {ROOT_SNAP} : snaps[s] \in DOMAIN snaps /\ snaps[s] > s
  /\ nextSub \in SubvolId
  /\ DOMAIN svs \subseteq 1 .. nextSub - 1
  /\ cur \in DOMAIN svs
  /\ \A id \in DOMAIN svs : /\ svs[id] \in Subvol
                            /\ svs[id].snap_id \in DOMAIN snaps
                            /\ \A s \in DOMAIN snaps : snaps[s] # svs[id].snap_id
  /\ \A i, j \in DOMAIN svs : svs[i].snap_id = svs[j].snap_id => i = j
  /\ Candidates(snaps, svs) = {}

(***************************************************************************)
(* The inductive invariant: the metadata, in memory and durable; the tree  *)
(* that a replay rebuilds has the versions of every live snapshot; and     *)
(* until a crash the tree has no others.                                   *)
(***************************************************************************)
MetaInv ==
  /\ MetaOK(snapshots, subvols, current_subvol, next_snap_id, next_subvol_id)
  /\ MetaOK(durable.snapshots, durable.subvols, durable.current_subvol,
            durable.next_snap_id, durable.next_subvol_id)
  /\ \A k \in Keys : \A s \in DOMAIN snapshots : logged[k][s] = tree[k][s]
  /\ bounds \in Bounds
  /\ commits \in 0 .. bounds.commits
  /\ crashes \in 0 .. bounds.crashes
  /\ call \in {"put", "delete", "reclaim", "reclaim again", "other"}
  /\ DeadKeysDropped

\* The snapshots of MetaOK are metadata of ids that were handed out.
LEMMA MetaFacts ==
  ASSUME NEW snaps, NEW svs, NEW cur, NEW next, NEW nextSub, MetaOK(snaps, svs, cur, next, nextSub)
  PROVE  /\ IsMeta(snaps)
         /\ DOMAIN snaps \in SUBSET (next + 1 .. ROOT_SNAP)
         /\ DOMAIN snaps \in SUBSET SnapId
         /\ snaps \in [DOMAIN snaps -> SnapId \cup {NO_PARENT_SNAP}]
         /\ \A s \in DOMAIN snaps : HasParent(snaps, s) => snaps[s] \in DOMAIN snaps
<1>1. next + 1 .. ROOT_SNAP \in SUBSET SnapId
  BY SnapshotConstants DEF MetaOK, SnapId
<1>2. snaps \in Metas(next + 1 .. ROOT_SNAP)
  BY DEF MetaOK
<1>3. /\ IsMeta(snaps)
      /\ DOMAIN snaps \in SUBSET (next + 1 .. ROOT_SNAP)
      /\ snaps \in [DOMAIN snaps -> SnapId \cup {NO_PARENT_SNAP}]
  BY <1>1, <1>2, MetasFacts
<1>4. \A s \in DOMAIN snaps : HasParent(snaps, s) => snaps[s] \in DOMAIN snaps
  BY DEF MetaOK, HasParent
<1> QED
  BY <1>1, <1>3, <1>4

\* Of the chain of a subvolume: it is in the tree, begins with the snap_id of the
\* subvolume, and has the snap_id of no other subvolume.
ChainOK(A, snaps, svs, id) ==
  /\ A \in SUBSET SnapId /\ A \subseteq DOMAIN snaps
  /\ svs[id].snap_id \in A
  /\ \A s \in A : svs[id].snap_id <= s
  /\ \A other \in DOMAIN svs \ {id} : svs[other].snap_id \notin A

\* Subvolumes are at leaves of their own, so the chain of one avoids the others.
LEMMA HeadChain ==
  ASSUME NEW snaps, NEW svs, NEW cur, NEW next, NEW nextSub,
         MetaOK(snaps, svs, cur, next, nextSub), NEW id \in DOMAIN svs
  PROVE  ChainOK(ancestor_chain(snaps, svs[id].snap_id), snaps, svs, id)
<1> DEFINE head == svs[id].snap_id
           A == ancestor_chain(snaps, head)
<1>1. /\ IsMeta(snaps) /\ DOMAIN snaps \in SUBSET SnapId
      /\ \A s \in DOMAIN snaps : HasParent(snaps, s) => snaps[s] \in DOMAIN snaps
  BY MetaFacts, Zenon
<1>2. head \in SnapId /\ head \in DOMAIN snaps
  BY <1>1 DEF MetaOK
<1> HIDE DEF head
<1>3. /\ A \in SUBSET SnapId /\ head \in A
      /\ \A C \in SUBSET SnapId : head \in C /\ Closed(snaps, C) => A \subseteq C
  BY <1>1, <1>2, ChainIsLeast
<1> HIDE DEF A
<1>4. A \subseteq DOMAIN snaps
  <2>1. Closed(snaps, DOMAIN snaps)
    BY <1>1 DEF Closed
  <2> QED
    BY <1>1, <1>2, <1>3, <2>1
<1>5. \A s \in A : head <= s
  <2> DEFINE C == {s \in SnapId : head <= s}
  <2>1. Closed(snaps, C)
    BY <1>1, <1>2 DEF Closed, HasParent, SnapId, IsMeta
  <2>2. head \in C /\ C \in SUBSET SnapId
    BY <1>2 DEF SnapId
  <2>3. A \subseteq C
    BY <1>3, <2>1, <2>2
  <2> QED
    BY <2>3
<1>6. ASSUME NEW other \in DOMAIN svs \ {id} PROVE svs[other].snap_id \notin A
  <2> DEFINE o == svs[other].snap_id
             C == DOMAIN snaps \ {o}
  <2>1. o # head /\ \A s \in DOMAIN snaps : snaps[s] # o
    BY DEF MetaOK, head
  <2>2. Closed(snaps, C)
    BY <1>1, <2>1 DEF Closed
  <2>3. head \in C /\ C \in SUBSET SnapId
    BY <1>1, <1>2, <2>1
  <2> HIDE DEF C, o
  <2>4. A \subseteq C
    BY <1>3, <2>2, <2>3
  <2> QED
    BY <2>4 DEF C, o
<1> QED
  BY <1>3, <1>4, <1>5, <1>6 DEF head, A, ChainOK

\* The snapshots after snapshot_subvol: two ids below the old one of the source.
Extended(snaps, snaps2, parent, next) ==
  /\ DOMAIN snaps2 = DOMAIN snaps \cup {next, next - 1}
  /\ snaps2 = [s \in DOMAIN snaps2 |-> snaps2[s]]
  /\ snaps2[next] = parent /\ snaps2[next - 1] = parent
  /\ \A s \in DOMAIN snaps \ {next, next - 1} : snaps2[s] = snaps[s]

\* snapshot_subvol keeps the tree.
LEMMA SnapshotMeta ==
  ASSUME NEW snaps, NEW svs, NEW cur, NEW next, NEW nextSub,
         MetaOK(snaps, svs, cur, next, nextSub),
         NEW src \in DOMAIN svs, next >= 2, nextSub < MAX_SUBVOL,
         NEW svs2, Snapshotted(svs, svs2, src, nextSub, next),
         NEW snaps2, Extended(snaps, snaps2, svs[src].snap_id, next)
  PROVE  MetaOK(snaps2, svs2, cur, next - 2, nextSub + 1)
<1> DEFINE parent == svs[src].snap_id
           Lo == (next - 2) + 1 .. ROOT_SNAP
<1>1. /\ DOMAIN snaps \in SUBSET (next + 1 .. ROOT_SNAP)
      /\ DOMAIN snaps \in SUBSET SnapId
      /\ snaps \in [DOMAIN snaps -> SnapId \cup {NO_PARENT_SNAP}]
  BY MetaFacts, Zenon
<1>2. next \in 2 .. ROOT_SNAP /\ next - 2 \in 0 .. ROOT_SNAP /\ ROOT_SNAP \in Nat
  BY SnapshotConstants DEF MetaOK
<1>3. /\ next \notin DOMAIN snaps /\ next - 1 \notin DOMAIN snaps
      /\ next # next - 1 /\ next # NO_PARENT_SNAP /\ next - 1 # NO_PARENT_SNAP
      /\ \A s \in DOMAIN snaps : s > next /\ s > next - 1
  BY <1>1, <1>2 DEF NO_PARENT_SNAP
<1>4. parent \in DOMAIN snaps /\ parent \in SnapId
  BY <1>1 DEF MetaOK
<1>5. /\ DOMAIN snaps2 = DOMAIN snaps \cup {next, next - 1}
      /\ snaps2[next] = parent /\ snaps2[next - 1] = parent
      /\ \A s \in DOMAIN snaps : snaps2[s] = snaps[s]
  BY <1>3 DEF Extended
<1>6. nextSub \notin DOMAIN svs /\ src # nextSub /\ nextSub \in Nat \ {0} /\ DOMAIN svs \subseteq Nat
  BY DEF MetaOK, SubvolId, ROOT_SUBVOL
<1>7. /\ DOMAIN svs2 = DOMAIN svs \cup {nextSub}
      /\ svs2[nextSub] = [snap_id |-> next - 1, readonly |-> TRUE, parent_subvol |-> src]
      /\ svs2[src] = [svs[src] EXCEPT !.snap_id = next]
      /\ \A id \in DOMAIN svs \ {src} : svs2[id] = svs[id]
  BY <1>6 DEF Snapshotted
<1>8. /\ svs2[nextSub].snap_id = next - 1
      /\ svs2[src].snap_id = next
      /\ \A id \in DOMAIN svs \ {src} : svs2[id].snap_id = svs[id].snap_id
  <2>1. svs[src] \in Subvol
    BY DEF MetaOK
  <2> QED
    BY <1>7, <2>1 DEF Subvol
<1> HIDE DEF parent
<1>9. snaps2 \in Metas(Lo)
  <2>1. DOMAIN snaps2 \in SUBSET Lo
    BY <1>1, <1>2, <1>5
  <2>2. \A s \in DOMAIN snaps2 : snaps2[s] \in SnapId \cup {NO_PARENT_SNAP}
    BY <1>1, <1>4, <1>5
  <2>3. snaps2 \in [DOMAIN snaps2 -> SnapId \cup {NO_PARENT_SNAP}]
    BY <2>2 DEF Extended
  <2> HIDE DEF Lo
  <2> QED
    BY <2>1, <2>3 DEF Metas
<1>10. /\ ROOT_SNAP \in DOMAIN snaps2 /\ snaps2[ROOT_SNAP] = NO_PARENT_SNAP
       /\ \A s \in DOMAIN snaps2 \ {ROOT_SNAP} : snaps2[s] \in DOMAIN snaps2 /\ snaps2[s] > s
  <2>1. ROOT_SNAP \in DOMAIN snaps2 /\ snaps2[ROOT_SNAP] = NO_PARENT_SNAP
    BY <1>5 DEF MetaOK
  <2>2. parent > next /\ parent > next - 1
    BY <1>3, <1>4
  <2>3. ASSUME NEW s \in DOMAIN snaps2 \ {ROOT_SNAP}
        PROVE  snaps2[s] \in DOMAIN snaps2 /\ snaps2[s] > s
    <3>1. CASE s \in {next, next - 1}
      BY <1>4, <1>5, <2>2, <3>1
    <3>2. CASE s \in DOMAIN snaps
      BY <1>5, <2>3, <3>2 DEF MetaOK
    <3> QED
      BY <1>5, <3>1, <3>2
  <2> QED
    BY <2>1, <2>3
<1>11. nextSub + 1 \in SubvolId /\ DOMAIN svs2 \subseteq 1 .. (nextSub + 1) - 1 /\ cur \in DOMAIN svs2
  BY <1>7, SnapshotConstants DEF MetaOK, SubvolId, ROOT_SUBVOL
<1>12. ASSUME NEW id \in DOMAIN svs2
       PROVE  /\ svs2[id] \in Subvol
              /\ svs2[id].snap_id \in DOMAIN snaps2
              /\ \A s \in DOMAIN snaps2 : snaps2[s] # svs2[id].snap_id
  <2>1. next \in SnapId /\ next - 1 \in SnapId
    BY <1>2 DEF SnapId
  <2>2. \A s \in DOMAIN snaps2 : snaps2[s] \in DOMAIN snaps \cup {NO_PARENT_SNAP}
    BY <1>4, <1>5 DEF MetaOK
  <2>3. CASE id = nextSub
    <3>1. svs2[id] \in Subvol
      <4>1. src \in Nat
        BY <1>6
      <4>2. [snap_id |-> next - 1, readonly |-> TRUE, parent_subvol |-> src] \in Subvol
        BY <2>1, <4>1 DEF Subvol
      <4> QED
        BY <1>7, <2>3, <4>2
    <3> QED
      BY <1>3, <1>5, <1>8, <2>2, <2>3, <3>1
  <2>4. CASE id = src
    <3>0. svs[src] \in Subvol
      BY DEF MetaOK
    <3>1. svs2[id] \in Subvol
      BY <1>7, <2>1, <2>4, <3>0 DEF Subvol
    <3> QED
      BY <1>3, <1>5, <1>8, <2>2, <2>4, <3>1
  <2>5. CASE id \in DOMAIN svs \ {src}
    <3>1. /\ svs2[id] \in Subvol
          /\ svs2[id].snap_id \in DOMAIN snaps
          /\ \A s \in DOMAIN snaps : snaps[s] # svs2[id].snap_id
      BY <1>7, <2>5 DEF MetaOK
    <3>2. parent # svs2[id].snap_id
      BY <1>7, <2>5 DEF MetaOK, parent
    <3> QED
      BY <1>5, <3>1, <3>2
  <2> QED
    BY <1>7, <2>3, <2>4, <2>5
<1>13. ASSUME NEW i \in DOMAIN svs2, NEW j \in DOMAIN svs2, svs2[i].snap_id = svs2[j].snap_id
       PROVE  i = j
  <2>1. \A id \in DOMAIN svs : svs[id].snap_id \in DOMAIN snaps
    BY DEF MetaOK
  <2>2. \A id \in DOMAIN svs \ {src} : svs2[id].snap_id \in DOMAIN snaps
    BY <1>8, <2>1
  <2>3. CASE i \in DOMAIN svs \ {src} /\ j \in DOMAIN svs \ {src}
    BY <1>8, <1>13, <2>3 DEF MetaOK
  <2>4. \A id \in DOMAIN svs \ {src} : svs2[id].snap_id # next /\ svs2[id].snap_id # next - 1
    BY <1>3, <2>2
  <2>5. \A id \in DOMAIN svs2 : id \in {src, nextSub} \/ id \in DOMAIN svs \ {src}
    BY <1>7
  <2>6. CASE i = src
    BY <1>3, <1>8, <1>13, <2>4, <2>5, <2>6
  <2>7. CASE i = nextSub
    BY <1>3, <1>8, <1>13, <2>4, <2>5, <2>7
  <2>8. CASE i \in DOMAIN svs \ {src} /\ j \in {src, nextSub}
    BY <1>8, <1>13, <2>4, <2>8
  <2> QED
    BY <2>3, <2>5, <2>6, <2>7, <2>8
<1>14. Candidates(snaps2, svs2) = {}
  <2> SUFFICES ASSUME NEW s \in Candidates(snaps2, svs2) PROVE FALSE
    OBVIOUS
  <2>1. /\ s \in DOMAIN snaps2 /\ s # ROOT_SNAP
        /\ \A id \in DOMAIN svs2 : svs2[id].snap_id # s
        /\ \A c \in DOMAIN snaps2 : snaps2[c] # s
    BY DEF Candidates
  <2>2. s \in DOMAIN snaps /\ s # parent
    BY <1>5, <1>7, <1>8, <2>1
  <2>3. \A id \in DOMAIN svs : svs[id].snap_id # s
    BY <1>7, <1>8, <2>1, <2>2 DEF parent
  <2>4. \A c \in DOMAIN snaps : snaps[c] # s
    BY <1>5, <2>1
  <2>5. s \in Candidates(snaps, svs)
    BY <2>1, <2>2, <2>3, <2>4 DEF Candidates
  <2> QED
    BY <2>5 DEF MetaOK
<1> QED
  BY <1>2, <1>9, <1>10, <1>11, <1>12, <1>13, <1>14 DEF MetaOK

\* The metadata after delete_snapshot(id) and its sweep.
Removed(snaps, svs, id, snaps2, svs2) ==
  /\ svs2 = Restrict(svs, DOMAIN svs \ {id})
  /\ snaps2 = sweep_unreferenced_snapshots(
                Restrict(snaps, DOMAIN snaps \ {svs[id].snap_id}), svs2)

\* delete_snapshot keeps the tree, and what it leaves of it is closed under parents.
LEMMA DeleteMeta ==
  ASSUME NEW snaps, NEW svs, NEW cur, NEW next, NEW nextSub,
         MetaOK(snaps, svs, cur, next, nextSub),
         NEW id \in DOMAIN svs, cur # id, svs[id].snap_id # ROOT_SNAP,
         NEW svs2, NEW snaps2, Removed(snaps, svs, id, snaps2, svs2)
  PROVE  /\ MetaOK(snaps2, svs2, cur, next, nextSub)
         /\ DOMAIN snaps2 \subseteq DOMAIN snaps
         /\ \A s \in DOMAIN snaps2 : snaps2[s] = snaps[s]
         /\ Closed(snaps, DOMAIN snaps2)
<1> DEFINE dead == svs[id].snap_id
           S    == DOMAIN snaps \ {dead}
           m    == Restrict(snaps, S)
           Ids  == next + 1 .. ROOT_SNAP
<1>1. /\ DOMAIN snaps \in SUBSET Ids
      /\ DOMAIN snaps \in SUBSET SnapId
      /\ snaps \in [DOMAIN snaps -> SnapId \cup {NO_PARENT_SNAP}]
      /\ \A s \in DOMAIN snaps : HasParent(snaps, s) => snaps[s] \in DOMAIN snaps
  BY MetaFacts, Zenon
<1>2. S \in SUBSET Ids /\ S \in SUBSET SnapId /\ S \subseteq DOMAIN snaps
  BY <1>1
<1>3. \A s \in DOMAIN snaps : snaps[s] # dead
  BY DEF MetaOK
<1>4. dead # ROOT_SNAP /\ dead \in DOMAIN snaps
  BY DEF MetaOK
<1> HIDE DEF S
<1>5. m \in [S -> SnapId \cup {NO_PARENT_SNAP}] /\ DOMAIN m = S /\ \A s \in S : m[s] = snaps[s]
  BY <1>1, <1>2 DEF Restrict
<1>6. snaps2 = sweep_unreferenced_snapshots(m, svs2)
  BY DEF Removed, S
<1> HIDE DEF m
<1>7. snaps2 \in Metas(S) /\ Swept(snaps2, m, svs2) /\ Candidates(snaps2, svs2) = {}
  <2>1. \A s \in S : m[s] = NO_PARENT_SNAP \/ m[s] > s
    BY <1>2, <1>5 DEF MetaOK
  <2> QED
    BY <1>2, <1>5, <1>6, <2>1, SweepResult
<1>8. DOMAIN svs2 = DOMAIN svs \ {id} /\ \A i \in DOMAIN svs2 : svs2[i] = svs[i]
  BY DEF Removed, Restrict
<1>9. DOMAIN snaps2 \subseteq S /\ \A s \in DOMAIN snaps2 : snaps2[s] = snaps[s]
  BY <1>5, <1>7 DEF Swept
<1>10. ROOT_SNAP \in DOMAIN snaps2 /\ snaps2[ROOT_SNAP] = NO_PARENT_SNAP
  <2>1. ROOT_SNAP \in S /\ snaps[ROOT_SNAP] = NO_PARENT_SNAP
    BY <1>4 DEF MetaOK, S
  <2> QED
    BY <1>5, <1>7, <1>9, <2>1 DEF Swept
<1>11. ASSUME NEW s \in DOMAIN snaps2, snaps[s] \in DOMAIN snaps PROVE snaps[s] \in DOMAIN snaps2
  <2>1. s \in S /\ s \in DOMAIN snaps
    BY <1>2, <1>9
  <2>2. snaps[s] \in S
    BY <1>3, <1>11, <2>1 DEF S
  <2> QED
    BY <1>5, <1>7, <2>1, <2>2 DEF Swept
<1>12. \A s \in DOMAIN snaps2 \ {ROOT_SNAP} : snaps2[s] \in DOMAIN snaps2 /\ snaps2[s] > s
  BY <1>2, <1>9, <1>11 DEF MetaOK
<1>13. ASSUME NEW i \in DOMAIN svs2
       PROVE  /\ svs2[i] \in Subvol
              /\ svs2[i].snap_id \in DOMAIN snaps2
              /\ \A s \in DOMAIN snaps2 : snaps2[s] # svs2[i].snap_id
  <2>1. i \in DOMAIN svs /\ i # id /\ svs2[i] = svs[i]
    BY <1>8
  <2>2. svs[i].snap_id \in DOMAIN snaps /\ svs[i].snap_id # dead
    BY <2>1 DEF MetaOK
  <2>3. svs2[i].snap_id \in S
    BY <2>1, <2>2 DEF S
  <2>4. svs2[i].snap_id \in DOMAIN snaps2
    BY <1>5, <1>7, <2>3 DEF Swept
  <2>5. \A s \in DOMAIN snaps2 : snaps2[s] # svs2[i].snap_id
    BY <1>2, <1>9, <2>1 DEF MetaOK
  <2> QED
    BY <2>1, <2>4, <2>5 DEF MetaOK
<1>14. snaps2 \in Metas(Ids)
  <2> HIDE DEF Ids
  <2> QED
    BY <1>2, <1>7 DEF Metas
<1>15. Closed(snaps, DOMAIN snaps2)
  BY <1>1, <1>2, <1>9, <1>11 DEF Closed
<1>16. /\ next \in 0 .. ROOT_SNAP /\ nextSub \in SubvolId
       /\ DOMAIN svs2 \subseteq 1 .. nextSub - 1 /\ cur \in DOMAIN svs2
  BY <1>8 DEF MetaOK
<1>17. \A i, j \in DOMAIN svs2 : svs2[i].snap_id = svs2[j].snap_id => i = j
  BY <1>8 DEF MetaOK
<1>18. MetaOK(snaps2, svs2, cur, next, nextSub)
  BY <1>7, <1>10, <1>12, <1>13, <1>14, <1>16, <1>17 DEF MetaOK
<1> QED
  BY <1>2, <1>9, <1>15, <1>18

\* A fresh image (Fs::create).
LEMMA InitMeta == Init => MetaInv
<1> SUFFICES ASSUME Init PROVE MetaInv
  OBVIOUS
<1> DEFINE Ids == next_snap_id + 1 .. ROOT_SNAP
<1>1. /\ snapshots = [s \in {ROOT_SNAP} |-> NO_PARENT_SNAP]
      /\ subvols = [id \in {ROOT_SUBVOL} |->
                      [snap_id |-> ROOT_SNAP, readonly |-> FALSE, parent_subvol |-> 0]]
      /\ current_subvol = ROOT_SUBVOL /\ next_snap_id = ROOT_SNAP - 1 /\ next_subvol_id = 2
      /\ durable = Now /\ logged = tree /\ commits = 0 /\ crashes = 0
      /\ bounds \in Bounds /\ call = "other"
      /\ \A k \in Keys : \A s \in SnapId : tree[k][s] = NoEntry
  BY DEF Init, ROOT_SUBVOL
<1>2. next_snap_id \in 0 .. ROOT_SNAP /\ ROOT_SNAP \in Ids /\ ROOT_SNAP \in SnapId
  BY <1>1, SnapshotConstants DEF SnapId
<1>3. snapshots \in Metas(Ids)
  <2>1. snapshots \in [{ROOT_SNAP} -> SnapId \cup {NO_PARENT_SNAP}] /\ {ROOT_SNAP} \in SUBSET Ids
    BY <1>1, <1>2
  <2> HIDE DEF Ids
  <2> QED
    BY <2>1 DEF Metas
<1>4. next_subvol_id \in SubvolId /\ DOMAIN subvols \subseteq 1 .. next_subvol_id - 1
  BY <1>1, SnapshotConstants DEF SubvolId, ROOT_SUBVOL
<1>5. ROOT_SNAP # NO_PARENT_SNAP
  BY SnapshotConstants DEF NO_PARENT_SNAP
<1>6. ASSUME NEW id \in DOMAIN subvols
      PROVE  /\ subvols[id] \in Subvol
             /\ subvols[id].snap_id \in DOMAIN snapshots
             /\ \A s \in DOMAIN snapshots : snapshots[s] # subvols[id].snap_id
  BY <1>1, <1>2, <1>5 DEF Subvol
<1>7. Candidates(snapshots, subvols) = {}
  BY <1>1 DEF Candidates
<1>8. MetaOK(snapshots, subvols, current_subvol, next_snap_id, next_subvol_id)
  BY <1>1, <1>2, <1>3, <1>4, <1>6, <1>7 DEF MetaOK
<1>9. MetaOK(durable.snapshots, durable.subvols, durable.current_subvol,
             durable.next_snap_id, durable.next_subvol_id)
  BY <1>1, <1>8 DEF Now
<1>10. commits \in 0 .. bounds.commits /\ crashes \in 0 .. bounds.crashes
  BY <1>1, SnapshotConstants
<1> QED
  BY <1>1, <1>8, <1>9, <1>10 DEF MetaInv, DeadKeysDropped

\* A write at the current snap_id (insert_at, delete_at) is to a live snapshot.
LEMMA WriteMeta ==
  ASSUME IdsInv, MetaInv, NEW k \in Keys, NEW e \in Entry, WriteEntry(k, current_snap, e),
         UNCHANGED <<metaVars, durable, commits, crashes, bounds>>, call' \in {"put", "delete"}
  PROVE  MetaInv'
<1>1. current_snap \in DOMAIN snapshots /\ current_snap \in SnapId
  BY DEF MetaInv, MetaOK, current_snap, Subvol
<1>2. tree \in Tree /\ logged \in Tree
  BY DEF IdsInv, IdsOK
<1>3. \A j \in Keys : \A s \in SnapId :
        /\ tree'[j][s] = IF j = k /\ s = current_snap THEN e ELSE tree[j][s]
        /\ logged'[j][s] = IF j = k /\ s = current_snap THEN e ELSE logged[j][s]
  BY <1>1, <1>2 DEF WriteEntry, Tree
<1>4. DOMAIN snapshots \in SUBSET SnapId
  BY MetaFacts, Zenon DEF MetaInv
<1>5. UNCHANGED <<snapshots, subvols, current_subvol, next_snap_id, next_subvol_id, crashes>>
  BY DEF metaVars
<1>6. \A j \in Keys : \A s \in DOMAIN snapshots : logged'[j][s] = tree'[j][s]
  <2> SUFFICES ASSUME NEW j \in Keys, NEW s \in DOMAIN snapshots PROVE logged'[j][s] = tree'[j][s]
    OBVIOUS
  <2>1. logged[j][s] = tree[j][s]
    BY DEF MetaInv
  <2> QED
    BY <1>3, <1>4, <2>1
<1>7. DeadKeysDropped'
  <2> SUFFICES ASSUME crashes = 0, NEW j \in Keys, NEW s \in SnapId \ DOMAIN snapshots
               PROVE  tree'[j][s] = NoEntry
    BY <1>5 DEF DeadKeysDropped
  <2>1. tree'[j][s] = tree[j][s]
    BY <1>1, <1>3
  <2> QED
    BY <2>1 DEF MetaInv, DeadKeysDropped
<1> QED
  BY <1>5, <1>6, <1>7 DEF MetaInv

\* Every call, commit and crash keeps MetaInv.
LEMMA StepMeta == IdsInv /\ MetaInv /\ [Next]_vars => MetaInv'
<1> SUFFICES ASSUME IdsInv, MetaInv, [Next]_vars PROVE MetaInv'
  OBVIOUS
<1>0. bounds.commits \in Nat /\ bounds.crashes \in Nat
  <2>1. bounds \in [snapshots : Nat, commits : Nat, crashes : Nat]
    BY SnapshotConstants DEF MetaInv
  <2> QED
    BY <2>1
<1>1. ASSUME NEW k \in Keys, NEW v \in Values, Insert(k, v) PROVE MetaInv'
  <2>1. Live(v) \in Entry
    BY DEF Entry
  <2>2. WriteEntry(k, current_snap, Live(v)) /\ call' \in {"put", "delete"}
        /\ UNCHANGED <<metaVars, durable, commits, crashes, bounds>>
    BY <1>1 DEF Insert
  <2> QED
    BY <2>1, <2>2, WriteMeta
<1>2. ASSUME NEW k \in Keys, Delete(k) PROVE MetaInv'
  <2>1. Deleted \in Entry /\ Whiteout \in Entry
    BY DEF Entry
  <2>2. PICK e \in Entry : WriteEntry(k, current_snap, e)
    BY <1>2, <2>1 DEF Delete
  <2>3. call' \in {"put", "delete"} /\ UNCHANGED <<metaVars, durable, commits, crashes, bounds>>
    BY <1>2 DEF Delete
  <2> QED
    BY <2>2, <2>3, WriteMeta
<1>3. ASSUME NEW src \in DOMAIN subvols, SnapshotSubvol(src) PROVE MetaInv'
  <2>1. Snapshotted(subvols, subvols', src, next_subvol_id, next_snap_id)
    BY <1>3 DEF SnapshotSubvol, Snapshotted
  <2>2. Extended(snapshots, snapshots', subvols[src].snap_id, next_snap_id)
    BY <1>3 DEF SnapshotSubvol, Extended
  <2>3. /\ next_snap_id >= 2 /\ next_subvol_id < MAX_SUBVOL
        /\ next_snap_id' = next_snap_id - 2
        /\ next_subvol_id' = next_subvol_id + 1
        /\ UNCHANGED <<tree, logged, current_subvol, durable, commits, crashes, bounds>>
        /\ call' = "other"
    BY <1>3 DEF SnapshotSubvol
  <2>4. MetaOK(snapshots, subvols, current_subvol, next_snap_id, next_subvol_id)
    BY DEF MetaInv
  <2>5. MetaOK(snapshots', subvols', current_subvol, next_snap_id - 2, next_subvol_id + 1)
    BY <2>1, <2>2, <2>3, <2>4, SnapshotMeta, Zenon
  <2>6. DOMAIN snapshots' = DOMAIN snapshots \cup {next_snap_id, next_snap_id - 1}
    BY <2>2 DEF Extended
  <2>7. \A k \in Keys : \A s \in {next_snap_id, next_snap_id - 1} :
          tree[k][s] = NoEntry /\ logged[k][s] = NoEntry
    <3>1. Clean(tree, next_snap_id) /\ Clean(logged, next_snap_id) /\ next_snap_id \in 0 .. ROOT_SNAP
      BY DEF IdsInv, IdsOK
    <3>2. next_snap_id \in 1 .. next_snap_id /\ next_snap_id - 1 \in 1 .. next_snap_id
      BY <2>3, <3>1
    <3> QED
      BY <3>1, <3>2 DEF Clean
  <2>8. \A k \in Keys : \A s \in DOMAIN snapshots' : logged'[k][s] = tree'[k][s]
    BY <2>3, <2>6, <2>7 DEF MetaInv
  <2>9. DeadKeysDropped'
    BY <2>3, <2>6 DEF MetaInv, DeadKeysDropped
  <2> QED
    BY <2>3, <2>5, <2>8, <2>9 DEF MetaInv
<1>4. ASSUME NEW id \in DOMAIN subvols, SwitchSubvol(id) PROVE MetaInv'
  <2>1. /\ current_subvol' = id /\ call' = "other"
        /\ UNCHANGED <<tree, logged, snapshots, subvols, next_snap_id, next_subvol_id,
                       durable, commits, crashes, bounds>>
    BY <1>4 DEF SwitchSubvol
  <2>2. MetaOK(snapshots, subvols, id, next_snap_id, next_subvol_id)
    BY DEF MetaInv, MetaOK
  <2> QED
    BY <2>1, <2>2 DEF MetaInv, DeadKeysDropped
<1>5. ASSUME NEW id \in DOMAIN subvols, DeleteSnapshot(id) PROVE MetaInv'
  <2>1. /\ current_subvol # id /\ subvols[id].snap_id # ROOT_SNAP
        /\ Removed(snapshots, subvols, id, snapshots', subvols')
        /\ tree' = drop_snapshot_keys(tree, DOMAIN snapshots \ DOMAIN snapshots')
        /\ UNCHANGED <<logged, current_subvol, next_snap_id, next_subvol_id,
                       durable, commits, crashes, bounds>>
        /\ call' = "other"
    BY <1>5 DEF DeleteSnapshot, Deletable, Removed
  <2>2. MetaOK(snapshots, subvols, current_subvol, next_snap_id, next_subvol_id)
    BY DEF MetaInv
  <2>3. /\ MetaOK(snapshots', subvols', current_subvol, next_snap_id, next_subvol_id)
        /\ DOMAIN snapshots' \subseteq DOMAIN snapshots
    BY <2>1, <2>2, DeleteMeta, Zenon
  <2>4. DOMAIN snapshots \in SUBSET SnapId
    BY <2>2, MetaFacts, Zenon
  <2>5. \A k \in Keys : \A s \in SnapId :
          tree'[k][s] = IF s \in DOMAIN snapshots \ DOMAIN snapshots' THEN NoEntry ELSE tree[k][s]
    BY <2>1 DEF drop_snapshot_keys
  <2>6. \A k \in Keys : \A s \in DOMAIN snapshots' : logged'[k][s] = tree'[k][s]
    <3> SUFFICES ASSUME NEW k \in Keys, NEW s \in DOMAIN snapshots'
                 PROVE  logged'[k][s] = tree'[k][s]
      OBVIOUS
    <3>1. tree'[k][s] = tree[k][s] /\ s \in DOMAIN snapshots
      BY <2>3, <2>4, <2>5
    <3>2. logged'[k][s] = tree[k][s]
      BY <2>1, <3>1 DEF MetaInv
    <3> QED
      BY <3>1, <3>2
  <2>7. DeadKeysDropped'
    BY <2>1, <2>5 DEF MetaInv, DeadKeysDropped
  <2> QED
    BY <2>1, <2>3, <2>6, <2>7 DEF MetaInv
<1>6. CASE JournalCommit
  <2>1. /\ durable' = Now /\ commits < bounds.commits /\ commits' = commits + 1 /\ call' = "other"
        /\ UNCHANGED <<tree, logged, snapshots, subvols, current_subvol, next_snap_id,
                       next_subvol_id, crashes, bounds>>
    BY <1>6 DEF JournalCommit, metaVars
  <2>2. commits' \in 0 .. bounds.commits
    <3>1. commits < bounds.commits /\ commits' = commits + 1 /\ commits \in 0 .. bounds.commits
      BY <2>1 DEF MetaInv
    <3> QED
      BY <1>0, <3>1
  <2> QED
    BY <2>1, <2>2 DEF MetaInv, Now, DeadKeysDropped
<1>7. CASE Sync
  <2>1. /\ durable' = [Now EXCEPT !.tree = tree] /\ logged' = tree
        /\ commits < bounds.commits /\ commits' = commits + 1 /\ call' = "other"
        /\ UNCHANGED <<tree, snapshots, subvols, current_subvol, next_snap_id,
                       next_subvol_id, crashes, bounds>>
    BY <1>7 DEF Sync, metaVars
  <2>2. commits' \in 0 .. bounds.commits
    <3>1. commits < bounds.commits /\ commits' = commits + 1 /\ commits \in 0 .. bounds.commits
      BY <2>1 DEF MetaInv
    <3> QED
      BY <1>0, <3>1
  <2> QED
    BY <2>1, <2>2 DEF MetaInv, Now, DeadKeysDropped
<1>8. CASE Crash
  <2>1. /\ crashes < bounds.crashes /\ crashes' = crashes + 1 /\ call' = "other"
        /\ tree' = logged'
        /\ snapshots' = durable.snapshots
        /\ subvols' = durable.subvols
        /\ current_subvol' = durable.current_subvol
        /\ next_snap_id' = durable.next_snap_id
        /\ next_subvol_id' = durable.next_subvol_id
        /\ UNCHANGED <<durable, commits, bounds>>
    BY <1>8 DEF Crash
  <2>2. crashes' \in 0 .. bounds.crashes /\ crashes' # 0
    <3>1. crashes < bounds.crashes /\ crashes' = crashes + 1 /\ crashes \in 0 .. bounds.crashes
      BY <2>1 DEF MetaInv
    <3> QED
      BY <1>0, <3>1
  <2> QED
    BY <2>1, <2>2 DEF MetaInv, DeadKeysDropped
<1>9. CASE UNCHANGED vars
  BY <1>9 DEF vars, metaVars, MetaInv, DeadKeysDropped
<1> QED
  BY <1>1, <1>2, <1>3, <1>4, <1>5, <1>6, <1>7, <1>8, <1>9 DEF Next

\* Both invariants together.
LEMMA SnapshotFacts == Spec => [](IdsInv /\ MetaInv)
<1>1. Init => IdsInv /\ MetaInv
  BY InitIds, InitMeta
<1>2. (IdsInv /\ MetaInv) /\ [Next]_vars => (IdsInv /\ MetaInv)'
  BY StepIds, StepMeta
<1> QED
  BY <1>1, <1>2, PTL DEF Spec

(***************************************************************************)
(* The state of the snapshot layer is well formed: snap_ids and SubvolIds  *)
(* in their u32 ranges, the counters included (snapshot_subvol refuses     *)
(* before they wrap).                                                      *)
(***************************************************************************)
THEOREM SnapshotTypes == Spec => []TypeOK
<1>1. IdsInv /\ MetaInv => TypeOK
  <2> SUFFICES ASSUME IdsInv, MetaInv PROVE TypeOK
    OBVIOUS
  <2>1. MetaOK(snapshots, subvols, current_subvol, next_snap_id, next_subvol_id)
    BY DEF MetaInv
  <2>2. IsMeta(snapshots)
    BY <2>1, MetaFacts, Zenon
  <2>3. DOMAIN subvols \subseteq SubvolId
    <3>1. next_subvol_id \in 1 .. MAX_SUBVOL /\ DOMAIN subvols \subseteq 1 .. next_subvol_id - 1
      BY <2>1 DEF MetaOK, SubvolId, ROOT_SUBVOL
    <3>2. 1 .. next_subvol_id - 1 \subseteq 1 .. MAX_SUBVOL
      BY <3>1, SnapshotConstants
    <3> QED
      BY <3>1, <3>2 DEF SubvolId, ROOT_SUBVOL
  <2> QED
    BY <2>1, <2>2, <2>3 DEF IdsInv, IdsOK, MetaInv, MetaOK, IsMeta, TypeOK
<1> QED
  BY <1>1, SnapshotFacts, PTL

(***************************************************************************)
(* The snapshot tree stays a tree (snapshot_subvol, delete_snapshot, open),*)
(* and the sweep of delete_snapshot leaves no snapshot that no subvolume   *)
(* reads through.                                                          *)
(***************************************************************************)
THEOREM TreeStaysTree == Spec => []SnapshotTreeOK
<1>1. IdsInv /\ MetaInv => SnapshotTreeOK
  <2> SUFFICES ASSUME MetaInv PROVE SnapshotTreeOK
    OBVIOUS
  <2>1. MetaOK(snapshots, subvols, current_subvol, next_snap_id, next_subvol_id)
    BY DEF MetaInv
  <2>2. IsMeta(snapshots) /\ DOMAIN snapshots \in SUBSET SnapId
    BY <2>1, MetaFacts, Zenon
  <2>3. IsInjective([id \in DOMAIN subvols |-> subvols[id].snap_id])
    BY <2>1 DEF MetaOK, IsInjective
  <2> DEFINE Read(s) == \E id \in DOMAIN subvols : is_ancestor(s, subvols[id].snap_id)
             Lost == {s \in DOMAIN snapshots \ {ROOT_SNAP} : ~ Read(s)}
  <2>4. Lost = {}
    <3> SUFFICES ASSUME Lost # {} PROVE FALSE
      OBVIOUS
    <3>1. Lost \in SUBSET Nat
      BY <2>2 DEF SnapId
    <3>2. PICK b \in Lost : \A c \in Lost : b <= c
      <4> HIDE DEF Lost
      <4> QED
        BY <3>1, LeastNumber
    <3>3. b \in DOMAIN snapshots /\ b # ROOT_SNAP /\ b \in SnapId /\ ~ Read(b)
      BY <2>2, <3>2
    <3>4. b \notin Candidates(snapshots, subvols)
      BY <2>1 DEF MetaOK
    <3>5. \A id \in DOMAIN subvols : /\ subvols[id].snap_id \in SnapId
                                     /\ is_ancestor(subvols[id].snap_id, subvols[id].snap_id)
                                     /\ Closed(snapshots, ancestor_chain(snapshots, subvols[id].snap_id))
      <4> TAKE id \in DOMAIN subvols
      <4>1. subvols[id].snap_id \in SnapId
        BY <2>1, <2>2 DEF MetaOK
      <4> QED
        BY <2>2, <4>1, ChainIsLeast DEF is_ancestor
    <3>6. CASE \E id \in DOMAIN subvols : subvols[id].snap_id = b
      BY <3>3, <3>5, <3>6
    <3>7. CASE \E c \in DOMAIN snapshots : snapshots[c] = b
      <4>1. PICK c \in DOMAIN snapshots : snapshots[c] = b
        BY <3>7
      <4>2. c # ROOT_SNAP
        BY <2>1, <3>3, <4>1 DEF MetaOK, SnapId, NO_PARENT_SNAP
      <4>3. b > c /\ c \in SnapId /\ b # NO_PARENT_SNAP
        BY <2>1, <2>2, <3>3, <4>1, <4>2 DEF MetaOK, SnapId, NO_PARENT_SNAP
      <4>4. c \notin Lost
        BY <3>2, <3>3, <4>3 DEF SnapId
      <4>5. PICK id \in DOMAIN subvols : is_ancestor(c, subvols[id].snap_id)
        BY <4>2, <4>4
      <4>6. HasParent(snapshots, c)
        BY <4>1, <4>3 DEF HasParent
      <4>7. is_ancestor(b, subvols[id].snap_id)
        BY <3>5, <4>1, <4>5, <4>6 DEF Closed, is_ancestor
      <4> QED
        BY <3>3, <4>7
    <3> QED
      BY <3>3, <3>4, <3>6, <3>7 DEF Candidates
  <2>5. \A s \in DOMAIN snapshots \ {ROOT_SNAP} : Read(s)
    BY <2>4
  <2> QED
    BY <2>1, <2>3, <2>5 DEF MetaOK, SnapshotTreeOK
<1> QED
  BY <1>1, SnapshotFacts, PTL

(***************************************************************************)
(* delete_snapshot leaves no key version behind: until a crash, every      *)
(* version in the tree belongs to a live snapshot.                         *)
(***************************************************************************)
THEOREM NoDeadKeys == Spec => []DeadKeysDropped
<1>1. IdsInv /\ MetaInv => DeadKeysDropped
  BY DEF MetaInv
<1> QED
  BY <1>1, SnapshotFacts, PTL
-----------------------------------------------------------------------------
(***************************************************************************)
(* What the subvolumes show.                                               *)
(***************************************************************************)
Seen(t, snaps, svs, id, k) == find_visible(t, k, ancestor_chain(snaps, svs[id].snap_id)).value

\* The maps of the subvolumes, entry by entry.
LEMMA ViewsAre ==
  ASSUME NEW t, NEW snaps, NEW svs
  PROVE  /\ Views(t, snaps, svs) = [id \in DOMAIN svs |-> [k \in Keys |-> Seen(t, snaps, svs, id, k)]]
         /\ DOMAIN Views(t, snaps, svs) = DOMAIN svs
         /\ \A id \in DOMAIN svs :
              Views(t, snaps, svs)[id] = [k \in Keys |-> Seen(t, snaps, svs, id, k)]
         /\ \A id \in DOMAIN svs : \A k \in Keys :
              Views(t, snaps, svs)[id][k] = Seen(t, snaps, svs, id, k)
BY DEF Views, View, Seen

\* Two trees with the same versions at the snap_ids of S.
Agree(t, t2, S) == \A k \in Keys : \A s \in S : t2[k][s] = t[k][s]

\* Only the versions of live snapshots show.
LEMMA SameViews ==
  ASSUME NEW snaps, NEW svs, NEW cur, NEW next, NEW nextSub,
         MetaOK(snaps, svs, cur, next, nextSub), NEW t, NEW t2, Agree(t, t2, DOMAIN snaps)
  PROVE  Views(t2, snaps, svs) = Views(t, snaps, svs)
<1>1. ASSUME NEW id \in DOMAIN svs, NEW k \in Keys
      PROVE  Seen(t2, snaps, svs, id, k) = Seen(t, snaps, svs, id, k)
  <2> DEFINE A == ancestor_chain(snaps, svs[id].snap_id)
  <2>0. ChainOK(A, snaps, svs, id)
    BY HeadChain, Zenon
  <2> HIDE DEF A
  <2>1. A \in SUBSET SnapId /\ A \subseteq DOMAIN snaps
    BY <2>0 DEF ChainOK
  <2>2. SameOn(t, t2, k, A)
    BY <2>1 DEF Agree, SameOn
  <2>3. SameShown(t, t2, k, A)
    BY <2>1, <2>2, SameVisible
  <2> QED
    BY <2>3 DEF Seen, A, SameShown
<1> QED
  BY <1>1, ViewsAre

\* One entry of the tree is written.
Written(t, t2, k, snap, e) ==
  \A j \in Keys : \A s \in SnapId : t2[j][s] = IF j = k /\ s = snap THEN e ELSE t[j][s]

Shown(e) == IF e.kind = "Live" THEN e.value ELSE None

Updated(views, views2, id, k, v) == views2 = [views EXCEPT ![id][k] = v]

\* A write at the snap_id of a subvolume shows in that subvolume, and there only.
LEMMA WriteView ==
  ASSUME NEW snaps, NEW svs, NEW cur, NEW next, NEW nextSub,
         MetaOK(snaps, svs, cur, next, nextSub), NEW t, NEW t2,
         NEW k \in Keys, NEW e \in Entry \ {NoEntry}, Written(t, t2, k, svs[cur].snap_id, e)
  PROVE  Updated(Views(t, snaps, svs), Views(t2, snaps, svs), cur, k, Shown(e))
<1> DEFINE head == svs[cur].snap_id
<1>1. cur \in DOMAIN svs /\ head \in SnapId
  BY DEF MetaOK, Subvol
<1> HIDE DEF head
<1>2. \A j \in Keys : \A s \in SnapId :
        t2[j][s] = IF j = k /\ s = head THEN e ELSE t[j][s]
  BY DEF head, Written
<1>3. Seen(t2, snaps, svs, cur, k) = Shown(e)
  <2> DEFINE A == ancestor_chain(snaps, head)
  <2>0. ChainOK(A, snaps, svs, cur)
    BY <1>1, HeadChain, Zenon DEF head
  <2> HIDE DEF A
  <2>1. A \in SUBSET SnapId /\ head \in A /\ \A s \in A : head <= s
    BY <2>0 DEF ChainOK, head
  <2>2. t2[k][head] = e
    BY <1>1, <1>2
  <2>3. find_visible(t2, k, A) = IF e.kind = "Live" THEN e ELSE NoEntry
    BY <2>1, <2>2, HeadDecides
  <2>4. find_visible(t2, k, A).value = Shown(e)
    BY <2>3 DEF NoEntry, Shown
  <2> QED
    BY <2>4 DEF Seen, A, head
<1>4. ASSUME NEW id \in DOMAIN svs, NEW j \in Keys, ~ (id = cur /\ j = k)
      PROVE  Seen(t2, snaps, svs, id, j) = Seen(t, snaps, svs, id, j)
  <2> DEFINE A == ancestor_chain(snaps, svs[id].snap_id)
  <2>0. ChainOK(A, snaps, svs, id)
    BY HeadChain, Zenon
  <2> HIDE DEF A
  <2>1. A \in SUBSET SnapId /\ \A other \in DOMAIN svs \ {id} : svs[other].snap_id \notin A
    BY <2>0 DEF ChainOK
  <2>2. j = k => head \notin A
    BY <1>1, <1>4, <2>1 DEF head
  <2>3. SameOn(t, t2, j, A)
    BY <1>2, <2>1, <2>2 DEF SameOn
  <2>4. A \in SUBSET SnapId
    BY <2>1
  <2>5. SameShown(t, t2, j, A)
    BY <2>3, <2>4, SameVisible
  <2> QED
    BY <2>5 DEF Seen, A, SameShown
<1> DEFINE W(id, j) == IF id = cur /\ j = k THEN Shown(e) ELSE Seen(t, snaps, svs, id, j)
<1>5. Views(t2, snaps, svs) = [id \in DOMAIN svs |-> [j \in Keys |-> W(id, j)]]
  <2>1. \A id \in DOMAIN svs : \A j \in Keys : Seen(t2, snaps, svs, id, j) = W(id, j)
    BY <1>3, <1>4
  <2> HIDE DEF W
  <2>2. \A id \in DOMAIN svs :
          [j \in Keys |-> Seen(t2, snaps, svs, id, j)] = [j \in Keys |-> W(id, j)]
    BY <2>1
  <2> QED
    BY <2>2, ViewsAre
<1>6. [Views(t, snaps, svs) EXCEPT ![cur][k] = Shown(e)]
      = [id \in DOMAIN svs |-> [j \in Keys |-> W(id, j)]]
  BY <1>1, ViewsAre
<1> QED
  BY <1>5, <1>6 DEF Updated

Copied(views, views2, src, new) ==
  views2 = [id \in DOMAIN views \cup {new} |-> IF id = new THEN views[src] ELSE views[id]]

\* snapshot_subvol copies a map.
LEMMA SnapshotView ==
  ASSUME NEW snaps, NEW svs, NEW cur, NEW next, NEW nextSub,
         MetaOK(snaps, svs, cur, next, nextSub),
         NEW src \in DOMAIN svs, next >= 2, nextSub < MAX_SUBVOL,
         NEW svs2, Snapshotted(svs, svs2, src, nextSub, next),
         NEW snaps2, Extended(snaps, snaps2, svs[src].snap_id, next),
         NEW t, Clean(t, next)
  PROVE  /\ nextSub \notin DOMAIN svs
         /\ Copied(Views(t, snaps, svs), Views(t, snaps2, svs2), src, nextSub)
<1> DEFINE parent == svs[src].snap_id
           A == ancestor_chain(snaps, parent)
<1>1. /\ IsMeta(snaps) /\ DOMAIN snaps \in SUBSET (next + 1 .. ROOT_SNAP)
      /\ DOMAIN snaps \in SUBSET SnapId
      /\ \A s \in DOMAIN snaps : HasParent(snaps, s) => snaps[s] \in DOMAIN snaps
  BY MetaFacts, Zenon
<1>2. next \in 2 .. ROOT_SNAP
  <2>1. next \in 0 .. ROOT_SNAP
    BY DEF MetaOK
  <2> QED
    BY <2>1, SnapshotConstants
<1>3. /\ next \notin DOMAIN snaps /\ next - 1 \notin DOMAIN snaps /\ next # next - 1
      /\ next \in SnapId /\ next - 1 \in SnapId
      /\ \A s \in DOMAIN snaps : s > next /\ s > next - 1 /\ s # NO_PARENT_SNAP
      /\ next \in 1 .. next /\ next - 1 \in 1 .. next
  <2>1. \A s \in DOMAIN snaps : s > next /\ s > next - 1 /\ s # NO_PARENT_SNAP
    BY <1>1, <1>2 DEF NO_PARENT_SNAP
  <2>2. next \notin DOMAIN snaps /\ next - 1 \notin DOMAIN snaps /\ next # next - 1
    BY <1>2, <2>1
  <2> QED
    BY <1>2, <2>1, <2>2, SnapshotConstants DEF SnapId
<1>4. parent \in DOMAIN snaps
  BY DEF MetaOK
<1>5. /\ DOMAIN snaps2 = DOMAIN snaps \cup {next, next - 1}
      /\ snaps2[next] = parent /\ snaps2[next - 1] = parent
      /\ \A s \in DOMAIN snaps : snaps2[s] = snaps[s]
  BY <1>3 DEF Extended
<1> HIDE DEF parent
<1>6. IsMeta(snaps2)
  BY <1>1, <1>3, <1>4, <1>5 DEF IsMeta
<1>7. ASSUME NEW s \in DOMAIN snaps PROVE ancestor_chain(snaps2, s) = ancestor_chain(snaps, s)
  <2>1. Closed(snaps, DOMAIN snaps)
    BY <1>1 DEF Closed
  <2>2. \A c \in DOMAIN snaps : /\ HasParent(snaps, c) <=> HasParent(snaps2, c)
                                /\ HasParent(snaps, c) => snaps2[c] = snaps[c]
    BY <1>5 DEF HasParent
  <2> QED
    BY <1>1, <1>6, <2>1, <2>2, SameChain
<1>8. ASSUME NEW s \in {next, next - 1} PROVE ancestor_chain(snaps2, s) = {s} \cup A
  <2>1. HasParent(snaps2, s) /\ snaps2[s] = parent /\ s \in SnapId /\ parent \in SnapId
    BY <1>1, <1>3, <1>4, <1>5 DEF HasParent
  <2>2. ancestor_chain(snaps2, s) = {s} \cup ancestor_chain(snaps2, snaps2[s])
    BY <1>6, <2>1, ChainEquation
  <2> QED
    BY <1>4, <1>7, <2>1, <2>2
<1>9. nextSub \notin DOMAIN svs /\ src # nextSub
  <2>1. DOMAIN svs \subseteq 1 .. nextSub - 1 /\ nextSub \in Nat
    BY DEF MetaOK, SubvolId, ROOT_SUBVOL
  <2> QED
    BY <2>1
<1>10. /\ DOMAIN svs2 = DOMAIN svs \cup {nextSub}
       /\ svs2[nextSub].snap_id = next - 1
       /\ svs2[src].snap_id = next
       /\ \A id \in DOMAIN svs \ {src} : svs2[id] = svs[id]
  <2>1. svs[src] \in Subvol
    BY DEF MetaOK
  <2>2. /\ DOMAIN svs2 = DOMAIN svs \cup {nextSub}
        /\ svs2[nextSub] = [snap_id |-> next - 1, readonly |-> TRUE, parent_subvol |-> src]
        /\ svs2[src] = [svs[src] EXCEPT !.snap_id = next]
        /\ \A id \in DOMAIN svs \ {src} : svs2[id] = svs[id]
    BY <1>9 DEF Snapshotted
  <2> QED
    BY <2>1, <2>2 DEF Subvol
<1>11. ASSUME NEW k \in Keys, NEW s \in {next, next - 1}
       PROVE  find_visible(t, k, {s} \cup A) = find_visible(t, k, A)
  <2>1. t[k][s] = NoEntry
    BY <1>3 DEF Clean
  <2> HIDE DEF A
  <2>2. Versions(t, k, {s} \cup A) = Versions(t, k, A)
    BY <2>1 DEF Versions
  <2> QED
    BY <2>2 DEF find_visible
<1>12. ASSUME NEW k \in Keys
       PROVE  /\ Seen(t, snaps2, svs2, nextSub, k) = Seen(t, snaps, svs, src, k)
              /\ Seen(t, snaps2, svs2, src, k) = Seen(t, snaps, svs, src, k)
  BY <1>8, <1>10, <1>11 DEF Seen, parent
<1>13. ASSUME NEW k \in Keys, NEW id \in DOMAIN svs \ {src}
       PROVE  Seen(t, snaps2, svs2, id, k) = Seen(t, snaps, svs, id, k)
  <2>1. svs[id].snap_id \in DOMAIN snaps
    BY DEF MetaOK
  <2> QED
    BY <1>7, <1>10, <2>1 DEF Seen
<1> DEFINE W(id) == [k \in Keys |-> IF id = nextSub THEN Seen(t, snaps, svs, src, k)
                                                    ELSE Seen(t, snaps, svs, id, k)]
<1>14. Views(t, snaps2, svs2) = [id \in DOMAIN svs \cup {nextSub} |-> W(id)]
  <2>1. \A id \in DOMAIN svs \cup {nextSub} :
          [k \in Keys |-> Seen(t, snaps2, svs2, id, k)] = W(id)
    BY <1>9, <1>12, <1>13
  <2> HIDE DEF W
  <2>2. Views(t, snaps2, svs2)
        = [id \in DOMAIN svs2 |-> [k \in Keys |-> Seen(t, snaps2, svs2, id, k)]]
    BY DEF Views, View, Seen
  <2> QED
    BY <1>10, <2>1, <2>2
<1>15. ASSUME NEW id \in DOMAIN svs \cup {nextSub}
       PROVE  W(id) = IF id = nextSub THEN Views(t, snaps, svs)[src] ELSE Views(t, snaps, svs)[id]
  BY <1>9, ViewsAre
<1> HIDE DEF W
<1> QED
  BY <1>9, <1>14, <1>15, ViewsAre DEF Copied

Dropped(views, views2, id) == views2 = Restrict(views, DOMAIN views \ {id})

\* delete_snapshot takes the map of one subvolume away.
LEMMA DeleteView ==
  ASSUME NEW snaps, NEW svs, NEW cur, NEW next, NEW nextSub,
         MetaOK(snaps, svs, cur, next, nextSub),
         NEW id \in DOMAIN svs, cur # id, svs[id].snap_id # ROOT_SNAP,
         NEW svs2, NEW snaps2, Removed(snaps, svs, id, snaps2, svs2),
         NEW t, NEW t2, Agree(t, t2, DOMAIN snaps2)
  PROVE  Dropped(Views(t, snaps, svs), Views(t2, snaps2, svs2), id)
<1>1. /\ MetaOK(snaps2, svs2, cur, next, nextSub)
      /\ DOMAIN snaps2 \subseteq DOMAIN snaps
      /\ \A s \in DOMAIN snaps2 : snaps2[s] = snaps[s]
      /\ Closed(snaps, DOMAIN snaps2)
  BY DeleteMeta, Zenon
<1>2. IsMeta(snaps) /\ IsMeta(snaps2) /\ DOMAIN snaps2 \in SUBSET SnapId
  BY <1>1, MetaFacts, Zenon
<1>3. DOMAIN svs2 = DOMAIN svs \ {id} /\ \A i \in DOMAIN svs2 : svs2[i] = svs[i]
  BY DEF Removed, Restrict
<1>4. ASSUME NEW s \in DOMAIN snaps2 PROVE ancestor_chain(snaps2, s) = ancestor_chain(snaps, s)
  <2>1. \A c \in DOMAIN snaps2 : /\ HasParent(snaps, c) <=> HasParent(snaps2, c)
                                 /\ HasParent(snaps, c) => snaps2[c] = snaps[c]
    BY <1>1 DEF HasParent
  <2> QED
    BY <1>1, <1>2, <2>1, SameChain
<1>5. Views(t2, snaps2, svs2) = Views(t, snaps2, svs2)
  BY <1>1, SameViews, Zenon
<1>6. ASSUME NEW i \in DOMAIN svs2, NEW k \in Keys
      PROVE  Seen(t, snaps2, svs2, i, k) = Seen(t, snaps, svs, i, k)
  <2>1. svs2[i].snap_id \in DOMAIN snaps2
    BY <1>1 DEF MetaOK
  <2> QED
    BY <1>3, <1>4, <2>1 DEF Seen
<1>7. \A i \in DOMAIN svs2 :
        [k \in Keys |-> Seen(t, snaps2, svs2, i, k)] = [k \in Keys |-> Seen(t, snaps, svs, i, k)]
  BY <1>6
<1>8. Restrict(Views(t, snaps, svs), DOMAIN svs \ {id})
      = [i \in DOMAIN svs2 |-> [k \in Keys |-> Seen(t, snaps, svs, i, k)]]
  <2>1. \A i \in DOMAIN svs2 : Views(t, snaps, svs)[i] = [k \in Keys |-> Seen(t, snaps, svs, i, k)]
    BY <1>3 DEF Views, View, Seen
  <2>2. DOMAIN svs2 = DOMAIN svs \ {id}
    BY <1>3
  <2> QED
    BY <2>1, <2>2 DEF Restrict
<1>9. Views(t2, snaps2, svs2) = Restrict(Views(t, snaps, svs), DOMAIN svs \ {id})
  BY <1>5, <1>7, <1>8, ViewsAre
<1>10. DOMAIN Views(t, snaps, svs) = DOMAIN svs
  BY ViewsAre
<1> QED
  BY <1>9, <1>10 DEF Dropped
-----------------------------------------------------------------------------
(***************************************************************************)
(* Module Snapshots implements module SubvolMaps.                          *)
(***************************************************************************)
vols == Views(tree, snapshots, subvols)

saved == [vols |-> Views(durable.tree, durable.snapshots, durable.subvols),
          current |-> durable.current_subvol]

\* A fresh image is one empty subvolume.
LEMMA InitMaps == Init => Maps!Init
<1> SUFFICES ASSUME Init PROVE Maps!Init
  OBVIOUS
<1>1. /\ durable.tree = tree /\ durable.snapshots = snapshots
      /\ durable.subvols = subvols /\ durable.current_subvol = current_subvol
  BY DEF Init, Now
<1>2. DOMAIN subvols = {ROOT_SUBVOL}
  BY DEF Init
<1>3. ASSUME NEW k \in Keys PROVE Seen(tree, snapshots, subvols, ROOT_SUBVOL, k) = None
  <2> DEFINE A == ancestor_chain(snapshots, subvols[ROOT_SUBVOL].snap_id)
  <2>1. MetaOK(snapshots, subvols, current_subvol, next_snap_id, next_subvol_id)
    BY InitMeta DEF MetaInv
  <2>2. ChainOK(A, snapshots, subvols, ROOT_SUBVOL)
    BY <1>2, <2>1, HeadChain, Zenon
  <2> HIDE DEF A
  <2>3. \A s \in A : tree[k][s] = NoEntry
    BY <2>2 DEF ChainOK, Init
  <2>4. Versions(tree, k, A) = {}
    BY <2>3 DEF Versions
  <2>5. find_visible(tree, k, A) = NoEntry
    BY <2>4 DEF find_visible
  <2> QED
    BY <2>5 DEF Seen, A, NoEntry
<1>4. vols = [s \in {ROOT_SUBVOL} |-> [k \in Keys |-> None]]
  <2>1. [k \in Keys |-> Seen(tree, snapshots, subvols, ROOT_SUBVOL, k)] = [k \in Keys |-> None]
    BY <1>3
  <2> QED
    BY <1>2, <2>1, ViewsAre DEF vols
<1> QED
  BY <1>1, <1>4 DEF Maps!Init, Init, vols

\* A logged write at the current snap_id.
LEMMA WriteMaps ==
  ASSUME IdsInv, MetaInv, NEW k \in Keys, NEW e \in Entry \ {NoEntry},
         WriteEntry(k, current_snap, e), UNCHANGED <<snapshots, subvols>>
  PROVE  vols' = [vols EXCEPT ![current_subvol][k] = Shown(e)]
<1>1. MetaOK(snapshots, subvols, current_subvol, next_snap_id, next_subvol_id)
  BY DEF MetaInv
<1>2. tree \in Tree /\ current_snap \in SnapId
  BY <1>1 DEF IdsInv, IdsOK, MetaOK, Subvol, current_snap
<1>3. Written(tree, tree', k, subvols[current_subvol].snap_id, e)
  BY <1>2 DEF WriteEntry, Tree, Written, current_snap
<1>4. Updated(Views(tree, snapshots, subvols), Views(tree', snapshots, subvols),
              current_subvol, k, Shown(e))
  BY <1>1, <1>3, WriteView, Zenon
<1> QED
  BY <1>4 DEF vols, Updated

\* Every step is a step of SubvolMaps, or changes none of the maps.
LEMMA StepMaps == IdsInv /\ MetaInv /\ [Next]_vars => [Maps!Next]_(Maps!vars)
<1> SUFFICES ASSUME IdsInv, MetaInv, [Next]_vars PROVE [Maps!Next]_(Maps!vars)
  OBVIOUS
<1>0. MetaOK(snapshots, subvols, current_subvol, next_snap_id, next_subvol_id)
  BY DEF MetaInv
<1>a. current_subvol \in DOMAIN subvols /\ DOMAIN vols = DOMAIN subvols
  <2>1. DOMAIN vols = DOMAIN subvols
    BY DEF vols, Views
  <2> QED
    BY <1>0, <2>1 DEF MetaOK
<1>1. ASSUME NEW k \in Keys, NEW v \in Values, Insert(k, v) PROVE Maps!Next
  <2>1. Live(v) \in Entry \ {NoEntry} /\ Shown(Live(v)) = v
    BY DEF Entry, Live, NoEntry, Shown
  <2>2. /\ WriteEntry(k, current_snap, Live(v)) /\ call' = "put"
        /\ UNCHANGED <<snapshots, subvols, current_subvol, durable>>
    BY <1>1 DEF Insert, metaVars
  <2>3. vols' = [vols EXCEPT ![current_subvol][k] = v]
    BY <2>1, <2>2, WriteMaps
  <2>4. Maps!Put(k, v)
    BY <2>2, <2>3 DEF Maps!Put, vols
  <2> QED
    BY <2>4 DEF Maps!Next
<1>2. ASSUME NEW k \in Keys, Delete(k) PROVE Maps!Next
  <2>1. /\ Deleted \in Entry \ {NoEntry} /\ Shown(Deleted) = None
        /\ Whiteout \in Entry \ {NoEntry} /\ Shown(Whiteout) = None
    BY DEF Entry, Deleted, Whiteout, NoEntry, Shown
  <2>2. PICK e \in {Deleted, Whiteout} : WriteEntry(k, current_snap, e)
    BY <1>2 DEF Delete
  <2>3. /\ call' = "delete" /\ find_visible(tree, k, current_chain) # NoEntry
        /\ UNCHANGED <<snapshots, subvols, current_subvol, durable>>
    BY <1>2 DEF Delete, metaVars
  <2>4. vols' = [vols EXCEPT ![current_subvol][k] = None]
    BY <2>1, <2>2, <2>3, WriteMaps
  <2>5. vols[current_subvol][k] # None
    <3>1. ChainOK(current_chain, snapshots, subvols, current_subvol)
      BY <1>0, <1>a, HeadChain, Zenon DEF current_chain, current_snap
    <3>2. tree \in Tree /\ current_chain \in SUBSET SnapId
      BY <3>1 DEF ChainOK, IdsInv, IdsOK
    <3>3. find_visible(tree, k, current_chain).value # None
      BY <2>3, <3>2, VisibleIsLive
    <3>4. Seen(tree, snapshots, subvols, current_subvol, k) # None
      BY <3>3 DEF Seen, current_chain, current_snap
    <3> QED
      BY <1>a, <3>4, ViewsAre DEF vols
  <2>6. Maps!Delete(k)
    BY <2>3, <2>4, <2>5 DEF Maps!Delete, vols
  <2> QED
    BY <2>6 DEF Maps!Next
<1>3. ASSUME NEW src \in DOMAIN subvols, SnapshotSubvol(src) PROVE Maps!Next
  <2>1. Snapshotted(subvols, subvols', src, next_subvol_id, next_snap_id)
    BY <1>3 DEF SnapshotSubvol, Snapshotted
  <2>2. Extended(snapshots, snapshots', subvols[src].snap_id, next_snap_id)
    BY <1>3 DEF SnapshotSubvol, Extended
  <2>3. /\ next_snap_id >= 2 /\ next_subvol_id < MAX_SUBVOL
        /\ UNCHANGED <<tree, current_subvol, durable>>
        /\ call' = "other"
    BY <1>3 DEF SnapshotSubvol
  <2>4. Clean(tree, next_snap_id)
    BY DEF IdsInv, IdsOK
  <2>5. /\ next_subvol_id \notin DOMAIN subvols
        /\ Copied(Views(tree, snapshots, subvols), Views(tree, snapshots', subvols'),
                  src, next_subvol_id)
    BY <1>0, <2>1, <2>2, <2>3, <2>4, SnapshotView, Zenon
  <2>6. /\ next_subvol_id \in SubvolId /\ src \in DOMAIN vols /\ next_subvol_id \notin DOMAIN vols
        /\ vols' = [id \in DOMAIN vols \cup {next_subvol_id} |->
                      IF id = next_subvol_id THEN vols[src] ELSE vols[id]]
    BY <1>0, <1>a, <2>3, <2>5 DEF vols, MetaOK, Copied
  <2>7. Maps!Snapshot(src, next_subvol_id)
    BY <2>3, <2>6 DEF Maps!Snapshot, vols
  <2> QED
    BY <2>6, <2>7 DEF Maps!Next, vols
<1>4. ASSUME NEW id \in DOMAIN subvols, SwitchSubvol(id) PROVE Maps!Next
  <2>1. Maps!Switch(id)
    BY <1>4 DEF SwitchSubvol, Maps!Switch
  <2> QED
    BY <1>a, <2>1 DEF Maps!Next, vols
<1>5. ASSUME NEW id \in DOMAIN subvols, DeleteSnapshot(id) PROVE Maps!Next
  <2>1. /\ current_subvol # id /\ subvols[id].snap_id # ROOT_SNAP
        /\ Removed(snapshots, subvols, id, snapshots', subvols')
        /\ tree' = drop_snapshot_keys(tree, DOMAIN snapshots \ DOMAIN snapshots')
        /\ UNCHANGED <<current_subvol, durable>>
        /\ call' = "other"
    BY <1>5 DEF DeleteSnapshot, Deletable, Removed
  <2>2. DOMAIN snapshots' \subseteq DOMAIN snapshots
    BY <1>0, <2>1, DeleteMeta, Zenon
  <2>3. DOMAIN snapshots \in SUBSET SnapId
    BY <1>0, MetaFacts, Zenon
  <2>4. Agree(tree, tree', DOMAIN snapshots')
    BY <2>1, <2>2, <2>3 DEF drop_snapshot_keys, Agree
  <2>5. Dropped(Views(tree, snapshots, subvols), Views(tree', snapshots', subvols'), id)
    BY <1>0, <2>1, <2>4, DeleteView, Zenon
  <2>6. vols' = Restrict(vols, DOMAIN vols \ {id})
    BY <2>5 DEF vols, Dropped
  <2>7. Maps!Drop(id)
    BY <2>1, <2>6 DEF Maps!Drop, Maps!Restrict, Restrict, vols
  <2> QED
    BY <1>a, <2>7 DEF Maps!Next, vols
<1>6. CASE JournalCommit
  <2>1. /\ durable' = Now /\ call' = "other"
        /\ UNCHANGED <<tree, snapshots, subvols, current_subvol>>
    BY <1>6 DEF JournalCommit, metaVars
  <2>2. Agree(tree, logged, DOMAIN snapshots)
    BY DEF MetaInv, Agree
  <2>3. Views(logged, snapshots, subvols) = Views(tree, snapshots, subvols)
    BY <1>0, <2>2, SameViews, Zenon
  <2>4. saved' = [vols |-> vols, current |-> current_subvol]
    BY <2>1, <2>3 DEF saved, vols, Now
  <2>5. Maps!Commit
    BY <2>1, <2>4 DEF Maps!Commit, saved, vols
  <2> QED
    BY <2>5 DEF Maps!Next
<1>7. CASE Sync
  <2>1. /\ durable' = [Now EXCEPT !.tree = tree] /\ call' = "other"
        /\ UNCHANGED <<tree, snapshots, subvols, current_subvol>>
    BY <1>7 DEF Sync, metaVars
  <2>2. saved' = [vols |-> vols, current |-> current_subvol]
    BY <2>1 DEF saved, vols, Now
  <2>3. Maps!Commit
    BY <2>1, <2>2 DEF Maps!Commit, saved, vols
  <2> QED
    BY <2>3 DEF Maps!Next
<1>8. CASE Crash
  <2>1. Maps!Crash
    BY <1>8 DEF Crash, Maps!Crash
  <2> QED
    BY <2>1 DEF Maps!Next
<1>9. CASE UNCHANGED vars
  BY <1>9 DEF vars, metaVars, Maps!vars
<1> QED
  BY <1>1, <1>2, <1>3, <1>4, <1>5, <1>6, <1>7, <1>8, <1>9 DEF Next

(***************************************************************************)
(* One shared tree of versioned keys behaves as one map per subvolume: a   *)
(* write or delete in a subvolume (insert_at, delete_at) is seen there and *)
(* nowhere else, snapshot_subvol copies, delete_snapshot and its sweep     *)
(* take nothing from the other subvolumes, and a crash brings back the     *)
(* maps of the last commit.                                                *)
(***************************************************************************)
THEOREM SubvolumesAreIsolated == Spec => Isolation
<1> QED
  BY InitMaps, StepMaps, SnapshotFacts, PTL DEF Spec, Isolation, Maps!Spec
=============================================================================
