----------------------------- MODULE DurableMap -----------------------------
(***************************************************************************)
(* What the B-tree of rfs promises (btree.rs): a map from sortable keys to *)
(* entries, edited one key at a time or by one transaction that takes      *)
(* effect as a whole or not at all, and a durable map that a reopened      *)
(* image shows.  It knows no nodes, blocks, caches or logs.                *)
(***************************************************************************)
CONSTANTS
  Keys, Entry,
  DeadSnap    \* keys of a snapshot that may be deleted

\* No entry under a key.
CONSTANT None

VARIABLES
  map,        \* the entry under each key
  tx,         \* the map as the open transaction sees it
  durable     \* the map a crash leaves

\* No transaction is open.
NoTx == <<>>

Maps == [Keys -> Entry \cup {None}]

Init ==
  /\ map \in Maps
  /\ tx = NoTx
  /\ durable = map

\* One entry written, the others as they were.
Edited(old, new, k) ==
  /\ new[k] \in Entry
  /\ \A j \in Keys \ {k} : new[j] = old[j]

Put(k) ==
  /\ tx = NoTx
  /\ Edited(map, map', k)
  /\ UNCHANGED <<tx, durable>>

TxBegin ==
  /\ tx = NoTx
  /\ tx' = map
  /\ UNCHANGED <<map, durable>>

TxPut(k) ==
  /\ tx # NoTx
  /\ tx' # NoTx
  /\ Edited(tx, tx', k)
  /\ UNCHANGED <<map, durable>>

TxCommit ==
  /\ tx # NoTx
  /\ map' = tx
  /\ tx' = NoTx
  /\ UNCHANGED durable

TxAbort ==
  /\ tx # NoTx
  /\ tx' = NoTx
  /\ UNCHANGED <<map, durable>>

\* A commit group or a checkpoint reaches the disk.
Save ==
  /\ tx = NoTx
  /\ durable' = map
  /\ UNCHANGED <<map, tx>>

\* The deletion of a snapshot.
Forget ==
  /\ tx = NoTx
  /\ \A k \in Keys : map'[k] = IF k \in DeadSnap THEN None ELSE map[k]
  /\ UNCHANGED <<tx, durable>>

Crash ==
  /\ map' = durable
  /\ tx' = NoTx
  /\ UNCHANGED durable

Next ==
  \/ \E k \in Keys : Put(k) \/ TxPut(k)
  \/ TxBegin
  \/ TxCommit
  \/ TxAbort
  \/ Save
  \/ Forget
  \/ Crash

Spec == Init /\ [][Next]_<<map, tx, durable>>
=============================================================================
