----------------------------- MODULE Checkpoint -----------------------------
(***************************************************************************)
(* Checkpoints and recovery of rfs at the level of blocks: who may write   *)
(* which block when.  It composes the allocator (BlockStore) with the COW  *)
(* B-tree's block traffic (btree.rs: in-place edits, transactions,         *)
(* checkpoint_flush), the extents' data blocks, and Fs::journal_commit,    *)
(* sync, gc and open (fs.rs).                                              *)
(*                                                                         *)
(* The tree is one root over one leaf per key; a leaf holds the extent of  *)
(* its key.  The journal is the sequence of the commit groups since the    *)
(* superblock's checkpoint: module Journal shows that this is what a scan  *)
(* finds.  A crash kills the process between two device writes; the writes *)
(* it made survive.                                                        *)
(***************************************************************************)
EXTENDS BlockStore

CONSTANTS
  Keys,          \* file blocks, numbered: one leaf each
  MaxValue,      \* bound: writes
  MaxGroups,     \* bound: commit groups since the last checkpoint
  Modes          \* bounds: operations the clients use together, and crashes

Op == {"write", "truncate", "tx", "gc"}

ASSUME CheckpointConstants ==
  /\ Keys \subseteq Nat /\ IsFiniteSet(Keys) /\ Keys # {}
  /\ MaxValue \in Nat
  /\ MaxGroups \in Nat
  /\ Modes \subseteq [ops : SUBSET Op, crashes : Nat]

VARIABLES
  root_block,
  leaf,        \* block of each leaf
  extent,      \* data block of each key in the cached leaves, NoBlock for none
  dirty,       \* leaves edited in place since they were written
  log,         \* records not yet committed
  sb,          \* the superblock
  wal,         \* commit groups since the superblock's checkpoint
  pc,
  caller,      \* who called the running sync
  moved,       \* blocks of the nodes the running sync relocated
  value,       \* history: number of the last write
  file,        \* history: content of each key as its clients see it
  legal,       \* history: contents a recovery may show
  crashes,
  mode         \* the bounds of this behaviour

treeVars == <<root_block, leaf, extent, dirty>>
historyVars == <<value, file, legal, crashes, mode>>
vars == <<storeVars, treeVars, log, sb, wal, pc, caller, moved, historyVars>>

leaf_node(nr) == [extent |-> nr]
root_node(children) == [children |-> children]
data_block(v) == [data |-> v]

Block == BlockNr \cup {NoBlock}
Value == 0 .. MaxValue
LogRecord == [key : Keys, block : Block]

TypeOK ==
  /\ free_list \in Seq(BlockNr)
  /\ last_chain_blocks \in Seq(BlockNr)
  /\ next_block_nr \in FIRST_DATA_BLOCK_NR .. MaxBlock + 1
  /\ DOMAIN blocks = BlockNr
  /\ root_block \in BlockNr
  /\ leaf \in [Keys -> BlockNr]
  /\ extent \in [Keys -> Block]
  /\ dirty \subseteq Keys
  /\ log \in Seq(LogRecord)
  /\ sb \in [root_block : BlockNr, next_block_nr : Nat, free_head : Block]
  /\ wal \in Seq([ops : Seq(LogRecord), next_block_nr : Nat])
  /\ pc \in {"idle", "tx", "flush", "persist", "swap", "sweep", "append"}
  /\ caller \in {"sync", "commit", "mark", "gc"}
  /\ moved \in Seq(BlockNr)
  /\ value \in Value
  /\ file \in [Keys -> Value]
  /\ legal \subseteq [Keys -> Value]
  /\ mode \in Modes
  /\ crashes \in 0 .. mode.crashes
-----------------------------------------------------------------------------
(***************************************************************************)
(* Fs::create: seeding dirties the first root block, so the sync that ends *)
(* it has already relocated the tree: the first block is free, and a chain *)
(* block says so.                                                          *)
(***************************************************************************)
LeafNr(k) == FIRST_DATA_BLOCK_NR + 1 + Cardinality({j \in Keys : j < k})
RootNr == FIRST_DATA_BLOCK_NR + 1 + Cardinality(Keys)

Init ==
  /\ leaf = [k \in Keys |-> LeafNr(k)]
  /\ root_block = RootNr
  /\ free_list = <<FIRST_DATA_BLOCK_NR>>
  /\ last_chain_blocks = <<RootNr + 1>>
  /\ next_block_nr = RootNr + 2
  /\ blocks = [nr \in BlockNr |->
                 CASE nr < RootNr -> leaf_node(NoBlock)
                   [] nr = RootNr -> root_node(leaf)
                   [] nr = RootNr + 1 -> chain_block(NoBlock, free_list)
                   [] nr > RootNr + 1 -> Unwritten]
  /\ extent = [k \in Keys |-> NoBlock]
  /\ dirty = {}
  /\ log = <<>>
  /\ sb = [root_block |-> root_block, next_block_nr |-> next_block_nr,
           free_head |-> RootNr + 1]
  /\ wal = <<>>
  /\ pc = "idle"
  /\ caller = "sync"
  /\ moved = <<>>
  /\ value = 0
  /\ file = [k \in Keys |-> 0]
  /\ legal = {file}
  /\ crashes = 0
  /\ mode \in Modes

\* The tree keeps the edit in the cached leaf; the log keeps it for the journal.
EditLeaf(k, nr) ==
  /\ extent' = [extent EXCEPT ![k] = nr]
  /\ dirty' = dirty \cup {k}
  /\ log' = Append(log, [key |-> k, block |-> nr])
  /\ UNCHANGED <<root_block, leaf>>

NewContent(k, v) ==
  /\ file' = [file EXCEPT ![k] = v]
  /\ legal' = legal \cup {file'}

\* The handlers of fuse.rs commit before they return, and none of them puts an
\* extent after it has truncated one.
TruncatePending == \E i \in DOMAIN log : log[i].block = NoBlock

(***************************************************************************)
(* put_extent: a fresh data block, written through, then the extent.  The  *)
(* block it replaces is left to gc.                                        *)
(***************************************************************************)
PutExtent(k) ==
  /\ pc = "idle"
  /\ "write" \in mode.ops
  /\ value < MaxValue
  /\ ~ TruncatePending
  /\ \E nr \in BlockNr :
       /\ alloc(nr)
       /\ blocks' = [blocks EXCEPT ![nr] = data_block(value + 1)]
       /\ EditLeaf(k, nr)
  /\ value' = value + 1
  /\ NewContent(k, value')
  /\ UNCHANGED <<sb, wal, pc, caller, moved, crashes, mode>>

(***************************************************************************)
(* truncate_extents: delete_extent, then free_data_block at once.          *)
(***************************************************************************)
TruncateExtent(k) ==
  /\ pc = "idle"
  /\ "truncate" \in mode.ops
  /\ extent[k] # NoBlock
  /\ EditLeaf(k, NoBlock)
  /\ free(<<extent[k]>>)
  /\ NewContent(k, 0)
  /\ UNCHANGED <<blocks, sb, wal, pc, caller, moved, value, crashes, mode>>

(***************************************************************************)
(* Btree::transaction (WriteMode::Cow) on a leaf: the leaf and then the    *)
(* root are cloned to fresh blocks, written through; the old ones are      *)
(* left to gc.  What it writes beside the extent is not told apart: its    *)
(* record is the leaf's as it is, and replay edits the leaf in place.      *)
(***************************************************************************)
TxLeaf(k) ==
  /\ pc = "idle"
  /\ "tx" \in mode.ops
  /\ log = <<>>
  /\ \E nr \in BlockNr :
       /\ alloc(nr)
       /\ blocks' = [blocks EXCEPT ![nr] = leaf_node(extent[k])]
       /\ leaf' = [leaf EXCEPT ![k] = nr]
  /\ dirty' = dirty \ {k}
  /\ log' = <<[key |-> k, block |-> extent[k]]>>
  /\ pc' = "tx"
  /\ UNCHANGED <<root_block, extent, sb, wal, caller, moved, historyVars>>

TxRoot ==
  /\ pc = "tx"
  /\ \E nr \in BlockNr :
       /\ alloc(nr)
       /\ blocks' = [blocks EXCEPT ![nr] = root_node(leaf)]
       /\ root_block' = nr
  /\ pc' = "idle"
  /\ UNCHANGED <<leaf, extent, dirty, log, sb, wal, caller, moved, historyVars>>
-----------------------------------------------------------------------------
(***************************************************************************)
(* Fs::sync.                                                               *)
(***************************************************************************)
StartSync(who) ==
  /\ pc = "idle"
  /\ pc' = "flush"
  /\ caller' = who
  /\ UNCHANGED <<storeVars, treeVars, log, sb, wal, moved, historyVars>>

Sync == log = <<>> /\ StartSync("sync")

\* Mutant: the old block is free before the walk is over.
FlushLeafFreeEarly(k) ==
  /\ pc = "flush"
  /\ k \in dirty
  /\ \A j \in dirty : k <= j
  /\ \E nr \in BlockNr :
       /\ free_list # <<>> => nr = Last(free_list)
       /\ free_list = <<>> => nr = next_block_nr
       /\ blocks' = [blocks EXCEPT ![nr] = leaf_node(extent[k])]
       /\ leaf' = [leaf EXCEPT ![k] = nr]
  /\ free_list' = Append(IF free_list = <<>> THEN <<>> ELSE Front(free_list), leaf[k])
  /\ next_block_nr' = next_block_nr + (IF free_list = <<>> THEN 1 ELSE 0)
  /\ dirty' = dirty \ {k}
  /\ moved' = <<>>
  /\ UNCHANGED <<last_chain_blocks, root_block, extent, log, sb, wal, pc, caller, historyVars>>

\* Mutant: flush_node, which writes a dirty leaf back to its own block.
FlushLeafInPlace(k) ==
  /\ pc = "flush"
  /\ k \in dirty
  /\ \A j \in dirty : k <= j
  /\ blocks' = [blocks EXCEPT ![leaf[k]] = leaf_node(extent[k])]
  /\ dirty' = dirty \ {k}
  /\ UNCHANGED <<free_list, next_block_nr, last_chain_blocks, root_block, leaf, extent,
                 log, sb, wal, pc, caller, moved, historyVars>>

\* checkpoint_flush of a dirty leaf.
FlushLeaf(k) ==
  /\ pc = "flush"
  /\ k \in dirty
  /\ \A j \in dirty : k <= j
  /\ \E nr \in BlockNr :
       /\ alloc(nr)
       /\ blocks' = [blocks EXCEPT ![nr] = leaf_node(extent[k])]
       /\ leaf' = [leaf EXCEPT ![k] = nr]
  /\ dirty' = dirty \ {k}
  /\ moved' = Append(moved, leaf[k])
  /\ UNCHANGED <<root_block, extent, log, sb, wal, pc, caller, historyVars>>

\* checkpoint_flush of the root: rewritten iff a child moved.
FlushRoot ==
  /\ pc = "flush"
  /\ dirty = {}
  /\ IF moved = <<>>
     THEN UNCHANGED <<storeVars, root_block, moved>>
     ELSE \E nr \in BlockNr :
            /\ alloc(nr)
            /\ blocks' = [blocks EXCEPT ![nr] = root_node(leaf)]
            /\ root_block' = nr
            /\ moved' = Append(moved, root_block)
  /\ pc' = "persist"
  /\ UNCHANGED <<leaf, extent, dirty, log, sb, wal, caller, historyVars>>

\* Btree::checkpoint frees what moved, then the free list goes to its chain.
PersistFreeList ==
  /\ pc = "persist"
  /\ persist_free_list(free_list \o moved)
  /\ moved' = <<>>
  /\ pc' = "swap"
  /\ UNCHANGED <<treeVars, log, sb, wal, caller, historyVars>>

AfterSync == CASE caller = "commit" -> "append"
               [] caller = "mark" -> "sweep"
               [] OTHER -> "idle"

\* The superblock names the new root; the journal restarts behind it.
SwapSuperblock ==
  /\ pc = "swap"
  /\ sb' = [root_block |-> root_block, next_block_nr |-> next_block_nr,
            free_head |-> IF last_chain_blocks = <<>> THEN NoBlock
                          ELSE Last(last_chain_blocks)]
  /\ wal' = <<>>
  /\ pc' = AfterSync
  /\ legal' = {file}
  /\ UNCHANGED <<storeVars, treeVars, log, caller, moved, value, file, crashes, mode>>

(***************************************************************************)
(* journal_commit: a sync first when the ring is near full, then the group.*)
(***************************************************************************)
CommitNearFull == StartSync("commit")

AppendGroup ==
  /\ pc = "append" \/ pc = "idle"
  /\ Len(wal) < MaxGroups
  /\ wal' = Append(wal, [ops |-> log, next_block_nr |-> next_block_nr])
  /\ log' = <<>>
  /\ pc' = "idle"
  /\ legal' = {file}
  /\ UNCHANGED <<storeVars, treeVars, sb, caller, moved, value, file, crashes, mode>>
-----------------------------------------------------------------------------
(***************************************************************************)
(* Fs::gc: sync, mark and sweep, sync.                                     *)
(***************************************************************************)
Gc == "gc" \in mode.ops /\ log = <<>> /\ StartSync("mark")

NodeBlocks == {root_block} \cup {leaf[k] : k \in Keys}
ExtentBlocks == {extent[k] : k \in Keys} \ {NoBlock}

\* Mutant: the sweep does not spare the chain blocks.
OrphansAndChain ==
  {nr \in FIRST_DATA_BLOCK_NR .. next_block_nr - 1 :
     nr \notin NodeBlocks \cup ExtentBlocks \cup ToSet(free_list)}

Orphans ==
  {nr \in FIRST_DATA_BLOCK_NR .. next_block_nr - 1 :
     nr \notin NodeBlocks \cup ExtentBlocks \cup ToSet(free_list) \cup ToSet(last_chain_blocks)}

Sweep ==
  /\ pc = "sweep"
  /\ free([i \in 1 .. Cardinality(Orphans) |->
              CHOOSE nr \in Orphans : Cardinality({o \in Orphans : o <= nr}) = i])
  /\ pc' = "flush"
  /\ caller' = "gc"
  /\ UNCHANGED <<blocks, treeVars, log, sb, wal, moved, historyVars>>
-----------------------------------------------------------------------------
(***************************************************************************)
(* Fs::open of the image as it is.                                         *)
(***************************************************************************)
\* The last journaled extent of k, or the checkpoint's.
SbLeaf(k) == blocks[sb.root_block].children[k]

Replayed(k) ==
  LET recs == SelectSeq(FlattenSeq([i \in 1 .. Len(wal) |-> wal[i].ops]),
                        LAMBDA rec : rec.key = k)
  IN  IF recs = <<>> THEN blocks[SbLeaf(k)].extent ELSE Last(recs).block

Journaled(k) == \E i \in 1 .. Len(wal) : \E j \in 1 .. Len(wal[i].ops) : wal[i].ops[j].key = k

Holds(nr, field) == nr \in BlockNr /\ field \in DOMAIN blocks[nr]

\* The blocks the superblock leads to are still tree nodes.
TreeReadable ==
  /\ Holds(sb.root_block, "children")
  /\ \A k \in Keys : Holds(SbLeaf(k), "extent")

\* The chain the superblock leads to is still a chain.
ChainReadable ==
  sb.free_head = NoBlock \/
  LET ok[nr \in Block] == nr = NoBlock \/ (Holds(nr, "entries") /\ ok[blocks[nr].next])
  IN  ok[sb.free_head]

Open ==
  /\ next_block_nr' = IF wal = <<>> THEN sb.next_block_nr ELSE Last(wal).next_block_nr
  /\ free_list' = LoadedFreeList(sb.free_head)
  /\ last_chain_blocks' = <<>>
  /\ root_block' = sb.root_block
  /\ leaf' = blocks[sb.root_block].children
  /\ extent' = [k \in Keys |-> Replayed(k)]
  /\ dirty' = {k \in Keys : Journaled(k)}
  /\ log' = <<>>
  /\ pc' = "idle"
  /\ caller' = "sync"
  /\ moved' = <<>>
  /\ UNCHANGED <<blocks, sb, wal>>

\* What a read of the data block returns; -1 is a block that is not file data.
Read(nr) == IF nr = NoBlock THEN 0
            ELSE IF Holds(nr, "data") THEN blocks[nr].data ELSE -1

Recovered == [k \in Keys |-> Read(Replayed(k))]

\* What open does with an overwritten chain is not modelled.
Crash ==
  /\ crashes < mode.crashes
  /\ TreeReadable
  /\ ChainReadable
  /\ Recovered \in [Keys -> Value]
  /\ Open
  /\ file' = Recovered
  /\ legal' = {Recovered}
  /\ crashes' = crashes + 1
  /\ UNCHANGED <<value, mode>>
-----------------------------------------------------------------------------
Next ==
  \/ \E k \in Keys : PutExtent(k)
  \/ \E k \in Keys : TruncateExtent(k)
  \/ \E k \in Keys : TxLeaf(k)
  \/ TxRoot
  \/ Sync
  \/ \E k \in Keys : FlushLeaf(k)
  \/ FlushRoot
  \/ PersistFreeList
  \/ SwapSuperblock
  \/ CommitNearFull
  \/ AppendGroup
  \/ Gc
  \/ Sweep
  \/ Crash

Spec == Init /\ [][Next]_vars
-----------------------------------------------------------------------------
(***************************************************************************)
(* During the first mount reads return what was written (put_extent,       *)
(* checkpoint_flush, persist_free_list): no block that holds the current   *)
(* content of a file is handed out again and overwritten.                  *)
(***************************************************************************)
ReadsBack == crashes = 0 => \A k \in Keys : Read(extent[k]) = file[k]

(***************************************************************************)
(* During the first mount every allocated block has one owner (alloc,      *)
(* free, persist_free_list, gc): no block is free twice, or free and in    *)
(* use, or used twice.                                                     *)
(***************************************************************************)
OneOwner ==
  LET idle == free_list \o moved
  IN  crashes = 0 =>
      /\ IsInjective(idle \o last_chain_blocks)
      /\ \A k \in Keys : extent[k] # NoBlock =>
           \A j \in Keys \ {k} : extent[j] # extent[k]
      /\ ToSet(idle \o last_chain_blocks) \cap ExtentBlocks = {}
      /\ ToSet(free_list \o last_chain_blocks) \cap NodeBlocks = {}
      /\ NodeBlocks \cap ExtentBlocks = {}

(***************************************************************************)
(* The first crash can be recovered from at any time (sync, open): the     *)
(* blocks the superblock leads to are readable, and the recovered content  *)
(* is the last acknowledged one or a later one.  After a recovery the free *)
(* list may hold live blocks: see NoLiveBlockFree.                         *)
(***************************************************************************)
RecoveryIsLegal == crashes = 0 /\ "truncate" \notin mode.ops => TreeReadable /\ Recovered \in legal

(***************************************************************************)
(* The comment in Fs::sync: it "only ever writes freshly-allocated blocks, *)
(* so the previous checkpoint stays intact until the superblock swap".     *)
(* No step overwrites a tree node of the checkpoint in the superblock.     *)
(***************************************************************************)
CheckpointTreeIntact ==
  [][sb' = sb => /\ blocks'[sb.root_block] = blocks[sb.root_block]
                 /\ \A k \in Keys : blocks'[SbLeaf(k)] = blocks[SbLeaf(k)]]_vars

(***************************************************************************)
(* The free list survives the next crash (persist_free_list, sync), in     *)
(* every mount: a superblock is only published with a chain that can be    *)
(* read, and once the process has written a chain of its own, no step      *)
(* overwrites a chain block of the checkpoint in force.  From open to its  *)
(* first sync it may: load_free_list has freed the blocks it read.         *)
(***************************************************************************)
ChainKept ==
  [][IF sb' = sb
     THEN last_chain_blocks # <<>> /\ ChainReadable =>
            \A nr \in ToSet(ChainFrom(sb.free_head)) : blocks'[nr] = blocks[nr]
     ELSE ChainReadable']_vars

(***************************************************************************)
(* gc finds everything: when its second sync is done, every block below    *)
(* the high-water mark is a node, an extent's block, free, or in the chain.*)
(***************************************************************************)
GcLeavesNoOrphan ==
  [][pc = "swap" /\ caller = "gc" /\ pc' = "idle" /\ crashes' = crashes =>
       Orphans' = {}]_vars

(***************************************************************************)
(* Fs::open's comment: node blocks allocated during replay "never collide  *)
(* with data blocks already persisted".  No block of a replayed extent is  *)
(* free to be allocated.                                                   *)
(***************************************************************************)
NoLiveBlockFree == ToSet(free_list) \cap ExtentBlocks = {}
=============================================================================
