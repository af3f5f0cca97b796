----------------------------- MODULE BlockStore -----------------------------
(***************************************************************************)
(* The block allocator of rfs and its image (storage.rs): a free list that *)
(* is popped from its end, a high-water mark behind it, and the chain of   *)
(* blocks that carries the free list across a checkpoint.                  *)
(*                                                                         *)
(* The operations are actions on four variables; module Checkpoint, whose  *)
(* tree and extents own the blocks, conjoins them with its own.            *)
(***************************************************************************)
EXTENDS Integers, Sequences, FiniteSets, SequencesExt

CONSTANTS
  FIRST_DATA_BLOCK_NR,  \* superblock and journal ring lie below it
  FREE_CHAIN_ENTRIES,   \* free-list entries in one chain block (510)
  MaxBlock              \* bound: the image ends with this block

ASSUME BlockStoreConstants ==
  /\ FIRST_DATA_BLOCK_NR \in Nat \ {0}
  /\ FREE_CHAIN_ENTRIES \in Nat \ {0}
  /\ MaxBlock \in Nat
  /\ FIRST_DATA_BLOCK_NR <= MaxBlock

BlockNr == FIRST_DATA_BLOCK_NR .. MaxBlock

\* The block number that stands for "none".
NoBlock == 0

VARIABLES
  free_list,
  next_block_nr,        \* high-water mark
  last_chain_blocks,    \* chain blocks of the last persist_free_list
  blocks                \* content of the image, by block number

storeVars == <<free_list, next_block_nr, last_chain_blocks, blocks>>

\* Content of a block that was never written.
Unwritten == [zero |-> TRUE]

chain_block(next, entries) == [next |-> next, entries |-> entries]

\* Mutant: alloc reads the end of the free list without popping it.
allocWithoutPop(nr) ==
  /\ nr \in BlockNr
  /\ IF free_list # <<>>
     THEN /\ nr = Last(free_list)
          /\ UNCHANGED <<free_list, next_block_nr>>
     ELSE /\ nr = next_block_nr
          /\ next_block_nr' = next_block_nr + 1
          /\ UNCHANGED free_list
  /\ UNCHANGED last_chain_blocks

\* BlockStore::alloc returns nr.
alloc(nr) ==
  /\ nr \in BlockNr
  /\ IF free_list # <<>>
     THEN /\ nr = Last(free_list)
          /\ free_list' = Front(free_list)
          /\ UNCHANGED next_block_nr
     ELSE /\ nr = next_block_nr
          /\ next_block_nr' = next_block_nr + 1
          /\ UNCHANGED free_list
  /\ UNCHANGED last_chain_blocks

\* BlockStore::free of one block after the other.
free(nrs) ==
  /\ free_list' = free_list \o nrs
  /\ UNCHANGED <<next_block_nr, last_chain_blocks>>

ChainLen(list) == (Len(list) + FREE_CHAIN_ENTRIES - 1) \div FREE_CHAIN_ENTRIES

Chunk(list, i) ==
  LET lo == (i - 1) * FREE_CHAIN_ENTRIES + 1
      hi == i * FREE_CHAIN_ENTRIES
  IN  SubSeq(list, lo, IF hi < Len(list) THEN hi ELSE Len(list))

\* Mutant: the old chain is forgotten.
persistLeakingChain(list) ==
  LET all   == list
      n     == ChainLen(all)
      Nth(i) == next_block_nr + i - 1
  IN  /\ next_block_nr + n <= MaxBlock + 1
      /\ free_list' = all
      /\ last_chain_blocks' = [i \in 1 .. n |-> Nth(i)]
      /\ next_block_nr' = next_block_nr + n
      /\ blocks' = [nr \in BlockNr |->
           IF nr \in next_block_nr .. next_block_nr + n - 1
           THEN LET i == nr - next_block_nr + 1
                IN  chain_block(IF i = 1 THEN NoBlock ELSE nr - 1, Chunk(all, i))
           ELSE blocks[nr]]

\* Mutant: the new chain is free as soon as it is written.
persistFreeingChain(list) ==
  LET all   == list \o last_chain_blocks
      n     == ChainLen(all)
      Nth(i) == next_block_nr + i - 1
  IN  /\ next_block_nr + n <= MaxBlock + 1
      /\ free_list' = all \o [i \in 1 .. n |-> Nth(i)]
      /\ last_chain_blocks' = [i \in 1 .. n |-> Nth(i)]
      /\ next_block_nr' = next_block_nr + n
      /\ blocks' = [nr \in BlockNr |->
           IF nr \in next_block_nr .. next_block_nr + n - 1
           THEN LET i == nr - next_block_nr + 1
                IN  chain_block(IF i = 1 THEN NoBlock ELSE nr - 1, Chunk(all, i))
           ELSE blocks[nr]]

(***************************************************************************)
(* persist_free_list when the free list is `list': the old chain joins the *)
(* list, and fresh blocks above the high-water mark hold the new chain,    *)
(* each pointing at the one before it.                                     *)
(***************************************************************************)
persist_free_list(list) ==
  LET all   == list \o last_chain_blocks
      n     == ChainLen(all)
      Nth(i) == next_block_nr + i - 1
  IN  /\ next_block_nr + n <= MaxBlock + 1
      /\ free_list' = all
      /\ last_chain_blocks' = [i \in 1 .. n |-> Nth(i)]
      /\ next_block_nr' = next_block_nr + n
      /\ blocks' = [nr \in BlockNr |->
           IF nr \in next_block_nr .. next_block_nr + n - 1
           THEN LET i == nr - next_block_nr + 1
                IN  chain_block(IF i = 1 THEN NoBlock ELSE nr - 1, Chunk(all, i))
           ELSE blocks[nr]]

\* The chain blocks load_free_list visits from head, in that order.
ChainFrom(head) ==
  LET walk[nr \in {NoBlock} \cup BlockNr] ==
        IF nr = NoBlock THEN <<>> ELSE <<nr>> \o walk[blocks[nr].next]
  IN  walk[head]

\* Mutant: a chain block's successor is pushed instead of the block.
LoadedNextPointers(head) ==
  LET chain == ChainFrom(head)
  IN  FlattenSeq([i \in 1 .. Len(chain) |-> blocks[chain[i]].entries])
        \o [i \in 1 .. Len(chain) |-> blocks[chain[i]].next]

(***************************************************************************)
(* load_free_list: the entries of every chain block, then the chain blocks *)
(* themselves.  last_chain_blocks is not restored.                         *)
(***************************************************************************)
LoadedFreeList(head) ==
  LET chain == ChainFrom(head)
  IN  FlattenSeq([i \in 1 .. Len(chain) |-> blocks[chain[i]].entries]) \o chain
=============================================================================
