------------------------- MODULE CheckpointProofs ---------------------------
(***************************************************************************)
(* Proofs about the blocks of one mount: every block has one owner, and a  *)
(* read returns what was written last, for every number of leaves, blocks, *)
(* chain entries, writes, transactions, checkpoints and gc passes.         *)
(***************************************************************************)
EXTENDS Checkpoint, TLAPS, FiniteSetTheorems

(***************************************************************************)
(* Facts about lists of block numbers: what popping, pushing and joining   *)
(* them does to the set of blocks they hold.                               *)
(***************************************************************************)
\* alloc pops the end of the free list.
LEMMA PopSet ==
  ASSUME NEW s \in Seq(Nat), s # <<>>, IsInjective(s)
  PROVE  /\ Last(s) \in ToSet(s)
         /\ Front(s) \in Seq(Nat)
         /\ IsInjective(Front(s))
         /\ ToSet(Front(s)) = ToSet(s) \ {Last(s)}
<1>1. PICK n \in Nat : n > 0 /\ Len(s) = n /\ DOMAIN s = 1 .. n
  OBVIOUS
<1> DEFINE f == Front(s)
           last == Last(s)
<1>2. f \in Seq(Nat) /\ DOMAIN f = 1 .. n - 1 /\ \A i \in 1 .. n - 1 : f[i] = s[i]
  BY <1>1 DEF Front
<1>3. last = s[n] /\ n \in 1 .. n
  BY <1>1 DEF Last
<1> HIDE DEF f, last
<1>4. \A i, j \in 1 .. n : s[i] = s[j] => i = j
  BY <1>1 DEF IsInjective
<1>5. \A i \in 1 .. n : i \in 1 .. n - 1 \/ i = n
  BY <1>1
<1>6. \A i \in 1 .. n - 1 : i \in 1 .. n /\ i # n
  BY <1>1
<1>7. IsInjective(f)
  BY <1>2, <1>4, <1>6 DEF IsInjective
<1>8. last \in ToSet(s)
  BY <1>1, <1>3 DEF ToSet
<1>9. ToSet(f) = ToSet(s) \ {last}
  BY <1>1, <1>2, <1>3, <1>4, <1>5, <1>6 DEF ToSet
<1> QED
  BY <1>2, <1>7, <1>8, <1>9 DEF f, last

\* free and persist_free_list put lists behind each other.
LEMMA ConcatSet ==
  ASSUME NEW s \in Seq(Nat), NEW t \in Seq(Nat), IsInjective(s), IsInjective(t),
         ToSet(s) \cap ToSet(t) = {}
  PROVE  /\ s \o t \in Seq(Nat)
         /\ IsInjective(s \o t)
         /\ ToSet(s \o t) = ToSet(s) \cup ToSet(t)
<1>1. PICK m \in Nat : Len(s) = m /\ DOMAIN s = 1 .. m
  OBVIOUS
<1>2. PICK n \in Nat : Len(t) = n /\ DOMAIN t = 1 .. n
  OBVIOUS
<1> DEFINE c == s \o t
           low == 1 .. m
           high == m + 1 .. m + n
<1>3. /\ c \in Seq(Nat)
      /\ DOMAIN c = 1 .. m + n
      /\ \A i \in low : c[i] = s[i]
      /\ \A i \in high : c[i] = t[i - m]
  <2>1. c \in Seq(Nat) /\ DOMAIN c = 1 .. m + n
    BY <1>1, <1>2
  <2>2. \A i \in 1 .. m + n : c[i] = IF i <= m THEN s[i] ELSE t[i - m]
    <3>1. \A i \in 1 .. Len(s) + Len(t) :
            (s \o t)[i] = IF i <= Len(s) THEN s[i] ELSE t[i - Len(s)]
      OBVIOUS
    <3>2. Len(s) = m /\ Len(t) = n
      BY <1>1, <1>2
    <3> QED
      BY <3>1, <3>2, Zenon
  <2> HIDE DEF c
  <2>3. \A i \in low : i \in 1 .. m + n /\ i <= m
    BY <1>1, <1>2
  <2>4. \A i \in high : i \in 1 .. m + n /\ ~ (i <= m)
    BY <1>1, <1>2
  <2> HIDE DEF low, high
  <2> QED
    BY <2>1, <2>2, <2>3, <2>4
<1> HIDE DEF c
<1>4. /\ 1 .. m + n = low \cup high
      /\ \A i \in high : i - m \in 1 .. n
      /\ \A i, j \in high : i - m = j - m => i = j
      /\ \A j \in 1 .. n : j + m \in high /\ (j + m) - m = j
  BY <1>1, <1>2
<1>5. \A i \in low : c[i] \in ToSet(s)
  BY <1>1, <1>3, Zenon DEF ToSet
<1>6. \A i \in high : c[i] \in ToSet(t)
  BY <1>2, <1>3, <1>4, Zenon DEF ToSet
<1>7. \A j \in 1 .. n : j + m \in high /\ c[j + m] = t[j]
  BY <1>3, <1>4, Zenon
<1>8. \A i, j \in low : c[i] = c[j] => i = j
  BY <1>1, <1>3, Zenon DEF IsInjective
<1>9. \A i, j \in high : c[i] = c[j] => i = j
  <2> SUFFICES ASSUME NEW i \in high, NEW j \in high, c[i] = c[j] PROVE i = j
    OBVIOUS
  <2> HIDE DEF high
  <2>1. t[i - m] = t[j - m] /\ i - m \in DOMAIN t /\ j - m \in DOMAIN t
    BY <1>2, <1>3, <1>4
  <2>2. i - m = j - m
    BY <2>1 DEF IsInjective
  <2> QED
    BY <1>4, <2>2
<1> HIDE DEF low, high
<1>10. IsInjective(c)
  BY <1>3, <1>4, <1>5, <1>6, <1>8, <1>9 DEF IsInjective
<1>11. ToSet(s) \subseteq ToSet(c)
  BY <1>1, <1>3, <1>4 DEF ToSet, low
<1>12. ToSet(t) \subseteq ToSet(c)
  BY <1>2, <1>3, <1>4, <1>7 DEF ToSet
<1>13. ToSet(c) \subseteq ToSet(s) \cup ToSet(t)
  <2> SUFFICES ASSUME NEW i \in DOMAIN c PROVE c[i] \in ToSet(s) \cup ToSet(t)
    BY DEF ToSet
  <2> QED
    BY <1>3, <1>4, <1>5, <1>6
<1> QED
  BY <1>3, <1>10, <1>11, <1>12, <1>13 DEF c

\* A list of one block.
LEMMA OneSet ==
  ASSUME NEW x \in Nat
  PROVE  <<x>> \in Seq(Nat) /\ IsInjective(<<x>>) /\ ToSet(<<x>>) = {x}
<1>1. DOMAIN <<x>> = {1} /\ <<x>>[1] = x /\ <<x>> \in Seq(Nat)
  OBVIOUS
<1> QED
  BY <1>1 DEF IsInjective, ToSet

\* checkpoint_flush notes a relocated block.
LEMMA AppendSet ==
  ASSUME NEW s \in Seq(Nat), IsInjective(s), NEW x \in Nat, x \notin ToSet(s)
  PROVE  /\ Append(s, x) \in Seq(Nat)
         /\ IsInjective(Append(s, x))
         /\ ToSet(Append(s, x)) = ToSet(s) \cup {x}
<1>1. Append(s, x) = s \o <<x>>
  OBVIOUS
<1>2. <<x>> \in Seq(Nat) /\ IsInjective(<<x>>) /\ ToSet(<<x>>) = {x}
  BY OneSet
<1>3. ToSet(s) \cap ToSet(<<x>>) = {}
  BY <1>2
<1>4. /\ s \o <<x>> \in Seq(Nat)
      /\ IsInjective(s \o <<x>>)
      /\ ToSet(s \o <<x>>) = ToSet(s) \cup ToSet(<<x>>)
  BY <1>2, <1>3, ConcatSet, Zenon
<1> QED
  BY <1>1, <1>2, <1>4

(***************************************************************************)
(* The list of the members of a finite set of numbers in ascending order,  *)
(* as gc makes it of the orphans.                                          *)
(***************************************************************************)
LEMMA SortedSet ==
  ASSUME NEW S \in SUBSET Nat, IsFiniteSet(S)
  PROVE  LET s == [i \in 1 .. Cardinality(S) |->
                     CHOOSE nr \in S : Cardinality({o \in S : o <= nr}) = i]
         IN  s \in Seq(Nat) /\ IsInjective(s) /\ ToSet(s) = S
<1> DEFINE n == Cardinality(S)
           Upto(nr) == {o \in S : o <= nr}
           rank == [nr \in S |-> Cardinality(Upto(nr))]
           s == [i \in 1 .. n |-> CHOOSE nr \in S : Cardinality(Upto(nr)) = i]
<1>1. n \in Nat
  BY FS_CardinalityType
<1>2. \A nr \in S : /\ IsFiniteSet(Upto(nr))
                    /\ Cardinality(Upto(nr)) \in 1 .. n
  <2> SUFFICES ASSUME NEW nr \in S
               PROVE  IsFiniteSet(Upto(nr)) /\ Cardinality(Upto(nr)) \in 1 .. n
    OBVIOUS
  <2>1. Upto(nr) \in SUBSET S /\ nr \in Upto(nr)
    OBVIOUS
  <2> HIDE DEF Upto
  <2>2. IsFiniteSet(Upto(nr)) /\ Cardinality(Upto(nr)) <= n
    BY <2>1, FS_Subset
  <2>3. Cardinality(Upto(nr)) \in Nat /\ Cardinality(Upto(nr)) # 0
    BY <2>1, <2>2, FS_CardinalityType, FS_EmptySet
  <2> QED
    BY <1>1, <2>2, <2>3
<1>3. ASSUME NEW a \in S, NEW b \in S, a < b
      PROVE  Cardinality(Upto(a)) # Cardinality(Upto(b))
  <2>0. a \in Nat /\ b \in Nat
    OBVIOUS
  <2>1. \A o \in Nat : o <= a => o <= b
    BY <1>3, <2>0
  <2>2. b <= b /\ ~ (b <= a)
    BY <1>3, <2>0
  <2>3. Upto(a) \in SUBSET Upto(b) /\ b \in Upto(b) /\ b \notin Upto(a)
    BY <2>1, <2>2, Zenon
  <2> HIDE DEF Upto
  <2> QED
    BY <1>2, <2>3, FS_Subset
<1>4. \A a, b \in S : rank[a] = rank[b] => a = b
  <2> SUFFICES ASSUME NEW a \in S, NEW b \in S, a # b PROVE rank[a] # rank[b]
    OBVIOUS
  <2>1. a < b \/ b < a
    OBVIOUS
  <2> HIDE DEF Upto
  <2> QED
    BY <1>3, <2>1
<1>5. IsFiniteSet(1 .. n) /\ Cardinality(1 .. n) = n
  BY <1>1, FS_Interval
<1>6. \A i \in 1 .. n : \E nr \in S : Cardinality(Upto(nr)) = i
  <2> HIDE DEF Upto
  <2>1. rank \in [S -> 1 .. n]
    BY <1>2
  <2>2. rank \in Injection(S, 1 .. n)
    BY <1>4, <2>1 DEF Injection, IsInjective
  <2> HIDE DEF n
  <2>3. rank \in Surjection(S, 1 .. n)
    BY <1>5, <2>2, FS_Injection DEF n
  <2> QED
    BY <2>3, Zenon DEF Surjection
<1> HIDE DEF Upto
<1>7. \A i \in 1 .. n : s[i] \in S /\ Cardinality(Upto(s[i])) = i
  BY <1>6
<1>8. \A nr \in S : s[Cardinality(Upto(nr))] = nr
  BY <1>2, <1>4, <1>7
<1>9. DOMAIN s = 1 .. n
  OBVIOUS
<1>10. s \in Seq(Nat)
  <2>1. s \in [1 .. n -> Nat]
    BY <1>7, Zenon
  <2> HIDE DEF s, n
  <2> QED
    BY <1>1, <2>1
<1> HIDE DEF s, n
<1>11. IsInjective(s)
  BY <1>7, <1>9 DEF IsInjective
<1>12. ToSet(s) = S
  BY <1>2, <1>7, <1>8, <1>9, Zenon DEF ToSet
<1> QED
  BY <1>10, <1>11, <1>12 DEF s, n, Upto

\* The blocks of the new chain, which persist_free_list takes above the mark.
LEMMA ChainAbove ==
  ASSUME NEW low \in Nat, NEW n \in Nat
  PROVE  LET c == [i \in 1 .. n |-> low + i - 1]
         IN  c \in Seq(Nat) /\ IsInjective(c) /\ ToSet(c) = low .. low + n - 1
<1> DEFINE c == [i \in 1 .. n |-> low + i - 1]
<1>1. DOMAIN c = 1 .. n /\ \A i \in 1 .. n : c[i] = low + i - 1
  OBVIOUS
<1>2. c \in [1 .. n -> Nat]
  OBVIOUS
<1> HIDE DEF c
<1>3. c \in Seq(Nat)
  BY <1>2
<1>4. \A i, j \in 1 .. n : low + i - 1 = low + j - 1 => i = j
  OBVIOUS
<1>5. IsInjective(c)
  BY <1>1, <1>4 DEF IsInjective
<1>6. \A i \in 1 .. n : low + i - 1 \in low .. low + n - 1
  OBVIOUS
<1>7. ASSUME NEW b \in low .. low + n - 1
      PROVE  \E i \in 1 .. n : b = low + i - 1
  <2>1. b - low + 1 \in 1 .. n /\ b = low + (b - low + 1) - 1
    OBVIOUS
  <2> QED
    BY <2>1
<1>8. ToSet(c) = low .. low + n - 1
  <2> DEFINE above == low .. low + n - 1
  <2>1. \A i \in 1 .. n : c[i] \in above
    BY <1>1, <1>6
  <2>2. \A b \in above : \E i \in 1 .. n : b = c[i]
    BY <1>1, <1>7, Zenon
  <2> HIDE DEF above
  <2>3. ToSet(c) = above
    BY <1>1, <2>1, <2>2, Zenon DEF ToSet
  <2> QED
    BY <2>3 DEF above
<1> QED
  BY <1>3, <1>5, <1>8 DEF c
-----------------------------------------------------------------------------
FreeSet == ToSet(free_list)
MovedSet == ToSet(moved)
ChainSet == ToSet(last_chain_blocks)

Shape ==
  /\ free_list \in Seq(Nat) /\ IsInjective(free_list)
  /\ moved \in Seq(Nat) /\ IsInjective(moved)
  /\ last_chain_blocks \in Seq(Nat) /\ IsInjective(last_chain_blocks)
  /\ next_block_nr \in Nat
  /\ root_block \in Nat
  /\ leaf \in [Keys -> Nat]
  /\ extent \in [Keys -> Nat]
  /\ DOMAIN blocks = BlockNr
  /\ DOMAIN file = Keys
  /\ value \in Nat

\* All blocks that anything refers to lie below the high-water mark.
BelowMark ==
  \A nr \in FreeSet \cup MovedSet \cup ChainSet \cup NodeBlocks \cup ExtentBlocks :
    FIRST_DATA_BLOCK_NR <= nr /\ nr < next_block_nr

Apart ==
  /\ FreeSet \cap MovedSet = {}
  /\ ChainSet \cap (FreeSet \cup MovedSet) = {}
  /\ NodeBlocks \cap (FreeSet \cup MovedSet \cup ChainSet) = {}
  /\ ExtentBlocks \cap (FreeSet \cup MovedSet \cup ChainSet \cup NodeBlocks) = {}

Unshared ==
  /\ \A j, k \in Keys : leaf[j] = leaf[k] => j = k
  /\ \A k \in Keys : leaf[k] # root_block
  /\ \A j, k \in Keys : extent[j] = extent[k] /\ extent[k] # NoBlock => j = k

\* What lies in the data blocks is what the clients wrote.
Content ==
  \A k \in Keys : IF extent[k] = NoBlock THEN file[k] = 0
                  ELSE extent[k] \in BlockNr /\ blocks[extent[k]] = data_block(file[k])

\* Blocks are in transit only while a sync flushes.
Settled == pc \notin {"flush", "persist"} => moved = <<>>

OwnerInv == Shape /\ BelowMark /\ Apart /\ Unshared /\ Content /\ Settled

(***************************************************************************)
(* The inductive invariant.  After a crash the free list may hold blocks   *)
(* in use (NoLiveBlockFree), and it promises nothing.                      *)
(***************************************************************************)
MountInv == crashes \in Nat /\ (crashes = 0 => OwnerInv)
-----------------------------------------------------------------------------
(***************************************************************************)
(* The steps.                                                              *)
(***************************************************************************)
\* alloc returns a block that nothing refers to, and takes it off the free list.
LEMMA AllocFacts ==
  ASSUME OwnerInv, NEW nr, alloc(nr)
  PROVE  /\ nr \in BlockNr /\ nr \in Nat /\ nr # NoBlock
         /\ nr \notin MovedSet \cup ChainSet \cup NodeBlocks \cup ExtentBlocks
         /\ free_list' \in Seq(Nat) /\ IsInjective(free_list')
         /\ nr \notin FreeSet' /\ FreeSet' \subseteq FreeSet
         /\ next_block_nr' \in Nat /\ next_block_nr <= next_block_nr'
         /\ FIRST_DATA_BLOCK_NR <= nr /\ nr < next_block_nr'
         /\ last_chain_blocks' = last_chain_blocks
<1>1. nr \in BlockNr /\ nr \in Nat /\ nr # NoBlock /\ FIRST_DATA_BLOCK_NR <= nr
  BY BlockStoreConstants DEF alloc, BlockNr, NoBlock
<1>2. last_chain_blocks' = last_chain_blocks /\ next_block_nr \in Nat
  BY DEF alloc, OwnerInv, Shape
<1>3. CASE free_list # <<>>
  <2>1. nr = Last(free_list) /\ free_list' = Front(free_list) /\ next_block_nr' = next_block_nr
    BY <1>3 DEF alloc
  <2>2. /\ nr \in FreeSet
        /\ free_list' \in Seq(Nat) /\ IsInjective(free_list')
        /\ FreeSet' = FreeSet \ {nr}
    BY <1>3, <2>1, PopSet DEF OwnerInv, Shape, FreeSet
  <2>3. nr < next_block_nr
    BY <2>2 DEF OwnerInv, BelowMark
  <2>4. nr \notin MovedSet \cup ChainSet \cup NodeBlocks \cup ExtentBlocks
    BY <2>2 DEF OwnerInv, Apart
  <2> QED
    BY <1>1, <1>2, <2>1, <2>2, <2>3, <2>4
<1>4. CASE free_list = <<>>
  <2>1. nr = next_block_nr /\ next_block_nr' = next_block_nr + 1 /\ free_list' = free_list
    BY <1>4 DEF alloc
  <2>2. nr \notin FreeSet \cup MovedSet \cup ChainSet \cup NodeBlocks \cup ExtentBlocks
    BY <1>2, <2>1 DEF OwnerInv, BelowMark
  <2>3. FreeSet' = FreeSet
    BY <2>1 DEF FreeSet
  <2> QED
    BY <1>1, <1>2, <2>1, <2>2, <2>3 DEF OwnerInv, Shape
<1> QED
  BY <1>3, <1>4

\* A block below the high-water mark stays below it.
LEMMA MarkGrows ==
  ASSUME OwnerInv, next_block_nr' \in Nat, next_block_nr <= next_block_nr',
         NEW b \in FreeSet \cup MovedSet \cup ChainSet \cup NodeBlocks \cup ExtentBlocks
  PROVE  FIRST_DATA_BLOCK_NR <= b /\ b < next_block_nr'
<1>1. next_block_nr \in Nat
  BY DEF OwnerInv, Shape
<1>2. b \in Nat
  <2>1. FreeSet \subseteq Nat /\ MovedSet \subseteq Nat /\ ChainSet \subseteq Nat
    <3>1. \A s \in Seq(Nat) : ToSet(s) \subseteq Nat
      BY DEF ToSet
    <3> QED
      BY <3>1 DEF OwnerInv, Shape, FreeSet, MovedSet, ChainSet
  <2>2. NodeBlocks \subseteq Nat /\ ExtentBlocks \subseteq Nat
    BY DEF OwnerInv, Shape, NodeBlocks, ExtentBlocks
  <2> QED
    BY <2>1, <2>2
<1>3. FIRST_DATA_BLOCK_NR <= b /\ b < next_block_nr
  BY DEF OwnerInv, BelowMark
<1> QED
  BY <1>1, <1>2, <1>3

\* A step that leaves the blocks alone.
LEMMA FrameOwner ==
  ASSUME OwnerInv, Settled',
         UNCHANGED <<storeVars, root_block, leaf, extent, moved, value, file>>
  PROVE  OwnerInv'
<1>1. /\ free_list' = free_list /\ next_block_nr' = next_block_nr
      /\ last_chain_blocks' = last_chain_blocks /\ blocks' = blocks
  BY DEF storeVars
<1>2. /\ FreeSet' = FreeSet /\ MovedSet' = MovedSet /\ ChainSet' = ChainSet
      /\ NodeBlocks' = NodeBlocks /\ ExtentBlocks' = ExtentBlocks
  BY <1>1 DEF FreeSet, MovedSet, ChainSet, NodeBlocks, ExtentBlocks
<1>3. Shape'
  BY <1>1 DEF OwnerInv, Shape
<1>4. BelowMark' /\ Apart'
  BY <1>1, <1>2 DEF OwnerInv, BelowMark, Apart
<1>5. Unshared' /\ Content'
  BY <1>1 DEF OwnerInv, Unshared, Content
<1> QED
  BY <1>3, <1>4, <1>5 DEF OwnerInv

\* put_extent.
LEMMA PutExtentOwner ==
  ASSUME OwnerInv, NEW k \in Keys, PutExtent(k)
  PROVE  OwnerInv'
<1>1. PICK nr \in BlockNr : /\ alloc(nr)
                            /\ blocks' = [blocks EXCEPT ![nr] = data_block(value + 1)]
                            /\ EditLeaf(k, nr)
  BY Zenon DEF PutExtent
<1>2. /\ value' = value + 1 /\ moved' = moved /\ pc' = pc
      /\ file' = [file EXCEPT ![k] = value + 1]
  BY DEF PutExtent, NewContent
<1>3. /\ extent' = [extent EXCEPT ![k] = nr]
      /\ root_block' = root_block /\ leaf' = leaf
  BY <1>1 DEF EditLeaf
<1>4. /\ nr \in Nat /\ nr # NoBlock
      /\ nr \notin MovedSet \cup ChainSet \cup NodeBlocks \cup ExtentBlocks
      /\ free_list' \in Seq(Nat) /\ IsInjective(free_list')
      /\ nr \notin FreeSet' /\ FreeSet' \subseteq FreeSet
      /\ next_block_nr' \in Nat /\ next_block_nr <= next_block_nr'
      /\ FIRST_DATA_BLOCK_NR <= nr /\ nr < next_block_nr'
      /\ last_chain_blocks' = last_chain_blocks
  BY <1>1, AllocFacts
<1>5. /\ MovedSet' = MovedSet /\ ChainSet' = ChainSet /\ NodeBlocks' = NodeBlocks
  BY <1>2, <1>3, <1>4 DEF MovedSet, ChainSet, NodeBlocks
<1>6. /\ extent' \in [Keys -> Nat] /\ extent'[k] = nr
      /\ \A j \in Keys \ {k} : extent'[j] = extent[j]
  BY <1>3, <1>4 DEF OwnerInv, Shape
<1>7. \A j \in Keys : extent[j] # nr
  BY <1>4 DEF ExtentBlocks
<1>8. ExtentBlocks' \subseteq ExtentBlocks \cup {nr}
  BY <1>6 DEF ExtentBlocks
<1>9. Shape'
  BY <1>1, <1>2, <1>3, <1>4, <1>6 DEF OwnerInv, Shape
<1>10. BelowMark'
  <2> SUFFICES ASSUME NEW b \in (FreeSet \cup MovedSet \cup ChainSet \cup NodeBlocks \cup ExtentBlocks)'
               PROVE  FIRST_DATA_BLOCK_NR <= b /\ b < next_block_nr'
    BY DEF BelowMark
  <2>1. CASE b = nr
    BY <1>4, <2>1
  <2>2. CASE b \in FreeSet \cup MovedSet \cup ChainSet \cup NodeBlocks \cup ExtentBlocks
    BY <1>4, <2>2, MarkGrows
  <2> QED
    BY <1>4, <1>5, <1>8, <2>1, <2>2
<1>11. Apart'
  BY <1>4, <1>5, <1>8 DEF OwnerInv, Apart
<1>12. Unshared'
  BY <1>3, <1>6, <1>7 DEF OwnerInv, Unshared
<1>13. Content'
  <2> SUFFICES ASSUME NEW j \in Keys
               PROVE  IF extent'[j] = NoBlock THEN file'[j] = 0
                      ELSE extent'[j] \in BlockNr /\ blocks'[extent'[j]] = data_block(file'[j])
    BY DEF Content
  <2>1. CASE j = k
    BY <1>1, <1>2, <1>4, <1>6, <2>1 DEF OwnerInv, Shape
  <2>2. CASE j # k
    BY <1>1, <1>2, <1>6, <1>7, <2>2 DEF OwnerInv, Shape, Content
  <2> QED
    BY <2>1, <2>2
<1>14. Settled'
  BY <1>2 DEF OwnerInv, Settled
<1> QED
  BY <1>9, <1>10, <1>11, <1>12, <1>13, <1>14 DEF OwnerInv

\* truncate_extents.
LEMMA TruncateOwner ==
  ASSUME OwnerInv, NEW k \in Keys, TruncateExtent(k)
  PROVE  OwnerInv'
<1> DEFINE x == extent[k]
<1>1. /\ x # NoBlock
      /\ free_list' = free_list \o <<x>>
      /\ next_block_nr' = next_block_nr /\ last_chain_blocks' = last_chain_blocks
      /\ blocks' = blocks /\ value' = value /\ moved' = moved /\ pc' = pc
      /\ extent' = [extent EXCEPT ![k] = NoBlock]
      /\ file' = [file EXCEPT ![k] = 0]
      /\ root_block' = root_block /\ leaf' = leaf
  BY DEF TruncateExtent, free, EditLeaf, NewContent
<1>2. x \in Nat /\ x \in ExtentBlocks
  BY <1>1 DEF OwnerInv, Shape, ExtentBlocks
<1>3. ToSet(free_list) \cap ToSet(<<x>>) = {}
  BY <1>2, OneSet DEF OwnerInv, Apart, FreeSet
<1>4. free_list' \in Seq(Nat) /\ IsInjective(free_list') /\ FreeSet' = FreeSet \cup {x}
  <2>1. <<x>> \in Seq(Nat) /\ IsInjective(<<x>>) /\ ToSet(<<x>>) = {x}
    BY <1>2, OneSet
  <2>2. free_list \in Seq(Nat) /\ IsInjective(free_list)
    BY DEF OwnerInv, Shape
  <2>3. /\ free_list \o <<x>> \in Seq(Nat) /\ IsInjective(free_list \o <<x>>)
        /\ ToSet(free_list \o <<x>>) = ToSet(free_list) \cup ToSet(<<x>>)
    BY <1>3, <2>1, <2>2, ConcatSet, Zenon
  <2> QED
    BY <1>1, <2>1, <2>3, Zenon DEF FreeSet
<1>5. /\ MovedSet' = MovedSet /\ ChainSet' = ChainSet /\ NodeBlocks' = NodeBlocks
  BY <1>1 DEF MovedSet, ChainSet, NodeBlocks
<1>6. /\ extent' \in [Keys -> Nat] /\ extent'[k] = NoBlock
      /\ \A j \in Keys \ {k} : extent'[j] = extent[j]
  BY <1>1 DEF OwnerInv, Shape, NoBlock
<1>7. \A j \in Keys \ {k} : extent[j] # x
  BY <1>1 DEF OwnerInv, Unshared
<1>8. ExtentBlocks' \subseteq ExtentBlocks \ {x}
  BY <1>6, <1>7 DEF ExtentBlocks
<1>9. Shape'
  BY <1>1, <1>4, <1>6 DEF OwnerInv, Shape
<1> HIDE DEF x
<1>10. BelowMark'
  BY <1>1, <1>2, <1>4, <1>5, <1>8, Zenon DEF OwnerInv, BelowMark
<1>11. Apart'
  BY <1>2, <1>4, <1>5, <1>8, Zenon DEF OwnerInv, Apart
<1>12. Unshared'
  BY <1>1, <1>6 DEF OwnerInv, Unshared
<1>13. Content'
  BY <1>1, <1>6 DEF OwnerInv, Shape, Content
<1>14. Settled'
  BY <1>1 DEF OwnerInv, Settled
<1> QED
  BY <1>9, <1>10, <1>11, <1>12, <1>13, <1>14 DEF OwnerInv

(***************************************************************************)
(* A node is written to a fresh block, by a transaction or a flush: what   *)
(* moved is in transit was a node and no longer is.                        *)
(***************************************************************************)
LEMMA NodeWritten ==
  ASSUME OwnerInv, Settled', NEW nr, NEW node, alloc(nr),
         blocks' = [blocks EXCEPT ![nr] = node],
         UNCHANGED <<extent, value, file>>,
         root_block' \in Nat, leaf' \in [Keys -> Nat], Unshared',
         NodeBlocks' \subseteq NodeBlocks \cup {nr},
         moved' \in Seq(Nat), IsInjective(moved'),
         MovedSet' \subseteq MovedSet \cup (NodeBlocks \ NodeBlocks')
  PROVE  OwnerInv'
<1>1. /\ nr \in BlockNr /\ nr \in Nat /\ nr # NoBlock
      /\ nr \notin MovedSet \cup ChainSet \cup NodeBlocks \cup ExtentBlocks
      /\ free_list' \in Seq(Nat) /\ IsInjective(free_list')
      /\ nr \notin FreeSet' /\ FreeSet' \subseteq FreeSet
      /\ next_block_nr' \in Nat /\ next_block_nr <= next_block_nr'
      /\ FIRST_DATA_BLOCK_NR <= nr /\ nr < next_block_nr'
      /\ last_chain_blocks' = last_chain_blocks
  BY AllocFacts
<1>2. ChainSet' = ChainSet /\ ExtentBlocks' = ExtentBlocks
  BY <1>1 DEF ChainSet, ExtentBlocks
<1>3. Shape'
  BY <1>1 DEF OwnerInv, Shape
<1>4. BelowMark'
  <2> SUFFICES ASSUME NEW b \in (FreeSet \cup MovedSet \cup ChainSet \cup NodeBlocks \cup ExtentBlocks)'
               PROVE  FIRST_DATA_BLOCK_NR <= b /\ b < next_block_nr'
    BY DEF BelowMark
  <2>1. CASE b = nr
    BY <1>1, <2>1
  <2>2. CASE b \in FreeSet \cup MovedSet \cup ChainSet \cup NodeBlocks \cup ExtentBlocks
    BY <1>1, <2>2, MarkGrows
  <2> QED
    BY <1>1, <1>2, <2>1, <2>2
<1>5. Apart'
  BY <1>1, <1>2 DEF OwnerInv, Apart
<1>6. \A j \in Keys : extent[j] # nr
  BY <1>1 DEF ExtentBlocks
<1>7. Content'
  BY <1>1, <1>6 DEF OwnerInv, Shape, Content
<1> QED
  BY <1>3, <1>4, <1>5, <1>7 DEF OwnerInv

\* What the tree's blocks are when one leaf moves to a block that is not a node.
LEMMA LeafMoved ==
  ASSUME OwnerInv, NEW k \in Keys, NEW nr \in Nat, nr \notin NodeBlocks,
         leaf' = [leaf EXCEPT ![k] = nr], UNCHANGED <<root_block, extent>>
  PROVE  /\ leaf' \in [Keys -> Nat] /\ root_block' \in Nat /\ Unshared'
         /\ NodeBlocks' \subseteq NodeBlocks \cup {nr}
         /\ leaf[k] \in NodeBlocks \ NodeBlocks'
<1>1. /\ leaf' \in [Keys -> Nat] /\ leaf'[k] = nr
      /\ \A j \in Keys \ {k} : leaf'[j] = leaf[j]
  BY DEF OwnerInv, Shape
<1>2. nr # root_block /\ \A j \in Keys : leaf[j] # nr
  BY DEF NodeBlocks
<1>3. Unshared'
  BY <1>1, <1>2 DEF OwnerInv, Unshared
<1>4. NodeBlocks' \subseteq NodeBlocks \cup {nr}
  BY <1>1 DEF NodeBlocks
<1>5. leaf[k] \in NodeBlocks
  BY DEF NodeBlocks
<1>6. leaf[k] \notin NodeBlocks'
  <2>1. leaf[k] # root_block' /\ \A j \in Keys : leaf'[j] # leaf[k]
    BY <1>1, <1>2 DEF OwnerInv, Unshared
  <2> QED
    BY <2>1 DEF NodeBlocks
<1> QED
  BY <1>1, <1>3, <1>4, <1>5, <1>6 DEF OwnerInv, Shape

\* The same for the root.
LEMMA RootMoved ==
  ASSUME OwnerInv, NEW nr \in Nat, nr \notin NodeBlocks,
         root_block' = nr, UNCHANGED <<leaf, extent>>
  PROVE  /\ leaf' \in [Keys -> Nat] /\ root_block' \in Nat /\ Unshared'
         /\ NodeBlocks' \subseteq NodeBlocks \cup {nr}
         /\ root_block \in NodeBlocks \ NodeBlocks'
<1>1. nr # root_block /\ \A j \in Keys : leaf[j] # nr
  BY DEF NodeBlocks
<1>2. Unshared'
  BY <1>1 DEF OwnerInv, Unshared
<1>3. NodeBlocks' \subseteq NodeBlocks \cup {nr} /\ root_block \in NodeBlocks
  BY DEF NodeBlocks
<1>4. root_block \notin NodeBlocks'
  BY <1>1 DEF OwnerInv, Unshared, NodeBlocks
<1> QED
  BY <1>2, <1>3, <1>4 DEF OwnerInv, Shape

\* The old block of a node joins the blocks in transit.
LEMMA InTransit ==
  ASSUME OwnerInv, NEW b \in NodeBlocks, moved' = Append(moved, b)
  PROVE  moved' \in Seq(Nat) /\ IsInjective(moved') /\ MovedSet' = MovedSet \cup {b}
<1>1. b \in Nat
  BY DEF OwnerInv, Shape, NodeBlocks
<1>2. b \notin ToSet(moved)
  BY DEF OwnerInv, Apart, MovedSet
<1> QED
  BY <1>1, <1>2, AppendSet DEF OwnerInv, Shape, MovedSet

\* Btree::transaction on a leaf.
LEMMA TxLeafOwner ==
  ASSUME OwnerInv, NEW k \in Keys, TxLeaf(k)
  PROVE  OwnerInv'
<1>1. PICK nr \in BlockNr : /\ alloc(nr)
                            /\ blocks' = [blocks EXCEPT ![nr] = leaf_node(extent[k])]
                            /\ leaf' = [leaf EXCEPT ![k] = nr]
  BY Zenon DEF TxLeaf
<1>2. /\ pc = "idle" /\ pc' = "tx"
      /\ UNCHANGED <<root_block, extent, moved, value, file>>
  BY DEF TxLeaf, historyVars
<1>3. nr \in Nat /\ nr \notin NodeBlocks
  BY <1>1, AllocFacts
<1>4. /\ leaf' \in [Keys -> Nat] /\ root_block' \in Nat /\ Unshared'
      /\ NodeBlocks' \subseteq NodeBlocks \cup {nr}
  BY <1>1, <1>2, <1>3, LeafMoved, Zenon
<1>5. Settled' /\ moved' \in Seq(Nat) /\ IsInjective(moved') /\ MovedSet' = MovedSet
  BY <1>2 DEF OwnerInv, Settled, Shape, MovedSet
<1> QED
  BY <1>1, <1>2, <1>4, <1>5, NodeWritten, Zenon

\* Btree::transaction on the root.
LEMMA TxRootOwner ==
  ASSUME OwnerInv, TxRoot
  PROVE  OwnerInv'
<1>1. PICK nr \in BlockNr : /\ alloc(nr)
                            /\ blocks' = [blocks EXCEPT ![nr] = root_node(leaf)]
                            /\ root_block' = nr
  BY Zenon DEF TxRoot
<1>2. /\ pc = "tx" /\ pc' = "idle"
      /\ UNCHANGED <<leaf, extent, moved, value, file>>
  BY DEF TxRoot, historyVars
<1>3. nr \in Nat /\ nr \notin NodeBlocks
  BY <1>1, AllocFacts
<1>4. /\ leaf' \in [Keys -> Nat] /\ root_block' \in Nat /\ Unshared'
      /\ NodeBlocks' \subseteq NodeBlocks \cup {nr}
  BY <1>1, <1>2, <1>3, RootMoved
<1>5. Settled' /\ moved' \in Seq(Nat) /\ IsInjective(moved') /\ MovedSet' = MovedSet
  BY <1>2 DEF OwnerInv, Settled, Shape, MovedSet
<1> QED
  BY <1>1, <1>2, <1>4, <1>5, NodeWritten, Zenon

\* checkpoint_flush of a leaf.
LEMMA FlushLeafOwner ==
  ASSUME OwnerInv, NEW k \in Keys, FlushLeaf(k)
  PROVE  OwnerInv'
<1>1. PICK nr \in BlockNr : /\ alloc(nr)
                            /\ blocks' = [blocks EXCEPT ![nr] = leaf_node(extent[k])]
                            /\ leaf' = [leaf EXCEPT ![k] = nr]
  BY Zenon DEF FlushLeaf
<1>2. /\ pc = "flush" /\ pc' = pc /\ moved' = Append(moved, leaf[k])
      /\ UNCHANGED <<root_block, extent, value, file>>
  BY DEF FlushLeaf, historyVars
<1>3. nr \in Nat /\ nr \notin NodeBlocks
  BY <1>1, AllocFacts
<1>4. /\ leaf' \in [Keys -> Nat] /\ root_block' \in Nat /\ Unshared'
      /\ NodeBlocks' \subseteq NodeBlocks \cup {nr}
      /\ leaf[k] \in NodeBlocks \ NodeBlocks'
  BY <1>1, <1>2, <1>3, LeafMoved, Zenon
<1>5. moved' \in Seq(Nat) /\ IsInjective(moved') /\ MovedSet' = MovedSet \cup {leaf[k]}
  BY <1>2, <1>4, InTransit
<1>6. Settled'
  BY <1>2 DEF Settled
<1> QED
  BY <1>1, <1>2, <1>4, <1>5, <1>6, NodeWritten, Zenon

\* checkpoint_flush of the root.
LEMMA FlushRootOwner ==
  ASSUME OwnerInv, FlushRoot
  PROVE  OwnerInv'
<1>1. /\ pc' = "persist" /\ UNCHANGED <<leaf, extent, value, file>>
  BY DEF FlushRoot, historyVars
<1>2. Settled'
  BY <1>1 DEF Settled
<1>3. CASE moved = <<>>
  <2>1. UNCHANGED <<storeVars, root_block, moved>>
    BY <1>3 DEF FlushRoot
  <2> QED
    BY <1>1, <1>2, <2>1, FrameOwner
<1>4. CASE moved # <<>>
  <2>1. PICK nr \in BlockNr : /\ alloc(nr)
                              /\ blocks' = [blocks EXCEPT ![nr] = root_node(leaf)]
                              /\ root_block' = nr
                              /\ moved' = Append(moved, root_block)
    BY <1>4 DEF FlushRoot
  <2>2. nr \in Nat /\ nr \notin NodeBlocks
    BY <2>1, AllocFacts
  <2>3. /\ leaf' \in [Keys -> Nat] /\ root_block' \in Nat /\ Unshared'
        /\ NodeBlocks' \subseteq NodeBlocks \cup {nr}
        /\ root_block \in NodeBlocks \ NodeBlocks'
    BY <1>1, <2>1, <2>2, RootMoved
  <2>4. moved' \in Seq(Nat) /\ IsInjective(moved') /\ MovedSet' = MovedSet \cup {root_block}
    BY <2>1, <2>3, InTransit
  <2> QED
    BY <1>1, <1>2, <2>1, <2>3, <2>4, NodeWritten, Zenon
<1> QED
  BY <1>3, <1>4

\* persist_free_list, after Btree::checkpoint has freed what moved.
LEMMA PersistOwner ==
  ASSUME OwnerInv, PersistFreeList
  PROVE  OwnerInv'
<1> DEFINE all == (free_list \o moved) \o last_chain_blocks
           n == ChainLen(all)
           chain == [i \in 1 .. n |-> next_block_nr + i - 1]
<1>1. /\ free_list' = all
      /\ last_chain_blocks' = chain
      /\ next_block_nr' = next_block_nr + n
      /\ DOMAIN blocks' = BlockNr
      /\ \A nr \in BlockNr : nr \notin next_block_nr .. next_block_nr + n - 1
                               => blocks'[nr] = blocks[nr]
  BY DEF PersistFreeList, persist_free_list
<1>2. /\ moved' = <<>>
      /\ UNCHANGED <<root_block, leaf, extent, value, file>>
  BY DEF PersistFreeList, treeVars, historyVars
<1>3. all \in Seq(Nat) /\ IsInjective(all) /\ ToSet(all) = FreeSet \cup MovedSet \cup ChainSet
  <2>1. /\ free_list \in Seq(Nat) /\ IsInjective(free_list)
        /\ moved \in Seq(Nat) /\ IsInjective(moved)
        /\ last_chain_blocks \in Seq(Nat) /\ IsInjective(last_chain_blocks)
    BY DEF OwnerInv, Shape
  <2>2. /\ ToSet(free_list) \cap ToSet(moved) = {}
        /\ (ToSet(free_list) \cup ToSet(moved)) \cap ToSet(last_chain_blocks) = {}
    BY DEF OwnerInv, Apart, FreeSet, MovedSet, ChainSet
  <2> DEFINE idle == free_list \o moved
  <2>3. idle \in Seq(Nat) /\ IsInjective(idle) /\ ToSet(idle) = ToSet(free_list) \cup ToSet(moved)
    BY <2>1, <2>2, ConcatSet
  <2> HIDE DEF idle
  <2>4. /\ idle \o last_chain_blocks \in Seq(Nat) /\ IsInjective(idle \o last_chain_blocks)
        /\ ToSet(idle \o last_chain_blocks) = ToSet(idle) \cup ToSet(last_chain_blocks)
    BY <2>1, <2>2, <2>3, ConcatSet
  <2> QED
    BY <2>3, <2>4 DEF idle, FreeSet, MovedSet, ChainSet
<1>4. n \in Nat
  <2> HIDE DEF all
  <2>1. Len(all) \in Nat
    BY <1>3
  <2>2. Len(all) + FREE_CHAIN_ENTRIES - 1 \in Nat
    BY <2>1, BlockStoreConstants
  <2>3. \A a \in Nat, b \in Nat \ {0} : a \div b \in Nat
    OBVIOUS
  <2> QED
    BY <2>2, <2>3, BlockStoreConstants DEF ChainLen
<1> HIDE DEF all, n
<1>5. next_block_nr \in Nat
  BY DEF OwnerInv, Shape
<1>6. chain \in Seq(Nat) /\ IsInjective(chain) /\ ToSet(chain) = next_block_nr .. next_block_nr + n - 1
  BY <1>4, <1>5, ChainAbove
<1> HIDE DEF chain
<1>7. /\ FreeSet' = FreeSet \cup MovedSet \cup ChainSet
      /\ ChainSet' = next_block_nr .. next_block_nr + n - 1
      /\ NodeBlocks' = NodeBlocks /\ ExtentBlocks' = ExtentBlocks
  BY <1>1, <1>2, <1>3, <1>6 DEF FreeSet, ChainSet, NodeBlocks, ExtentBlocks
<1>8. MovedSet' = {} /\ moved' \in Seq(Nat) /\ IsInjective(moved')
  BY <1>2 DEF MovedSet, ToSet, IsInjective
<1>9. Shape'
  BY <1>1, <1>2, <1>3, <1>4, <1>5, <1>6, <1>8 DEF OwnerInv, Shape
<1>10. next_block_nr' \in Nat /\ next_block_nr <= next_block_nr'
  BY <1>1, <1>4, <1>5
<1>11. \A b \in ChainSet' : FIRST_DATA_BLOCK_NR <= b /\ next_block_nr <= b /\ b < next_block_nr'
  <2>1. FIRST_DATA_BLOCK_NR <= next_block_nr
    <3>1. root_block \in Nat /\ FIRST_DATA_BLOCK_NR <= root_block /\ root_block < next_block_nr
      BY Zenon DEF OwnerInv, Shape, BelowMark, NodeBlocks
    <3> QED
      BY <1>5, <3>1, BlockStoreConstants
  <2> QED
    BY <1>1, <1>4, <1>5, <1>7, <2>1, BlockStoreConstants
<1>12. BelowMark'
  <2> SUFFICES ASSUME NEW b \in (FreeSet \cup MovedSet \cup ChainSet \cup NodeBlocks \cup ExtentBlocks)'
               PROVE  FIRST_DATA_BLOCK_NR <= b /\ b < next_block_nr'
    BY DEF BelowMark
  <2>1. CASE b \in ChainSet'
    BY <1>11, <2>1
  <2>2. CASE b \in FreeSet \cup MovedSet \cup ChainSet \cup NodeBlocks \cup ExtentBlocks
    BY <1>10, <2>2, MarkGrows
  <2> QED
    BY <1>7, <1>8, <2>1, <2>2
<1>13. \A b \in FreeSet \cup MovedSet \cup ChainSet \cup NodeBlocks \cup ExtentBlocks : b \notin ChainSet'
  <2> SUFFICES ASSUME NEW b \in FreeSet \cup MovedSet \cup ChainSet \cup NodeBlocks \cup ExtentBlocks,
                      b \in ChainSet'
               PROVE  FALSE
    OBVIOUS
  <2>1. b < next_block_nr
    BY DEF OwnerInv, BelowMark
  <2>2. next_block_nr <= b /\ b \in Int
    BY <1>4, <1>5, <1>7, <1>11
  <2> QED
    BY <1>5, <2>1, <2>2
<1>14. Apart'
  BY <1>7, <1>8, <1>13 DEF OwnerInv, Apart
<1>15. Unshared'
  BY <1>2 DEF OwnerInv, Unshared
<1>16. Content'
  <2>1. \A k \in Keys : extent[k] # NoBlock => extent[k] \notin next_block_nr .. next_block_nr + n - 1
    BY <1>7, <1>13 DEF ExtentBlocks
  <2> QED
    BY <1>1, <1>2, <2>1 DEF OwnerInv, Content
<1>17. Settled'
  BY <1>2 DEF Settled
<1> QED
  BY <1>9, <1>12, <1>14, <1>15, <1>16, <1>17 DEF OwnerInv

\* gc's sweep.
LEMMA SweepOwner ==
  ASSUME OwnerInv, Sweep
  PROVE  OwnerInv'
<1> DEFINE found == [i \in 1 .. Cardinality(Orphans) |->
                       CHOOSE nr \in Orphans : Cardinality({o \in Orphans : o <= nr}) = i]
<1>1. /\ free_list' = free_list \o found
      /\ next_block_nr' = next_block_nr /\ last_chain_blocks' = last_chain_blocks
      /\ blocks' = blocks /\ moved' = moved /\ pc' = "flush"
      /\ UNCHANGED <<root_block, leaf, extent, value, file>>
  BY DEF Sweep, free, treeVars, historyVars
<1>2. moved = <<>> /\ MovedSet = {}
  BY DEF Sweep, OwnerInv, Settled, MovedSet, ToSet
<1>3. next_block_nr \in Nat
  BY DEF OwnerInv, Shape
<1>4. Orphans \in SUBSET (FIRST_DATA_BLOCK_NR .. next_block_nr - 1)
  BY DEF Orphans
<1>5. IsFiniteSet(Orphans) /\ Orphans \in SUBSET Nat
  <2>1. IsFiniteSet(FIRST_DATA_BLOCK_NR .. next_block_nr - 1)
    BY <1>3, FS_Interval, BlockStoreConstants
  <2>2. FIRST_DATA_BLOCK_NR .. next_block_nr - 1 \in SUBSET Nat
    BY <1>3, BlockStoreConstants
  <2> QED
    BY <1>4, <2>1, <2>2, FS_Subset, Zenon
<1>6. found \in Seq(Nat) /\ IsInjective(found) /\ ToSet(found) = Orphans
  BY <1>5, SortedSet
<1> HIDE DEF found
<1>7. Orphans \cap (FreeSet \cup ChainSet \cup NodeBlocks \cup ExtentBlocks) = {}
  BY DEF Orphans, FreeSet, ChainSet
<1>8. free_list' \in Seq(Nat) /\ IsInjective(free_list') /\ FreeSet' = FreeSet \cup Orphans
  <2>1. free_list \in Seq(Nat) /\ IsInjective(free_list) /\ ToSet(free_list) \cap ToSet(found) = {}
    BY <1>6, <1>7 DEF OwnerInv, Shape, FreeSet
  <2>2. /\ free_list \o found \in Seq(Nat) /\ IsInjective(free_list \o found)
        /\ ToSet(free_list \o found) = ToSet(free_list) \cup ToSet(found)
    BY <1>6, <2>1, ConcatSet
  <2> QED
    BY <1>1, <1>6, <2>2 DEF FreeSet
<1>9. /\ MovedSet' = MovedSet /\ ChainSet' = ChainSet
      /\ NodeBlocks' = NodeBlocks /\ ExtentBlocks' = ExtentBlocks
  BY <1>1 DEF MovedSet, ChainSet, NodeBlocks, ExtentBlocks
<1>10. Shape'
  BY <1>1, <1>8 DEF OwnerInv, Shape
<1>11. \A b \in Orphans : FIRST_DATA_BLOCK_NR <= b /\ b < next_block_nr
  BY <1>3, <1>4, BlockStoreConstants
<1>12. BelowMark'
  BY <1>1, <1>8, <1>9, <1>11 DEF OwnerInv, BelowMark
<1>13. Apart'
  BY <1>2, <1>7, <1>8, <1>9 DEF OwnerInv, Apart
<1>14. Unshared' /\ Content' /\ Settled'
  BY <1>1 DEF OwnerInv, Unshared, Content, Settled
<1> QED
  BY <1>10, <1>12, <1>13, <1>14 DEF OwnerInv
-----------------------------------------------------------------------------
(***************************************************************************)
(* The image Fs::create leaves.                                            *)
(***************************************************************************)
\* How many leaves come before a leaf.
LEMMA LeavesBefore ==
  ASSUME NEW k \in Keys
  PROVE  /\ Cardinality({j \in Keys : j < k}) \in Nat
         /\ Cardinality({j \in Keys : j < k}) < Cardinality(Keys)
         /\ Cardinality(Keys) \in Nat
         /\ \A h \in Keys : h < k =>
              Cardinality({j \in Keys : j < h}) # Cardinality({j \in Keys : j < k})
<1> DEFINE Before(h) == {j \in Keys : j < h}
<1>1. Keys \subseteq Nat /\ IsFiniteSet(Keys) /\ k \in Nat
  BY CheckpointConstants
<1>2. \A h \in Keys : Before(h) \in SUBSET Keys /\ h \notin Before(h)
  BY <1>1
<1>3. ASSUME NEW h \in Keys, h < k
      PROVE  Before(h) \in SUBSET Before(k) /\ h \in Before(k)
  <2>1. \A j \in Nat : j < h => j < k
    BY <1>1, <1>3
  <2> QED
    BY <1>1, <1>3, <2>1, Zenon
<1> HIDE DEF Before
<1>4. \A h \in Keys : IsFiniteSet(Before(h))
  BY <1>1, <1>2, FS_Subset
<1>5. Cardinality(Before(k)) \in Nat /\ Cardinality(Keys) \in Nat
  BY <1>1, <1>4, FS_CardinalityType
<1>6. Cardinality(Before(k)) <= Cardinality(Keys) /\ Cardinality(Before(k)) # Cardinality(Keys)
  BY <1>1, <1>2, FS_Subset
<1>7. Cardinality(Before(k)) < Cardinality(Keys)
  BY <1>5, <1>6
<1>8. ASSUME NEW h \in Keys, h < k PROVE Cardinality(Before(h)) # Cardinality(Before(k))
  BY <1>2, <1>3, <1>4, <1>8, FS_Subset
<1> QED
  BY <1>5, <1>7, <1>8 DEF Before

\* The invariant holds of it.
LEMMA InitOwner == Init => OwnerInv
<1> SUFFICES ASSUME Init PROVE OwnerInv
  OBVIOUS
<1> DEFINE F == FIRST_DATA_BLOCK_NR
<1>1. F \in Nat /\ 0 < F
  BY BlockStoreConstants
<1>2. RootNr \in Nat /\ F < RootNr
  <2>1. Cardinality(Keys) \in Nat
    BY CheckpointConstants, FS_CardinalityType
  <2> QED
    BY <1>1, <2>1 DEF RootNr
<1>3. \A k \in Keys : LeafNr(k) \in Nat /\ F < LeafNr(k) /\ LeafNr(k) < RootNr
  BY <1>1, LeavesBefore DEF LeafNr, RootNr
<1>4. \A j, k \in Keys : LeafNr(j) = LeafNr(k) => j = k
  <2> SUFFICES ASSUME NEW j \in Keys, NEW k \in Keys, LeafNr(j) = LeafNr(k), j # k
               PROVE  FALSE
    OBVIOUS
  <2>1. Cardinality({i \in Keys : i < j}) = Cardinality({i \in Keys : i < k})
    <3> DEFINE a == Cardinality({i \in Keys : i < j})
               b == Cardinality({i \in Keys : i < k})
    <3>1. a \in Nat /\ b \in Nat
      BY LeavesBefore
    <3>2. F + 1 + a = F + 1 + b
      BY DEF LeafNr
    <3> HIDE DEF a, b
    <3>3. a = b
      BY <1>1, <3>1, <3>2
    <3> QED
      BY <3>3 DEF a, b
  <2>2. j < k \/ k < j
    BY CheckpointConstants
  <2> QED
    BY <2>1, <2>2, LeavesBefore
<1>5. /\ leaf = [k \in Keys |-> LeafNr(k)] /\ root_block = RootNr
      /\ free_list = <<F>> /\ last_chain_blocks = <<RootNr + 1>>
      /\ next_block_nr = RootNr + 2 /\ extent = [k \in Keys |-> NoBlock]
      /\ file = [k \in Keys |-> 0] /\ value = 0 /\ moved = <<>> /\ pc = "idle"
      /\ DOMAIN blocks = BlockNr
  BY DEF Init
<1>6. \A k \in Keys : leaf[k] = LeafNr(k)
  BY <1>5
<1> HIDE DEF F
<1>7. /\ FreeSet = {F} /\ ChainSet = {RootNr + 1}
      /\ free_list \in Seq(Nat) /\ IsInjective(free_list)
      /\ last_chain_blocks \in Seq(Nat) /\ IsInjective(last_chain_blocks)
  <2>1. RootNr + 1 \in Nat
    BY <1>2
  <2> QED
    BY <1>1, <1>5, <2>1, OneSet DEF FreeSet, ChainSet
<1>8. MovedSet = {} /\ moved \in Seq(Nat) /\ IsInjective(moved)
  BY <1>5 DEF MovedSet, ToSet, IsInjective
<1>9. ExtentBlocks = {}
  BY <1>5 DEF ExtentBlocks
<1>10. NodeBlocks = {RootNr} \cup {LeafNr(k) : k \in Keys}
  BY <1>5, <1>6 DEF NodeBlocks
<1>11. leaf \in [Keys -> Nat] /\ extent \in [Keys -> Nat]
  BY <1>3, <1>5 DEF NoBlock
<1>12. Shape
  BY <1>2, <1>5, <1>7, <1>8, <1>11 DEF Shape
<1>13. \A b \in NodeBlocks : b \in Nat /\ F < b /\ b <= RootNr
  BY <1>2, <1>3, <1>10
<1>14. BelowMark
  <2>1. \A b \in NodeBlocks : F <= b /\ b < RootNr + 2
    BY <1>1, <1>2, <1>13
  <2>2. F <= F /\ F < RootNr + 2 /\ F <= RootNr + 1 /\ RootNr + 1 < RootNr + 2
    BY <1>1, <1>2
  <2> QED
    BY <1>5, <1>7, <1>8, <1>9, <2>1, <2>2 DEF BelowMark, F
<1>15. Apart
  <2>1. F # RootNr + 1 /\ F \notin NodeBlocks /\ RootNr + 1 \notin NodeBlocks
    BY <1>1, <1>2, <1>13
  <2> QED
    BY <1>7, <1>8, <1>9, <2>1 DEF Apart
<1>16. Unshared
  <2>1. \A k \in Keys : LeafNr(k) # RootNr
    BY <1>2, <1>3
  <2> QED
    BY <1>4, <1>5, <1>6, <2>1 DEF Unshared
<1>17. Content /\ Settled
  BY <1>5 DEF Content, Settled
<1> QED
  BY <1>12, <1>14, <1>15, <1>16, <1>17 DEF OwnerInv
-----------------------------------------------------------------------------
\* No step but a crash breaks the ownership of the blocks.
LEMMA StepOwner == MountInv /\ [Next]_vars => MountInv'
<1> SUFFICES ASSUME MountInv, [Next]_vars PROVE MountInv'
  OBVIOUS
<1>1. ASSUME crashes' = crashes, OwnerInv => OwnerInv' PROVE MountInv'
  BY <1>1 DEF MountInv
<1>2. ASSUME NEW k \in Keys, PutExtent(k) PROVE MountInv'
  BY <1>1, <1>2, PutExtentOwner, Zenon DEF PutExtent
<1>3. ASSUME NEW k \in Keys, TruncateExtent(k) PROVE MountInv'
  BY <1>1, <1>3, TruncateOwner DEF TruncateExtent
<1>4. ASSUME NEW k \in Keys, TxLeaf(k) PROVE MountInv'
  BY <1>1, <1>4, TxLeafOwner, Zenon DEF TxLeaf, historyVars
<1>5. CASE TxRoot
  BY <1>1, <1>5, TxRootOwner, Zenon DEF TxRoot, historyVars
<1>6. ASSUME NEW who, StartSync(who) PROVE MountInv'
  <2>1. /\ crashes' = crashes /\ pc' = "flush"
        /\ UNCHANGED <<storeVars, root_block, leaf, extent, moved, value, file>>
    BY <1>6 DEF StartSync, treeVars, historyVars
  <2>2. Settled'
    BY <2>1 DEF Settled
  <2> QED
    BY <1>1, <2>1, <2>2, FrameOwner
<1>7. ASSUME NEW k \in Keys, FlushLeaf(k) PROVE MountInv'
  BY <1>1, <1>7, FlushLeafOwner, Zenon DEF FlushLeaf, historyVars
<1>8. CASE FlushRoot
  BY <1>1, <1>8, FlushRootOwner DEF FlushRoot, historyVars
<1>9. CASE PersistFreeList
  BY <1>1, <1>9, PersistOwner DEF PersistFreeList, historyVars
<1>10. CASE SwapSuperblock
  <2>1. /\ crashes' = crashes /\ pc = "swap"
        /\ UNCHANGED <<storeVars, root_block, leaf, extent, moved, value, file>>
    BY <1>10 DEF SwapSuperblock, treeVars
  <2>2. OwnerInv => Settled'
    BY <2>1 DEF OwnerInv, Settled
  <2> QED
    BY <1>1, <2>1, <2>2, FrameOwner
<1>11. CASE AppendGroup
  <2>1. /\ crashes' = crashes /\ pc \in {"append", "idle"}
        /\ UNCHANGED <<storeVars, root_block, leaf, extent, moved, value, file>>
    BY <1>11 DEF AppendGroup, treeVars
  <2>2. OwnerInv => Settled'
    BY <2>1 DEF OwnerInv, Settled
  <2> QED
    BY <1>1, <2>1, <2>2, FrameOwner
<1>12. CASE Sweep
  BY <1>1, <1>12, SweepOwner DEF Sweep, historyVars
<1>13. CASE Crash
  <2>1. crashes' = crashes + 1
    BY <1>13 DEF Crash
  <2> QED
    BY <2>1 DEF MountInv
<1>14. CASE UNCHANGED vars
  <2>1. /\ crashes' = crashes /\ pc' = pc
        /\ UNCHANGED <<storeVars, root_block, leaf, extent, moved, value, file>>
    BY <1>14 DEF vars, treeVars, historyVars
  <2>2. OwnerInv => Settled'
    BY <2>1 DEF OwnerInv, Settled
  <2> QED
    BY <1>1, <2>1, <2>2, FrameOwner
<1> QED
  BY <1>2, <1>3, <1>4, <1>5, <1>6, <1>7, <1>8, <1>9, <1>10, <1>11, <1>12, <1>13, <1>14
  DEF Next, Sync, CommitNearFull, Gc

\* The invariant gives the two properties.
LEMMA OwnerFacts == MountInv => OneOwner /\ ReadsBack
<1> SUFFICES ASSUME MountInv, crashes = 0
             PROVE  OneOwner /\ ReadsBack
  BY DEF OneOwner, ReadsBack
<1>1. OwnerInv
  BY DEF MountInv
<1>2. /\ free_list \in Seq(Nat) /\ IsInjective(free_list)
      /\ moved \in Seq(Nat) /\ IsInjective(moved)
      /\ last_chain_blocks \in Seq(Nat) /\ IsInjective(last_chain_blocks)
  BY <1>1 DEF OwnerInv, Shape
<1>3. /\ ToSet(free_list) \cap ToSet(moved) = {}
      /\ (ToSet(free_list) \cup ToSet(moved)) \cap ToSet(last_chain_blocks) = {}
      /\ ToSet(free_list) \cap ToSet(last_chain_blocks) = {}
  BY <1>1 DEF OwnerInv, Apart, FreeSet, MovedSet, ChainSet
<1> DEFINE idle == free_list \o moved
<1>4. idle \in Seq(Nat) /\ IsInjective(idle) /\ ToSet(idle) = ToSet(free_list) \cup ToSet(moved)
  BY <1>2, <1>3, ConcatSet
<1> HIDE DEF idle
<1>5. /\ IsInjective(idle \o last_chain_blocks)
      /\ ToSet(idle \o last_chain_blocks) = ToSet(idle) \cup ToSet(last_chain_blocks)
  BY <1>2, <1>3, <1>4, ConcatSet
<1>6. ToSet(free_list \o last_chain_blocks) = ToSet(free_list) \cup ToSet(last_chain_blocks)
  BY <1>2, <1>3, ConcatSet
<1>7. ToSet(idle \o last_chain_blocks) \cap ExtentBlocks = {}
  BY <1>1, <1>4, <1>5 DEF OwnerInv, Apart, FreeSet, MovedSet, ChainSet
<1>8. /\ ToSet(free_list \o last_chain_blocks) \cap NodeBlocks = {}
      /\ NodeBlocks \cap ExtentBlocks = {}
  BY <1>1, <1>6 DEF OwnerInv, Apart, FreeSet, ChainSet
<1>9. \A k \in Keys : extent[k] # NoBlock => \A j \in Keys \ {k} : extent[j] # extent[k]
  BY <1>1 DEF OwnerInv, Unshared
<1>10. OneOwner
  BY <1>5, <1>7, <1>8, <1>9 DEF OneOwner, idle
<1>11. ReadsBack
  <2>1. \A v : "data" \in DOMAIN data_block(v) /\ data_block(v).data = v
    BY DEF data_block
  <2> SUFFICES ASSUME NEW k \in Keys PROVE Read(extent[k]) = file[k]
    BY DEF ReadsBack
  <2>2. CASE extent[k] = NoBlock
    BY <1>1, <2>2 DEF Read, OwnerInv, Content
  <2>3. CASE extent[k] # NoBlock
    <3>1. extent[k] \in BlockNr /\ blocks[extent[k]] = data_block(file[k])
      BY <1>1, <2>3 DEF OwnerInv, Content
    <3> QED
      BY <2>1, <2>3, <3>1 DEF Read, Holds
  <2> QED
    BY <2>2, <2>3
<1> QED
  BY <1>10, <1>11

(***************************************************************************)
(* During the first mount every allocated block has one owner (alloc,      *)
(* free, persist_free_list, checkpoint_flush, gc).                         *)
(***************************************************************************)
THEOREM BlocksHaveOneOwner == Spec => []OneOwner
<1>1. Init => MountInv
  BY InitOwner DEF MountInv, Init
<1> QED
  BY <1>1, StepOwner, OwnerFacts, PTL DEF Spec

(***************************************************************************)
(* During the first mount a read returns what was written last: no block   *)
(* of an extent is overwritten (put_extent, persist_free_list).            *)
(***************************************************************************)
THEOREM ReadsReturnWrites == Spec => []ReadsBack
<1>1. Init => MountInv
  BY InitOwner DEF MountInv, Init
<1> QED
  BY <1>1, StepOwner, OwnerFacts, PTL DEF Spec
=============================================================================
