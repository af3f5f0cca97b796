------------------------------ MODULE Journal ------------------------------
(***************************************************************************)
(* The write-ahead journal of rfs: a fixed ring of frames addressed by     *)
(* seq % JOURNAL_CAPACITY (journal.rs), filled by Fs::journal_commit,      *)
(* trimmed by the checkpoint Fs::sync publishes in the superblock, and     *)
(* scanned by Fs::open after a crash (fs.rs).                              *)
(*                                                                         *)
(* The B-tree is abstracted to a map from keys to values, a log record to  *)
(* one assignment of that map, and the checkpointed tree to the map the    *)
(* superblock points at: sync only ever writes fresh tree blocks before it *)
(* swaps the superblock, so the two change together.                       *)
(*                                                                         *)
(* The process is single threaded (one mutex around Fs), so what           *)
(* interleaves with it is the machine.  `cache' is what the process reads  *)
(* back from the image file, `disk' what is sure to survive a crash.       *)
(*   - "process" crashes kill the process; the kernel keeps every write,   *)
(*     so a write is durable at once.                                      *)
(*   - "power" crashes lose any part of the writes since the last fsync:   *)
(*     each journal block comes back old, new or torn.                     *)
(***************************************************************************)
EXTENDS Integers, Sequences, FiniteSets, FiniteSetsExt

CONSTANTS
  ENTRIES_PER_BLOCK,   \* frames in one journal block (16 in storage.rs)
  JOURNAL_BLOCKS,      \* blocks in the ring (64 in storage.rs)
  RingReserve,         \* the 64 of JOURNAL_CAPACITY - 64 in fs.rs
  MaxRecords,          \* most log records pending when a commit starts
  CrashMode,           \* "process" or "power"
  MaxIno,              \* bound: values the operations may allocate
  MaxSeq               \* bound: no commit starts at this sequence number

JOURNAL_CAPACITY == JOURNAL_BLOCKS * ENTRIES_PER_BLOCK

JOURNAL_RECLAIM_SOFT_LIMIT == JOURNAL_CAPACITY - RingReserve

\* Mutant: the progress record and the margin are forgotten.
ReserveCommitEndOnly == 1

RECLAIM_COMMIT_RESERVED_FRAMES == 3

ASSUME JournalConstants ==
  /\ ENTRIES_PER_BLOCK \in Nat \ {0}
  /\ JOURNAL_BLOCKS \in Nat \ {0}
  /\ JOURNAL_CAPACITY \in Nat \ {0}
  /\ RingReserve \in Nat
  /\ RingReserve + 2 <= JOURNAL_CAPACITY
  /\ MaxRecords \in Nat
  /\ CrashMode \in {"process", "power"}
  /\ MaxIno \in Nat
  /\ MaxSeq \in Nat

Slots == 0 .. JOURNAL_CAPACITY - 1

\* Key 0 stands for the extents of unlinked inodes, which only reclaim
\* writes; an operation with n records writes the keys 1 .. n.
Keys == 0 .. MaxRecords

Values == 0 .. MaxIno

Record == [key : Keys, val : Values]

NoRecord == [key |-> 0, val |-> 0]

Frame == [kind : {"LoggedOp", "CommitEnd", "Zero", "Torn"}, seq : Nat,
          rec : Record, next_ino : Nat]

LoggedOp(seq, rec) ==
  [kind |-> "LoggedOp", seq |-> seq, rec |-> rec, next_ino |-> 0]

CommitEnd(seq, ino) ==
  [kind |-> "CommitEnd", seq |-> seq, rec |-> NoRecord, next_ino |-> ino]

ZeroFrame == [kind |-> "Zero", seq |-> 0, rec |-> NoRecord, next_ino |-> 0]

TornFrame == [kind |-> "Torn", seq |-> 0, rec |-> NoRecord, next_ino |-> 0]

\* Magic and checksum reject zeroed and torn frames, seq a frame of another lap.
is_valid(frame, seq) ==
  frame.kind \in {"LoggedOp", "CommitEnd"} /\ frame.seq = seq

frame_slot(seq) == seq % JOURNAL_CAPACITY

\* The part of the file system state a recovery brings back.
State == [tree : [Keys -> Values], next_ino : Nat]

Superblock == [journal_seq : Nat, state : State]

VARIABLES
  cache,                \* the ring as the process reads it
  disk,                 \* the ring as far as it is durable
  sbCache,              \* the superblock as the process reads it
  sbDisk,               \* the superblock as far as it is durable
  pc,                   \* where journal_commit or sync is
  inCommit,             \* the running sync was called by journal_commit
  state,                \* tree and next_ino in memory
  log,                  \* Btree::log, records not yet drained
  group,                \* records drained by the running commit, not yet appended
  next_journal_seq,
  last_checkpoint_seq,
  legal,                \* history: states a crash may fall back to
  ackEnd,               \* history: next_journal_seq when a commit or sync last returned
  overrun               \* history: a group since the checkpoint laps the ring

deviceVars == <<cache, disk, sbCache, sbDisk>>
memoryVars == <<state, log, group, next_journal_seq, last_checkpoint_seq>>
historyVars == <<legal, ackEnd, overrun>>
vars == <<deviceVars, pc, inCommit, memoryVars, historyVars>>

TypeOK ==
  /\ cache \in [Slots -> Frame]
  /\ disk \in [Slots -> Frame]
  /\ sbCache \in Superblock
  /\ sbDisk \in Superblock
  /\ pc \in {"idle", "flush", "swap", "publish", "reclaim", "append", "fsync"}
  /\ inCommit \in BOOLEAN
  /\ state \in State
  /\ log \in Seq(Record)
  /\ group \in Seq(Record)
  /\ next_journal_seq \in Nat
  /\ last_checkpoint_seq \in Nat
  /\ legal \in SUBSET State
  /\ ackEnd \in Nat
  /\ overrun \in {"no", "yes", "crashed"}
-----------------------------------------------------------------------------
(***************************************************************************)
(* Fs::create: seed, drain the log, sync.                                  *)
(***************************************************************************)
FreshState == [tree |-> [k \in Keys |-> 0], next_ino |-> 1]

Init ==
  /\ cache = [s \in Slots |-> ZeroFrame]
  /\ disk = cache
  /\ sbCache = [journal_seq |-> 0, state |-> FreshState]
  /\ sbDisk = sbCache
  /\ pc = "idle"
  /\ inCommit = FALSE
  /\ state = FreshState
  /\ log = <<>>
  /\ group = <<>>
  /\ next_journal_seq = 1
  /\ last_checkpoint_seq = 0
  /\ legal = {FreshState}
  /\ ackEnd = 1
  /\ overrun = "no"

(***************************************************************************)
(* One file system operation with n log records: it changes the tree in    *)
(* memory, allocates from next_ino and leaves its records in the log.  The *)
(* value tells the operations apart.                                       *)
(***************************************************************************)
Mutate(n) ==
  LET val  == state.next_ino
      recs == [i \in 1 .. n |-> [key |-> i, val |-> val]]
      st   == [tree |-> [k \in Keys |-> IF k \in 1 .. n THEN val ELSE state.tree[k]],
               next_ino |-> val + 1]
  IN  /\ pc = "idle"
      /\ Len(log) + n <= MaxRecords
      /\ val <= MaxIno
      /\ log' = log \o recs
      /\ state' = st
      /\ legal' = legal \cup {st}
      /\ UNCHANGED <<deviceVars, pc, inCommit, group, next_journal_seq,
                     last_checkpoint_seq, ackEnd, overrun>>

Outstanding == next_journal_seq - last_checkpoint_seq

\* Mutant: the guard lets one frame more through.
JournalCommitLate ==
  /\ pc = "idle"
  /\ next_journal_seq < MaxSeq
  /\ pc' = IF Outstanding > JOURNAL_RECLAIM_SOFT_LIMIT THEN "flush" ELSE "reclaim"
  /\ inCommit' = TRUE
  /\ UNCHANGED <<deviceVars, memoryVars, historyVars>>

\* Entry of journal_commit: a ring near capacity forces a checkpoint first.
JournalCommit ==
  /\ pc = "idle"
  /\ next_journal_seq < MaxSeq
  /\ pc' = IF Outstanding >= JOURNAL_RECLAIM_SOFT_LIMIT THEN "flush" ELSE "reclaim"
  /\ inCommit' = TRUE
  /\ UNCHANGED <<deviceVars, memoryVars, historyVars>>

saturating_sub(a, b) == IF a > b THEN a - b ELSE 0

reclaim_budget_for_commit ==
  LET headroom == saturating_sub(JOURNAL_RECLAIM_SOFT_LIMIT, Outstanding)
  IN  saturating_sub(headroom, Len(log) + RECLAIM_COMMIT_RESERVED_FRAMES)

(***************************************************************************)
(* Bounded reclaim, then drain_log.  Reclaim logs one record per extent up *)
(* to its budget, and one record more when it saves its progress.  Nothing *)
(* here looks at the size of the group: one that does not fit next to the  *)
(* frames since the checkpoint overruns them.                              *)
(***************************************************************************)
Reclaim(n) ==
  /\ pc = "reclaim"
  /\ n <= reclaim_budget_for_commit + (IF reclaim_budget_for_commit > 0 THEN 1 ELSE 0)
  /\ group' = log \o [i \in 1 .. n |-> NoRecord]
  /\ log' = <<>>
  /\ pc' = "append"
  /\ overrun' = IF overrun = "no" /\ Outstanding + Len(group') > JOURNAL_CAPACITY
                THEN "yes" ELSE overrun
  /\ UNCHANGED <<deviceVars, inCommit, state, next_journal_seq,
                 last_checkpoint_seq, legal, ackEnd>>

\* How far a write is durable before the next fsync.
Unsynced(new, old) == IF CrashMode = "process" THEN new ELSE old

append(frame) ==
  /\ cache' = [cache EXCEPT ![frame_slot(frame.seq)] = frame]
  /\ disk' = Unsynced(cache', disk)
  /\ UNCHANGED <<sbCache, sbDisk>>

\* One LoggedOp frame at its ring slot.
AppendOp ==
  /\ pc = "append"
  /\ group # <<>>
  /\ append(LoggedOp(next_journal_seq, Head(group)))
  /\ next_journal_seq' = next_journal_seq + 1
  /\ group' = Tail(group)
  /\ UNCHANGED <<pc, inCommit, state, log, last_checkpoint_seq, historyVars>>

\* The CommitEnd frame carries the scalars replay cannot derive.
AppendEnd ==
  /\ pc = "append"
  /\ group = <<>>
  /\ append(CommitEnd(next_journal_seq, state.next_ino))
  /\ next_journal_seq' = next_journal_seq + 1
  /\ pc' = "fsync"
  /\ UNCHANGED <<inCommit, state, log, group, last_checkpoint_seq, historyVars>>

fsync == disk' = cache /\ sbDisk' = sbCache

\* Mutant: journal_commit returns without its fsync.
CommitNoFsync ==
  /\ pc = "fsync"
  /\ pc' = "idle"
  /\ inCommit' = FALSE
  /\ legal' = {state}
  /\ ackEnd' = next_journal_seq
  /\ UNCHANGED <<deviceVars, memoryVars, overrun>>

\* The fsync that ends journal_commit: the caller now counts on the group.
CommitFsync ==
  /\ pc = "fsync"
  /\ fsync
  /\ pc' = "idle"
  /\ inCommit' = FALSE
  /\ legal' = {state}
  /\ ackEnd' = next_journal_seq
  /\ UNCHANGED <<cache, sbCache, memoryVars, overrun>>
-----------------------------------------------------------------------------
(***************************************************************************)
(* Fs::sync: write the tree to fresh blocks and fsync, write the           *)
(* superblock, fsync again.  It does not drain the log.                    *)
(***************************************************************************)
Sync ==
  /\ pc = "idle"
  /\ pc' = "flush"
  /\ UNCHANGED <<deviceVars, inCommit, memoryVars, historyVars>>

SyncFlush ==
  /\ pc = "flush"
  /\ fsync
  /\ pc' = "swap"
  /\ UNCHANGED <<cache, sbCache, inCommit, memoryVars, historyVars>>

\* Mutant: the checkpoint claims the frame the next commit will write.
SyncSwapAhead ==
  /\ pc = "swap"
  /\ sbCache' = [journal_seq |-> next_journal_seq, state |-> state]
  /\ sbDisk' = Unsynced(sbCache', sbDisk)
  /\ pc' = "publish"
  /\ UNCHANGED <<cache, disk, inCommit, memoryVars, historyVars>>

SyncSwap ==
  /\ pc = "swap"
  /\ sbCache' = [journal_seq |-> next_journal_seq - 1, state |-> state]
  /\ sbDisk' = Unsynced(sbCache', sbDisk)
  /\ pc' = "publish"
  /\ UNCHANGED <<cache, disk, inCommit, memoryVars, historyVars>>

\* Mutant: sync does not record that the ring is trimmed.
SyncPublishOldMark ==
  /\ pc = "publish"
  /\ fsync
  /\ pc' = IF inCommit THEN "reclaim" ELSE "idle"
  /\ legal' = {state}
  /\ ackEnd' = next_journal_seq
  /\ overrun' = IF overrun = "yes" THEN "no" ELSE overrun
  /\ UNCHANGED <<cache, sbCache, inCommit, memoryVars>>

SyncPublish ==
  /\ pc = "publish"
  /\ fsync
  /\ last_checkpoint_seq' = next_journal_seq - 1
  /\ pc' = IF inCommit THEN "reclaim" ELSE "idle"
  /\ legal' = {state}
  /\ ackEnd' = next_journal_seq
  /\ overrun' = IF overrun = "yes" THEN "no" ELSE overrun
  /\ UNCHANGED <<cache, sbCache, inCommit, state, log, group, next_journal_seq>>
-----------------------------------------------------------------------------
(***************************************************************************)
(* Fs::open on a ring and a superblock.                                    *)
(***************************************************************************)
\* The sequence numbers scan_groups accepts: a gap-free run of valid frames,
\* at most one lap long.
Readable(ring, start) ==
  {n \in start .. start + JOURNAL_CAPACITY - 1 :
     \A m \in start .. n : is_valid(ring[frame_slot(m)], m)}

\* Mutant: a group needs no CommitEnd.
GroupEndsAnyFrame(ring, start) == Readable(ring, start)

GroupEnds(ring, start) ==
  {n \in Readable(ring, start) : ring[frame_slot(n)].kind = "CommitEnd"}

\* Mutant: the journal continues at the checkpoint.
next_seq_at_checkpoint(ring, start) == start

\* One past the last complete group; frames after it are a torn commit.
next_seq_after_scan(ring, start) ==
  IF GroupEnds(ring, start) = {} THEN start ELSE Max(GroupEnds(ring, start)) + 1

\* Replaying the groups in order leaves each key as its last record wrote it.
replay(ring, start, end, tree) ==
  LET Writes(k) == {n \in start .. end - 1 :
                      /\ ring[frame_slot(n)].kind = "LoggedOp"
                      /\ ring[frame_slot(n)].rec.key = k}
  IN  [k \in Keys |-> IF Writes(k) = {} THEN tree[k]
                      ELSE ring[frame_slot(Max(Writes(k)))].rec.val]

RecoveredState(ring, sb) ==
  LET start == sb.journal_seq + 1
      end   == next_seq_after_scan(ring, start)
  IN  [tree |-> replay(ring, start, end, sb.state.tree),
       next_ino |-> IF end = start THEN sb.state.next_ino
                    ELSE ring[frame_slot(end - 1)].next_ino]

Open(ring, sb) ==
  /\ state' = RecoveredState(ring, sb)
  /\ next_journal_seq' = next_seq_after_scan(ring, sb.journal_seq + 1)
  /\ last_checkpoint_seq' = sb.journal_seq
  /\ log' = <<>>
  /\ group' = <<>>
  /\ pc' = "idle"
  /\ inCommit' = FALSE
  /\ legal' = {RecoveredState(ring, sb)}
  /\ overrun' = IF overrun = "no" THEN "no" ELSE "crashed"
  /\ UNCHANGED ackEnd

journal_block(slot) == slot \div ENTRIES_PER_BLOCK

\* What each journal block holds after a power failure: its durable content,
\* the process's content, or an unreadable mix where the two differ.
RingAfter(outcome) ==
  [s \in Slots |->
     IF cache[s] = disk[s] \/ outcome[journal_block(s)] = "new" THEN cache[s]
     ELSE IF outcome[journal_block(s)] = "old" THEN disk[s] ELSE TornFrame]

DirtyBlocks == {journal_block(s) : s \in {t \in Slots : cache[t] # disk[t]}}

Survivors ==
  {[ring |-> RingAfter([b \in 0 .. JOURNAL_BLOCKS - 1 |->
                          IF b \in DirtyBlocks THEN out[b] ELSE "old"]),
    sb |-> s] :
      out \in [DirtyBlocks -> {"old", "new", "torn"}], s \in {sbDisk, sbCache}}

\* The process stops at any point and the image is reopened as it survived.
Crash ==
  \E img \in Survivors :
    /\ Open(img.ring, img.sb)
    /\ cache' = img.ring
    /\ disk' = img.ring
    /\ sbCache' = img.sb
    /\ sbDisk' = img.sb
-----------------------------------------------------------------------------
\* Everything the running process does; crashes come on top.
Run ==
  \/ \E n \in 1 .. MaxRecords : Mutate(n)
  \/ JournalCommit
  \/ \E n \in 0 .. JOURNAL_CAPACITY : Reclaim(n)
  \/ AppendOp
  \/ AppendEnd
  \/ CommitFsync
  \/ Sync
  \/ SyncFlush
  \/ SyncSwap
  \/ SyncPublish

Next == Run \/ Crash

Spec == Init /\ [][Next]_vars

\* A machine that has not failed yet.
SpecUntilFailure == Init /\ [][Run]_vars
-----------------------------------------------------------------------------
(***************************************************************************)
(* The near-full guard of journal_commit leaves RingReserve frames and the *)
(* CommitEnd's; a larger group (a truncation logs one record per extent)   *)
(* may lap the ring.  The properties below are promised while none does:   *)
(* from the start, and again from the next checkpoint on, unless a crash   *)
(* comes in between.                                                       *)
(***************************************************************************)
Intact == overrun = "no"

(***************************************************************************)
(* The guard is enough for every other group (journal_commit): only a      *)
(* commit that finds more than RingReserve + 1 records in the log overruns *)
(* the ring, whatever reclaim adds to it.                                  *)
(***************************************************************************)
OnlyLargeGroupsOverrun ==
  [][(overrun # "yes" /\ overrun' = "yes") => Len(log) > RingReserve + 1]_vars

(***************************************************************************)
(* Crash atomicity (Fs::open, scan_groups): whatever the crash, recovery   *)
(* shows the state of the last acknowledged commit or sync, or a later     *)
(* state at an operation boundary; never a part of a group.                *)
(***************************************************************************)
RecoveryIsLegal ==
  Intact => \A img \in Survivors : RecoveredState(img.ring, img.sb) \in legal

(***************************************************************************)
(* Durability (journal_commit, next_seq_after_scan): whatever the crash,   *)
(* the scan gets past the last group that was acknowledged, so the next    *)
(* commit cannot reuse its sequence numbers either.                        *)
(***************************************************************************)
NoAckedGroupLost ==
  Intact =>
    \A img \in Survivors :
      next_seq_after_scan(img.ring, img.sb.journal_seq + 1) >= ackEnd

(***************************************************************************)
(* The ring never eats its tail (journal_commit's near-full guard): a step *)
(* leaves the frame of an acknowledged group alone until a checkpoint has  *)
(* passed it.                                                              *)
(***************************************************************************)
AckedFramesKept ==
  [][Intact =>
       \A s \in last_checkpoint_seq + 1 .. ackEnd - 1 :
         s > last_checkpoint_seq' => cache'[frame_slot(s)] = cache[frame_slot(s)]]_vars

(***************************************************************************)
(* Why the ring keeps acknowledged groups (journal_commit, sync, open): the*)
(* frames since the checkpoint fit in one lap and are readable, those of   *)
(* acknowledged groups are durable and end with a CommitEnd, and what a    *)
(* commit has left to append fits as well.                                 *)
(***************************************************************************)
RingInv ==
  /\ last_checkpoint_seq < next_journal_seq
  /\ ackEnd <= next_journal_seq
  /\ next_journal_seq - 1 - last_checkpoint_seq <= JOURNAL_CAPACITY
  /\ \A sb \in {sbDisk, sbCache} :
       \/ sb.journal_seq = last_checkpoint_seq
       \/ pc = "publish" /\ sb.journal_seq = next_journal_seq - 1
  /\ pc = "publish" => sbCache.journal_seq = next_journal_seq - 1
  /\ pc = "reclaim" => Outstanding < JOURNAL_RECLAIM_SOFT_LIMIT
  /\ pc = "append" => Outstanding + Len(group) <= JOURNAL_CAPACITY
  /\ pc = "fsync" => cache[frame_slot(next_journal_seq - 1)].kind = "CommitEnd"
  /\ \A s \in last_checkpoint_seq + 1 .. next_journal_seq - 1 :
       is_valid(cache[frame_slot(s)], s)
  /\ \A s \in last_checkpoint_seq + 1 .. ackEnd - 1 :
       disk[frame_slot(s)] = cache[frame_slot(s)]
  /\ ackEnd > last_checkpoint_seq + 1 =>
       cache[frame_slot(ackEnd - 1)].kind = "CommitEnd"

\* The same while no group laps the ring; a checkpoint makes it true again.
RingIntact == Intact => RingInv

(***************************************************************************)
(* Reclaim pays for itself (reclaim_budget_for_commit): a commit that      *)
(* takes reclaim records with it stays below the soft watermark, CommitEnd *)
(* and progress record included.                                           *)
(***************************************************************************)
ReclaimKeepsWatermark ==
  [][(pc = "reclaim" /\ pc' = "append" /\ Len(group') > Len(log)) =>
       Outstanding + Len(group') + 1 <= JOURNAL_RECLAIM_SOFT_LIMIT]_vars
=============================================================================
