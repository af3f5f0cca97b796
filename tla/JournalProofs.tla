--------------------------- MODULE JournalProofs ---------------------------
(***************************************************************************)
(* Proofs about the journal ring: durability of acknowledged commit groups *)
(* for every ring size, crash mode and operation bound.                    *)
(***************************************************************************)
EXTENDS Journal, TLAPS, WellFoundedInduction, SequenceTheorems

(***************************************************************************)
(* A nonempty set of integers with an upper bound has a greatest element,  *)
(* and Max picks it (used for next_seq_after_scan and replay).             *)
(***************************************************************************)
LEMMA MaxOfBounded ==
  ASSUME NEW S \in SUBSET Int, S # {}, NEW hi \in Int, \A x \in S : x <= hi
  PROVE  Max(S) \in S /\ \A x \in S : x <= Max(S)
<1> DEFINE T == {hi - x : x \in S}
           R == OpToRel(<, Nat)
<1>1. T \subseteq Nat /\ T # {}
  <2>1. ASSUME NEW x \in S PROVE hi - x \in Nat
    OBVIOUS
  <2> QED
    BY <2>1, Zenon
<1>2. PICK d \in T : \A y \in T : ~(<<y, d>> \in R)
  <2>1. IsWellFoundedOn(R, Nat)
    BY NatLessThanWellFounded, Zenon
  <2> HIDE DEF T, R
  <2> QED
    BY <1>1, <2>1, WFMin, Zenon
<1>3. \A y \in T : ~(y < d)
  BY <1>1, <1>2, Zenon DEF OpToRel
<1>4. PICK m \in S : d = hi - m
  BY <1>2, Zenon
<1>5. ASSUME NEW x \in S PROVE m >= x
  <2>1. hi - x \in T /\ m \in Int /\ x \in Int
    BY <1>4
  <2> HIDE DEF T
  <2> QED
    BY <1>3, <1>4, <2>1
<1>6. \E x \in S : \A y \in S : x >= y
  BY <1>4, <1>5
<1> QED
  BY <1>6, Zenon DEF Max

(***************************************************************************)
(* Two sequence numbers less than a lap apart have different ring slots.   *)
(***************************************************************************)
LEMMA SlotsDiffer ==
  ASSUME NEW a \in Nat, NEW b \in Nat, a < b, b - a < JOURNAL_CAPACITY
  PROVE  frame_slot(a) # frame_slot(b)
<1> DEFINE C == JOURNAL_CAPACITY
<1>1. C \in Nat /\ C > 0
  BY JournalConstants
<1> HIDE DEF C
<1>2. a = C * (a \div C) + (a % C) /\ b = C * (b \div C) + (b % C)
  BY <1>1
<1>3. a \div C \in Int /\ b \div C \in Int
  BY <1>1
<1>4. SUFFICES ASSUME a % C = b % C PROVE FALSE
  BY DEF frame_slot, C
<1> DEFINE q == (b \div C) - (a \div C)
<1>5. b - a = C * q /\ q \in Int
  BY <1>1, <1>2, <1>3, <1>4
<1> HIDE DEF q
<1>6. q >= 1
  BY <1>1, <1>5
<1>7. C * q >= C
  BY <1>1, <1>5, <1>6
<1> QED
  BY <1>1, <1>5, <1>7 DEF C

LEMMA SlotType ==
  ASSUME NEW n \in Nat
  PROVE  frame_slot(n) \in Slots
<1> DEFINE C == JOURNAL_CAPACITY
<1>1. C \in Nat /\ C > 0
  BY JournalConstants
<1> HIDE DEF C
<1>2. n % C \in 0 .. C - 1
  BY <1>1
<1> QED
  BY <1>2 DEF frame_slot, Slots, C

(***************************************************************************)
(* Where the scan of Fs::open stops: inside one lap, right after the last  *)
(* CommitEnd frame it could reach.                                         *)
(***************************************************************************)
LEMMA ScanResult ==
  ASSUME NEW ring, NEW start \in Nat
  PROVE  LET end == next_seq_after_scan(ring, start)
         IN  /\ end \in start .. start + JOURNAL_CAPACITY
             /\ end # start => end - 1 \in GroupEnds(ring, start)
             /\ \A e \in GroupEnds(ring, start) : e < end
<1> DEFINE E == GroupEnds(ring, start)
           end == next_seq_after_scan(ring, start)
<1>1. JOURNAL_CAPACITY \in Nat
  BY JournalConstants
<1>2. E \subseteq start .. start + JOURNAL_CAPACITY - 1
  BY DEF GroupEnds, Readable
<1>3. CASE E = {}
  BY <1>1, <1>3 DEF next_seq_after_scan
<1>4. CASE E # {}
  <2>1. Max(E) \in E /\ \A x \in E : x <= Max(E)
    <3>1. E \in SUBSET Int /\ start + JOURNAL_CAPACITY - 1 \in Int
      BY <1>1, <1>2
    <3>2. \A x \in E : x <= start + JOURNAL_CAPACITY - 1
      BY <1>1, <1>2
    <3> HIDE DEF E
    <3> QED
      BY <1>4, <3>1, <3>2, MaxOfBounded, Zenon
  <2>2. end = Max(E) + 1
    BY <1>4 DEF next_seq_after_scan
  <2> HIDE DEF E, end
  <2>3. Max(E) \in start .. start + JOURNAL_CAPACITY - 1
    BY <1>2, <2>1, Zenon
  <2>4. /\ end \in start .. start + JOURNAL_CAPACITY
        /\ end - 1 \in E
        /\ \A e \in E : e < end
    BY <1>1, <1>2, <2>1, <2>2, <2>3
  <2> QED
    BY <2>4 DEF E, end
<1> QED
  BY <1>3, <1>4

\* Every frame before the point the scan stops at was accepted.
LEMMA ScanValid ==
  ASSUME NEW ring, NEW start \in Nat,
         NEW s \in start .. next_seq_after_scan(ring, start) - 1
  PROVE  is_valid(ring[frame_slot(s)], s)
<1> DEFINE end == next_seq_after_scan(ring, start)
<1>1. end \in start .. start + JOURNAL_CAPACITY /\ (end # start => end - 1 \in GroupEnds(ring, start))
  BY ScanResult
<1>2. JOURNAL_CAPACITY \in Nat
  BY JournalConstants
<1>3. s \in start .. end - 1
  OBVIOUS
<1> HIDE DEF end
<1>4. end # start
  BY <1>1, <1>2, <1>3
<1>5. end - 1 \in Readable(ring, start)
  BY <1>1, <1>4 DEF GroupEnds
<1>6. \A m \in start .. end - 1 : is_valid(ring[frame_slot(m)], m)
  BY <1>5 DEF Readable
<1> QED
  BY <1>3, <1>6

\* The sequence number one past the scan is a natural number.
LEMMA ScanNat ==
  ASSUME NEW ring, NEW start \in Nat
  PROVE  next_seq_after_scan(ring, start) \in Nat /\ next_seq_after_scan(ring, start) >= start
<1> DEFINE end == next_seq_after_scan(ring, start)
<1>1. end \in start .. start + JOURNAL_CAPACITY /\ JOURNAL_CAPACITY \in Nat
  BY ScanResult, JournalConstants
<1> HIDE DEF end
<1>2. end \in Nat /\ end >= start
  BY <1>1
<1> QED
  BY <1>2 DEF end
-----------------------------------------------------------------------------
(***************************************************************************)
(* Type correctness.  A checkpoint records next_journal_seq - 1, so the    *)
(* type invariant needs that sequence numbers start at 1.                  *)
(***************************************************************************)
TypeInv == TypeOK /\ next_journal_seq >= 1

\* The record sequences an operation or a reclaim pass adds to the log.
LEMMA RecordSeq ==
  ASSUME NEW n \in Nat, NEW f, f \in [1 .. n -> Record]
  PROVE  f \in Seq(Record) /\ Len(f) = n
OBVIOUS

\* A ring that survives a crash holds frames, and keeps what was durable.
LEMMA SurvivorType ==
  ASSUME TypeOK, NEW img \in Survivors
  PROVE  /\ img.ring \in [Slots -> Frame]
         /\ img.sb \in {sbDisk, sbCache}
         /\ \A s \in Slots : cache[s] = disk[s] => img.ring[s] = cache[s]
<1>1. TornFrame \in Frame
  <2>1. NoRecord \in Record
    BY JournalConstants DEF NoRecord, Record, Keys, Values
  <2> QED
    BY <2>1 DEF TornFrame, Frame
<1>2. PICK out \in [DirtyBlocks -> {"old", "new", "torn"}], s \in {sbDisk, sbCache} :
        img = [ring |-> RingAfter([b \in 0 .. JOURNAL_BLOCKS - 1 |->
                                     IF b \in DirtyBlocks THEN out[b] ELSE "old"]),
               sb |-> s]
  BY DEF Survivors
<1>3. \A outcome : /\ RingAfter(outcome) \in [Slots -> Frame]
                   /\ \A t \in Slots : cache[t] = disk[t] => RingAfter(outcome)[t] = cache[t]
  BY <1>1 DEF RingAfter, TypeOK
<1> QED
  BY <1>2, <1>3

\* What recovery computes from a well-formed image is well formed.
LEMMA RecoveredType ==
  ASSUME NEW ring \in [Slots -> Frame], NEW sb \in Superblock
  PROVE  RecoveredState(ring, sb) \in State
<1> DEFINE start == sb.journal_seq + 1
           end == next_seq_after_scan(ring, start)
           W(k) == {n \in start .. end - 1 :
                      /\ ring[frame_slot(n)].kind = "LoggedOp"
                      /\ ring[frame_slot(n)].rec.key = k}
<1>1. start \in Nat /\ sb.state \in State
  BY DEF Superblock
<1>2. end \in Nat /\ end >= start
  BY <1>1, ScanNat
<1>3. \A n \in Nat : ring[frame_slot(n)] \in Frame
  BY SlotType
<1> HIDE DEF start, end
<1>4. ASSUME NEW k \in Keys, W(k) # {}
      PROVE  ring[frame_slot(Max(W(k)))].rec.val \in Values
  <2>1. W(k) \in SUBSET Int /\ \A x \in W(k) : x <= end - 1
    BY <1>1, <1>2
  <2>2. Max(W(k)) \in W(k)
    <3>1. end - 1 \in Int
      BY <1>2
    <3> HIDE DEF W
    <3> QED
      BY <1>4, <2>1, <3>1, MaxOfBounded, Zenon
  <2>3. Max(W(k)) \in Nat
    BY <1>1, <1>2, <2>2
  <2> HIDE DEF W
  <2> QED
    BY <1>3, <2>3 DEF Frame, Record
<1>5. replay(ring, start, end, sb.state.tree) \in [Keys -> Values]
  BY <1>1, <1>4 DEF replay, State
<1>6. end # start => ring[frame_slot(end - 1)].next_ino \in Nat
  BY <1>1, <1>2, <1>3 DEF Frame
<1>7. sb.state.next_ino \in Nat
  BY <1>1 DEF State
<1>8. RecoveredState(ring, sb) =
        [tree |-> replay(ring, start, end, sb.state.tree),
         next_ino |-> IF end = start THEN sb.state.next_ino
                      ELSE ring[frame_slot(end - 1)].next_ino]
  BY DEF RecoveredState, start, end
<1> QED
  BY <1>5, <1>6, <1>7, <1>8 DEF State

LEMMA TypeInit == Init => TypeInv
<1> SUFFICES ASSUME Init PROVE TypeInv
  OBVIOUS
<1>1. NoRecord \in Record
  BY JournalConstants DEF NoRecord, Record, Keys, Values
<1>2. ZeroFrame \in Frame
  BY <1>1 DEF ZeroFrame, Frame
<1>3. FreshState \in State
  BY JournalConstants DEF FreshState, State, Keys, Values
<1>4. sbCache \in Superblock
  BY <1>3 DEF Init, Superblock
<1>5. /\ cache \in [Slots -> Frame]
      /\ disk \in [Slots -> Frame]
      /\ sbDisk \in Superblock
      /\ state \in State
      /\ legal \in SUBSET State
  BY <1>2, <1>3, <1>4 DEF Init
<1>6. log \in Seq(Record) /\ group \in Seq(Record)
  BY EmptySeq DEF Init
<1>7. /\ pc = "idle"
      /\ inCommit \in BOOLEAN
      /\ next_journal_seq = 1
      /\ last_checkpoint_seq = 0
      /\ ackEnd = 1
      /\ overrun = "no"
  BY Zenon DEF Init
<1> QED
  BY <1>4, <1>5, <1>6, <1>7 DEF TypeInv, TypeOK

LEMMA TypeStep == TypeInv /\ [Next]_vars => TypeInv'
<1> SUFFICES ASSUME TypeInv, [Next]_vars PROVE TypeInv'
  OBVIOUS
<1> USE DEF TypeInv
<1>0. NoRecord \in Record
  BY JournalConstants DEF NoRecord, Record, Keys, Values
<1>1. ASSUME NEW n \in 1 .. MaxRecords, Mutate(n) PROVE TypeInv'
  <2> DEFINE recs == [i \in 1 .. n |-> [key |-> i, val |-> state.next_ino]]
             st == [tree |-> [k \in Keys |-> IF k \in 1 .. n THEN state.next_ino ELSE state.tree[k]],
                    next_ino |-> state.next_ino + 1]
  <2>1. n \in Nat /\ state.next_ino \in Values
    BY <1>1, JournalConstants DEF Mutate, Values, TypeOK, State
  <2>2. recs \in Seq(Record)
    <3>1. recs \in [1 .. n -> Record]
      BY <2>1, JournalConstants DEF Record, Keys
    <3> QED
      BY <2>1, <3>1, RecordSeq
  <2>3. st \in State
    BY <2>1, JournalConstants DEF State, Values, TypeOK
  <2>4. log \o recs \in Seq(Record)
    BY <2>2, ConcatProperties DEF TypeOK
  <2> QED
    BY <1>1, <2>3, <2>4, Zenon DEF Mutate, TypeOK, deviceVars
<1>2. CASE JournalCommit
  BY <1>2 DEF JournalCommit, TypeOK, deviceVars, memoryVars, historyVars
<1>3. ASSUME NEW n \in 0 .. JOURNAL_CAPACITY, Reclaim(n) PROVE TypeInv'
  <2> DEFINE recs == [i \in 1 .. n |-> NoRecord]
  <2>1. n \in Nat
    BY JournalConstants
  <2>2. recs \in Seq(Record)
    BY <1>0, <2>1, RecordSeq
  <2>3. log \o recs \in Seq(Record)
    BY <2>2, ConcatProperties DEF TypeOK
  <2> QED
    BY <1>3, <2>3 DEF Reclaim, TypeOK, deviceVars, historyVars
<1>4. CASE AppendOp
  <2>1. Head(group) \in Record /\ Tail(group) \in Seq(Record)
    BY <1>4, HeadTailProperties DEF AppendOp, TypeOK
  <2>2. LoggedOp(next_journal_seq, Head(group)) \in Frame
    BY <2>1 DEF LoggedOp, Frame, TypeOK
  <2>3. cache' \in [Slots -> Frame] /\ disk' \in [Slots -> Frame]
    BY <1>4, <2>2, Zenon DEF AppendOp, append, Unsynced, TypeOK
  <2> QED
    <3>1. /\ next_journal_seq' = next_journal_seq + 1
          /\ group' = Tail(group)
          /\ UNCHANGED <<sbCache, sbDisk, pc, inCommit, state, log,
                         last_checkpoint_seq, legal, ackEnd, overrun>>
      BY <1>4 DEF AppendOp, append, historyVars
    <3> QED
      BY <2>1, <2>3, <3>1 DEF TypeOK
<1>5. CASE AppendEnd
  <2>1. CommitEnd(next_journal_seq, state.next_ino) \in Frame
    BY <1>0 DEF CommitEnd, Frame, TypeOK, State
  <2>2. cache' \in [Slots -> Frame] /\ disk' \in [Slots -> Frame]
    BY <1>5, <2>1, Zenon DEF AppendEnd, append, Unsynced, TypeOK
  <2> QED
    <3>1. /\ next_journal_seq' = next_journal_seq + 1
          /\ pc' = "fsync"
          /\ UNCHANGED <<sbCache, sbDisk, inCommit, state, log, group,
                         last_checkpoint_seq, legal, ackEnd, overrun>>
      BY <1>5 DEF AppendEnd, append, historyVars
    <3> QED
      BY <2>2, <3>1 DEF TypeOK
<1>6. CASE CommitFsync
  BY <1>6, Zenon DEF CommitFsync, fsync, TypeOK, memoryVars
<1>7. CASE Sync
  BY <1>7 DEF Sync, TypeOK, deviceVars, memoryVars, historyVars
<1>8. CASE SyncFlush
  BY <1>8 DEF SyncFlush, fsync, TypeOK, memoryVars, historyVars
<1>9. CASE SyncSwap
  <2>1. sbCache' \in Superblock
    BY <1>9 DEF SyncSwap, Superblock, TypeOK
  <2> QED
    BY <1>9, <2>1 DEF SyncSwap, Unsynced, TypeOK, memoryVars, historyVars
<1>10. CASE SyncPublish
  BY <1>10 DEF SyncPublish, fsync, TypeOK
<1>11. CASE Crash
  <2>1. PICK img \in Survivors :
          /\ Open(img.ring, img.sb)
          /\ cache' = img.ring
          /\ disk' = img.ring
          /\ sbCache' = img.sb
          /\ sbDisk' = img.sb
    BY <1>11 DEF Crash
  <2>2. img.ring \in [Slots -> Frame] /\ img.sb \in Superblock
    BY SurvivorType DEF TypeOK
  <2>3. RecoveredState(img.ring, img.sb) \in State
    BY <2>2, RecoveredType
  <2>4. img.sb.journal_seq + 1 \in Nat /\ img.sb.journal_seq \in Nat
    BY <2>2 DEF Superblock
  <2>5. next_journal_seq' \in Nat /\ next_journal_seq' >= 1
    BY <2>1, <2>4, ScanNat DEF Open
  <2> QED
    BY <2>1, <2>2, <2>3, <2>4, <2>5, EmptySeq, Zenon DEF Open, TypeOK
<1>12. CASE UNCHANGED vars
  BY <1>12 DEF vars, TypeOK, deviceVars, memoryVars, historyVars
<1> QED
  BY <1>1, <1>2, <1>3, <1>4, <1>5, <1>6, <1>7, <1>8, <1>9, <1>10, <1>11, <1>12
  DEF Next, Run

(***************************************************************************)
(* Every reachable state is well typed: in particular the sequence number  *)
(* sync stores in the superblock never underflows, and recovery only       *)
(* produces well-formed states.                                            *)
(***************************************************************************)
THEOREM TypeCorrect == Spec => []TypeOK
<1>1. TypeInv => TypeOK
  BY DEF TypeInv
<1> QED
  BY <1>1, TypeInit, TypeStep, PTL DEF Spec
-----------------------------------------------------------------------------
(***************************************************************************)
(* Durability.  RingInv is inductive next to TypeInv until a commit group  *)
(* laps the ring, and a checkpoint brings it back.                         *)
(***************************************************************************)

\* A frame appended less than a lap after the checkpoint leaves the frames
\* since the checkpoint alone and is readable itself.
LEMMA AppendKeeps ==
  ASSUME TypeInv, RingInv, Outstanding <= JOURNAL_CAPACITY,
         NEW frame \in Frame, frame.seq = next_journal_seq,
         frame.kind \in {"LoggedOp", "CommitEnd"},
         append(frame)
  PROVE  /\ \A s \in last_checkpoint_seq + 1 .. next_journal_seq - 1 :
              /\ frame_slot(s) # frame_slot(next_journal_seq)
              /\ cache'[frame_slot(s)] = cache[frame_slot(s)]
              /\ disk[frame_slot(s)] = cache[frame_slot(s)] =>
                   disk'[frame_slot(s)] = cache'[frame_slot(s)]
         /\ cache'[frame_slot(next_journal_seq)] = frame
         /\ \A s \in last_checkpoint_seq + 1 .. next_journal_seq :
              is_valid(cache'[frame_slot(s)], s)
<1>1. /\ next_journal_seq \in Nat
      /\ last_checkpoint_seq \in Nat
      /\ JOURNAL_CAPACITY \in Nat
      /\ next_journal_seq - last_checkpoint_seq <= JOURNAL_CAPACITY
      /\ last_checkpoint_seq < next_journal_seq
      /\ cache \in [Slots -> Frame]
  BY JournalConstants DEF TypeInv, TypeOK, RingInv, Outstanding
<1>2. cache' = [cache EXCEPT ![frame_slot(next_journal_seq)] = frame]
  BY DEF append
<1>3. cache'[frame_slot(next_journal_seq)] = frame
  BY <1>1, <1>2, SlotType
<1>4. ASSUME NEW s \in last_checkpoint_seq + 1 .. next_journal_seq - 1
      PROVE  /\ frame_slot(s) # frame_slot(next_journal_seq)
             /\ cache'[frame_slot(s)] = cache[frame_slot(s)]
  <2>1. s \in Nat /\ s < next_journal_seq /\ next_journal_seq - s < JOURNAL_CAPACITY
    BY <1>1
  <2> QED
    BY <1>1, <1>2, <2>1, SlotsDiffer, SlotType
<1>5. ASSUME NEW s \in last_checkpoint_seq + 1 .. next_journal_seq - 1,
             disk[frame_slot(s)] = cache[frame_slot(s)]
      PROVE  disk'[frame_slot(s)] = cache'[frame_slot(s)]
  BY <1>4, <1>5 DEF append, Unsynced
<1>6. ASSUME NEW s \in last_checkpoint_seq + 1 .. next_journal_seq
      PROVE  is_valid(cache'[frame_slot(s)], s)
  <2>1. CASE s = next_journal_seq
    BY <1>3, <2>1 DEF is_valid
  <2>2. CASE s # next_journal_seq
    <3>1. s \in last_checkpoint_seq + 1 .. next_journal_seq - 1
      BY <1>1, <2>2
    <3> QED
      BY <1>4, <3>1 DEF RingInv
  <2> QED
    BY <2>1, <2>2
<1> QED
  BY <1>3, <1>4, <1>5, <1>6

\* Whatever a crash leaves, the scan gets past the last acknowledged group.
LEMMA RecoveryFindsAcked ==
  ASSUME TypeInv, RingInv, NEW img \in Survivors
  PROVE  /\ next_seq_after_scan(img.ring, img.sb.journal_seq + 1) >= ackEnd
         /\ ackEnd > img.sb.journal_seq + 1 =>
              img.ring[frame_slot(ackEnd - 1)].kind = "CommitEnd"
<1> DEFINE start == img.sb.journal_seq + 1
           end == next_seq_after_scan(img.ring, start)
<1>1. /\ img.ring \in [Slots -> Frame]
      /\ img.sb \in {sbDisk, sbCache}
      /\ \A s \in Slots : cache[s] = disk[s] => img.ring[s] = cache[s]
  BY SurvivorType DEF TypeInv
<1>2. /\ next_journal_seq \in Nat /\ last_checkpoint_seq \in Nat /\ ackEnd \in Nat
      /\ JOURNAL_CAPACITY \in Nat
      /\ ackEnd <= next_journal_seq
      /\ next_journal_seq - 1 - last_checkpoint_seq <= JOURNAL_CAPACITY
      /\ last_checkpoint_seq < next_journal_seq
  BY JournalConstants DEF TypeInv, TypeOK, RingInv
<1>3. start = last_checkpoint_seq + 1 \/ start = next_journal_seq
  <2>1. \/ img.sb.journal_seq = last_checkpoint_seq
        \/ img.sb.journal_seq = next_journal_seq - 1
    BY <1>1 DEF RingInv
  <2> QED
    BY <1>2, <2>1
<1>4. start \in Nat
  BY <1>2, <1>3
<1>5. end \in Nat /\ end >= start
  BY <1>4, ScanNat
<1>6. CASE start >= ackEnd
  <2> HIDE DEF start, end
  <2>1. end >= ackEnd /\ ~(ackEnd > start)
    BY <1>2, <1>4, <1>5, <1>6
  <2> QED
    BY <2>1 DEF start, end
<1>7. CASE ~(start >= ackEnd)
  <2>1. start = last_checkpoint_seq + 1 /\ ackEnd > last_checkpoint_seq + 1
    BY <1>2, <1>3, <1>4, <1>7
  <2>2. ASSUME NEW s \in start .. ackEnd - 1
        PROVE  img.ring[frame_slot(s)] = cache[frame_slot(s)] /\ is_valid(cache[frame_slot(s)], s)
    <3>1. /\ s \in Nat
          /\ s \in last_checkpoint_seq + 1 .. ackEnd - 1
          /\ s \in last_checkpoint_seq + 1 .. next_journal_seq - 1
      BY <1>2, <2>1
    <3> QED
      BY <1>1, <3>1, SlotType DEF RingInv
  <2>3. ackEnd - 1 \in start .. ackEnd - 1
    BY <1>2, <1>4, <1>7
  <2>4. img.ring[frame_slot(ackEnd - 1)].kind = "CommitEnd"
    <3>1. cache[frame_slot(ackEnd - 1)].kind = "CommitEnd"
      BY <2>1 DEF RingInv
    <3> QED
      BY <2>2, <2>3, <3>1
  <2>5. ackEnd - 1 \in GroupEnds(img.ring, start)
    <3>1. ackEnd - 1 \in start .. start + JOURNAL_CAPACITY - 1
      BY <1>2, <2>1
    <3>2. \A m \in start .. ackEnd - 1 : is_valid(img.ring[frame_slot(m)], m)
      BY <2>2
    <3> QED
      BY <2>4, <3>1, <3>2 DEF GroupEnds, Readable
  <2>6. ackEnd - 1 < end
    BY <1>4, <2>5, ScanResult
  <2> HIDE DEF end
  <2>7. end >= ackEnd
    BY <1>2, <1>5, <2>6
  <2> QED
    BY <2>4, <2>7 DEF end
<1> QED
  BY <1>6, <1>7

LEMMA RingInit == Init => RingInv
<1> SUFFICES ASSUME Init PROVE RingInv
  OBVIOUS
<1>1. /\ sbCache.journal_seq = 0 /\ sbDisk.journal_seq = 0
      /\ pc = "idle"
      /\ next_journal_seq = 1 /\ last_checkpoint_seq = 0 /\ ackEnd = 1
  BY DEF Init
<1>2. last_checkpoint_seq + 1 .. next_journal_seq - 1 = {}
  BY <1>1
<1>3. last_checkpoint_seq + 1 .. ackEnd - 1 = {}
  BY <1>1
<1> QED
  BY <1>1, <1>2, <1>3, JournalConstants DEF RingInv

\* The numbers RingInv relates, with their types.
LEMMA RingNumbers ==
  ASSUME TypeInv
  PROVE  /\ next_journal_seq \in Nat /\ last_checkpoint_seq \in Nat /\ ackEnd \in Nat
         /\ next_journal_seq >= 1
         /\ JOURNAL_CAPACITY \in Nat /\ RingReserve \in Nat
         /\ RingReserve + 2 <= JOURNAL_CAPACITY
         /\ JOURNAL_RECLAIM_SOFT_LIMIT = JOURNAL_CAPACITY - RingReserve
         /\ Len(log) \in Nat /\ Len(group) \in Nat
BY JournalConstants, LenProperties DEF TypeInv, TypeOK, JOURNAL_RECLAIM_SOFT_LIMIT

\* A checkpoint in the making covers every frame written so far.
PublishInv == pc = "publish" => sbCache.journal_seq = next_journal_seq - 1

LEMMA PublishStep ==
  ASSUME PublishInv, [Next]_vars
  PROVE  PublishInv'
<1>1. CASE SyncSwap
  BY <1>1 DEF SyncSwap, memoryVars, PublishInv
<1>2. CASE UNCHANGED vars
  BY <1>2 DEF vars, deviceVars, memoryVars, PublishInv
<1>3. ASSUME ~ SyncSwap, ~ UNCHANGED vars PROVE pc' # "publish"
  BY <1>3, Zenon DEF Next, Run, Mutate, JournalCommit, Reclaim, AppendOp, AppendEnd, CommitFsync, Sync,
              SyncFlush, SyncPublish, Crash, Open
<1> QED
  BY <1>1, <1>2, <1>3 DEF PublishInv

\* The checkpoint leaves no frame to recover: the ring is in order whatever it was before.
LEMMA RingPublish ==
  ASSUME TypeInv, PublishInv, SyncPublish
  PROVE  RingInv'
<1>1. /\ disk' = cache /\ sbDisk' = sbCache
      /\ UNCHANGED <<cache, sbCache, next_journal_seq>>
      /\ last_checkpoint_seq' = next_journal_seq - 1
      /\ ackEnd' = next_journal_seq
      /\ pc = "publish" /\ pc' \in {"reclaim", "idle"}
  BY DEF SyncPublish, fsync
<1>2. sbCache.journal_seq = next_journal_seq - 1
  BY <1>1 DEF PublishInv
<1>3. /\ last_checkpoint_seq' < next_journal_seq'
      /\ ackEnd' <= next_journal_seq'
      /\ next_journal_seq' - 1 - last_checkpoint_seq' <= JOURNAL_CAPACITY
      /\ Outstanding' < JOURNAL_RECLAIM_SOFT_LIMIT
      /\ ~(ackEnd' > last_checkpoint_seq' + 1)
  BY <1>1, RingNumbers DEF Outstanding
<1>4. /\ last_checkpoint_seq' + 1 .. next_journal_seq' - 1 = {}
      /\ last_checkpoint_seq' + 1 .. ackEnd' - 1 = {}
  BY <1>1, RingNumbers
<1> QED
  BY <1>1, <1>2, <1>3, <1>4 DEF RingInv

\* A step that does not make a group lap the ring.
LEMMA RingStep ==
  ASSUME TypeInv, PublishInv, RingInv, TypeInv', [Next]_vars, Intact, Intact'
  PROVE  RingInv'
<1>0. /\ next_journal_seq \in Nat /\ last_checkpoint_seq \in Nat /\ ackEnd \in Nat
      /\ next_journal_seq >= 1
      /\ JOURNAL_CAPACITY \in Nat /\ RingReserve \in Nat
      /\ RingReserve + 2 <= JOURNAL_CAPACITY
      /\ JOURNAL_RECLAIM_SOFT_LIMIT = JOURNAL_CAPACITY - RingReserve
      /\ Len(log) \in Nat /\ Len(group) \in Nat
  BY RingNumbers
<1>1. ASSUME NEW n \in 1 .. MaxRecords, Mutate(n) PROVE RingInv'
  <2>1. /\ UNCHANGED <<cache, disk, sbCache, sbDisk, pc, next_journal_seq,
                       last_checkpoint_seq, ackEnd>>
        /\ pc = "idle"
    BY <1>1 DEF Mutate, deviceVars
  <2> QED
    BY <2>1 DEF RingInv
<1>2. CASE JournalCommit
  <2>1. /\ UNCHANGED <<cache, disk, sbCache, sbDisk, group, next_journal_seq,
                       last_checkpoint_seq, ackEnd>>
        /\ pc = "idle"
        /\ pc' \in {"flush", "reclaim"}
        /\ pc' = "reclaim" => ~(Outstanding >= JOURNAL_RECLAIM_SOFT_LIMIT)
    BY <1>2 DEF JournalCommit, deviceVars, memoryVars, historyVars
  <2>2. pc' = "reclaim" => Outstanding < JOURNAL_RECLAIM_SOFT_LIMIT
    BY <1>0, <2>1 DEF Outstanding
  <2> QED
    BY <2>1, <2>2 DEF RingInv, Outstanding
<1>3. ASSUME NEW n \in 0 .. JOURNAL_CAPACITY, Reclaim(n) PROVE RingInv'
  <2>1. /\ UNCHANGED <<cache, disk, sbCache, sbDisk, next_journal_seq,
                       last_checkpoint_seq, ackEnd>>
        /\ pc = "reclaim" /\ pc' = "append"
        /\ ~(Outstanding + Len(group') > JOURNAL_CAPACITY)
    BY <1>3 DEF Reclaim, deviceVars, Intact
  <2>2. Len(group') \in Nat
    BY LenProperties DEF TypeInv, TypeOK
  <2>3. Outstanding' + Len(group') <= JOURNAL_CAPACITY
    BY <1>0, <2>1, <2>2 DEF Outstanding
  <2> QED
    BY <2>1, <2>3 DEF RingInv
<1>4. CASE AppendOp
  <2> DEFINE frame == LoggedOp(next_journal_seq, Head(group))
  <2>1. Head(group) \in Record /\ Len(Tail(group)) = Len(group) - 1 /\ Len(group) >= 1
    BY <1>4, HeadTailProperties, EmptySeq, LenProperties DEF AppendOp, TypeInv, TypeOK
  <2>2. /\ frame \in Frame /\ frame.seq = next_journal_seq
        /\ frame.kind \in {"LoggedOp", "CommitEnd"}
    BY <2>1 DEF LoggedOp, Frame, TypeInv, TypeOK
  <2>3. Outstanding + Len(group) <= JOURNAL_CAPACITY
    BY <1>4 DEF AppendOp, RingInv
  <2>4. Outstanding <= JOURNAL_CAPACITY /\ Outstanding \in Int
    BY <1>0, <2>1, <2>3 DEF Outstanding
  <2>5. /\ append(frame)
        /\ next_journal_seq' = next_journal_seq + 1
        /\ group' = Tail(group)
        /\ pc = "append" /\ pc' = "append"
        /\ UNCHANGED <<sbCache, sbDisk, last_checkpoint_seq, ackEnd>>
    BY <1>4 DEF AppendOp, append, historyVars
  <2> HIDE DEF frame
  <2>6. /\ \A s \in last_checkpoint_seq + 1 .. next_journal_seq - 1 :
             /\ cache'[frame_slot(s)] = cache[frame_slot(s)]
             /\ disk[frame_slot(s)] = cache[frame_slot(s)] =>
                  disk'[frame_slot(s)] = cache'[frame_slot(s)]
        /\ \A s \in last_checkpoint_seq + 1 .. next_journal_seq :
             is_valid(cache'[frame_slot(s)], s)
    BY <2>2, <2>4, <2>5, AppendKeeps
  <2>7. Outstanding' + Len(group') <= JOURNAL_CAPACITY
    <3>1. Len(group') = Len(group) - 1
      BY <2>1, <2>5
    <3>2. Outstanding' = Outstanding + 1
      BY <1>0, <2>5 DEF Outstanding
    <3> QED
      BY <1>0, <2>3, <2>4, <3>1, <3>2
  <2>8. /\ last_checkpoint_seq' < next_journal_seq'
        /\ ackEnd' <= next_journal_seq'
        /\ next_journal_seq' - 1 - last_checkpoint_seq' <= JOURNAL_CAPACITY
    <3>1. last_checkpoint_seq < next_journal_seq /\ ackEnd <= next_journal_seq
      BY DEF RingInv
    <3>2. next_journal_seq - last_checkpoint_seq <= JOURNAL_CAPACITY
      BY <2>4 DEF Outstanding
    <3> QED
      BY <1>0, <2>5, <3>1, <3>2
  <2>9. \A s \in last_checkpoint_seq' + 1 .. next_journal_seq' - 1 :
          is_valid(cache'[frame_slot(s)], s)
    BY <1>0, <2>5, <2>6
  <2>10. /\ \A s \in last_checkpoint_seq' + 1 .. ackEnd' - 1 :
              disk'[frame_slot(s)] = cache'[frame_slot(s)]
         /\ ackEnd' > last_checkpoint_seq' + 1 =>
              cache'[frame_slot(ackEnd' - 1)].kind = "CommitEnd"
    <3>1. last_checkpoint_seq + 1 .. ackEnd - 1 \subseteq
            last_checkpoint_seq + 1 .. next_journal_seq - 1
      BY <1>0 DEF RingInv
    <3>2. ackEnd > last_checkpoint_seq + 1 =>
            ackEnd - 1 \in last_checkpoint_seq + 1 .. ackEnd - 1
      BY <1>0
    <3> QED
      BY <2>5, <2>6, <3>1, <3>2 DEF RingInv
  <2> QED
    BY <2>5, <2>7, <2>8, <2>9, <2>10 DEF RingInv
<1>5. CASE AppendEnd
  <2> DEFINE frame == CommitEnd(next_journal_seq, state.next_ino)
  <2>1. NoRecord \in Record
    BY JournalConstants DEF NoRecord, Record, Keys, Values
  <2>2. /\ frame \in Frame /\ frame.seq = next_journal_seq
        /\ frame.kind = "CommitEnd"
    BY <2>1 DEF CommitEnd, Frame, TypeInv, TypeOK, State
  <2>3. Outstanding <= JOURNAL_CAPACITY /\ Outstanding \in Int
    BY <1>0, <1>5 DEF AppendEnd, RingInv, Outstanding
  <2>4. /\ append(frame)
        /\ next_journal_seq' = next_journal_seq + 1
        /\ pc' = "fsync"
        /\ UNCHANGED <<sbCache, sbDisk, last_checkpoint_seq, ackEnd>>
        /\ pc = "append"
    BY <1>5 DEF AppendEnd, append, historyVars
  <2> HIDE DEF frame
  <2>5. /\ \A s \in last_checkpoint_seq + 1 .. next_journal_seq - 1 :
             /\ cache'[frame_slot(s)] = cache[frame_slot(s)]
             /\ disk[frame_slot(s)] = cache[frame_slot(s)] =>
                  disk'[frame_slot(s)] = cache'[frame_slot(s)]
        /\ cache'[frame_slot(next_journal_seq)] = frame
        /\ \A s \in last_checkpoint_seq + 1 .. next_journal_seq :
             is_valid(cache'[frame_slot(s)], s)
    BY <2>2, <2>3, <2>4, AppendKeeps
  <2>6. cache'[frame_slot(next_journal_seq' - 1)].kind = "CommitEnd"
    <3>1. next_journal_seq' - 1 = next_journal_seq
      BY <1>0, <2>4
    <3> QED
      BY <2>2, <2>5, <3>1
  <2>8. /\ last_checkpoint_seq' < next_journal_seq'
        /\ ackEnd' <= next_journal_seq'
        /\ next_journal_seq' - 1 - last_checkpoint_seq' <= JOURNAL_CAPACITY
    BY <1>0, <2>3, <2>4 DEF RingInv, Outstanding
  <2>9. \A s \in last_checkpoint_seq' + 1 .. next_journal_seq' - 1 :
          is_valid(cache'[frame_slot(s)], s)
    BY <1>0, <2>4, <2>5
  <2>10. /\ \A s \in last_checkpoint_seq' + 1 .. ackEnd' - 1 :
              disk'[frame_slot(s)] = cache'[frame_slot(s)]
         /\ ackEnd' > last_checkpoint_seq' + 1 =>
              cache'[frame_slot(ackEnd' - 1)].kind = "CommitEnd"
    <3>1. last_checkpoint_seq + 1 .. ackEnd - 1 \subseteq
            last_checkpoint_seq + 1 .. next_journal_seq - 1
      BY <1>0 DEF RingInv
    <3>2. ackEnd > last_checkpoint_seq + 1 =>
            ackEnd - 1 \in last_checkpoint_seq + 1 .. ackEnd - 1
      BY <1>0
    <3> QED
      BY <2>4, <2>5, <3>1, <3>2 DEF RingInv
  <2> QED
    BY <2>4, <2>6, <2>8, <2>9, <2>10 DEF RingInv
<1>6. CASE CommitFsync
  <2>1. /\ disk' = cache /\ sbDisk' = sbCache
        /\ UNCHANGED <<cache, sbCache, next_journal_seq, last_checkpoint_seq>>
        /\ ackEnd' = next_journal_seq
        /\ pc = "fsync" /\ pc' = "idle"
    BY <1>6 DEF CommitFsync, fsync, memoryVars
  <2>2. ackEnd' <= next_journal_seq'
    BY <1>0, <2>1
  <2> QED
    BY <2>1, <2>2 DEF RingInv
<1>7. CASE Sync
  BY <1>7 DEF Sync, RingInv, deviceVars, memoryVars, historyVars
<1>8. CASE SyncFlush
  BY <1>8 DEF SyncFlush, fsync, RingInv, memoryVars, historyVars
<1>9. CASE SyncSwap
  <2>1. sbCache'.journal_seq = next_journal_seq - 1
    BY <1>9 DEF SyncSwap
  <2>2. sbDisk' = sbCache' \/ sbDisk' = sbDisk
    BY <1>9 DEF SyncSwap, Unsynced
  <2>3. /\ UNCHANGED <<cache, disk, next_journal_seq, last_checkpoint_seq, ackEnd>>
        /\ pc = "swap" /\ pc' = "publish"
    BY <1>9 DEF SyncSwap, memoryVars, historyVars
  <2> QED
    BY <2>1, <2>2, <2>3 DEF RingInv
<1>10. CASE SyncPublish
  BY <1>10, RingPublish
<1>11. CASE Crash
  <2>1. PICK img \in Survivors :
          /\ Open(img.ring, img.sb)
          /\ cache' = img.ring
          /\ disk' = img.ring
          /\ sbCache' = img.sb
          /\ sbDisk' = img.sb
    BY <1>11 DEF Crash
  <2> DEFINE start == img.sb.journal_seq + 1
  <2>2. /\ last_checkpoint_seq' = img.sb.journal_seq
        /\ next_journal_seq' = next_seq_after_scan(img.ring, start)
        /\ pc' = "idle"
        /\ ackEnd' = ackEnd
    BY <2>1 DEF Open
  <2>3. start \in Nat /\ last_checkpoint_seq' \in Nat /\ start = last_checkpoint_seq' + 1
    BY <2>2 DEF TypeInv, TypeOK
  <2>4. next_journal_seq' \in start .. start + JOURNAL_CAPACITY
    BY <2>2, <2>3, ScanResult
  <2>5. /\ last_checkpoint_seq' < next_journal_seq'
        /\ next_journal_seq' - 1 - last_checkpoint_seq' <= JOURNAL_CAPACITY
    <3>1. last_checkpoint_seq' \in Nat /\ JOURNAL_CAPACITY \in Nat
      BY <1>0, <2>3
    <3>2. next_journal_seq' \in last_checkpoint_seq' + 1 ..
                                (last_checkpoint_seq' + 1) + JOURNAL_CAPACITY
      BY <2>3, <2>4, Zenon
    <3>3. ASSUME NEW l \in Nat, NEW c \in Nat, NEW x \in l + 1 .. (l + 1) + c
          PROVE  l < x /\ x - 1 - l <= c
      OBVIOUS
    <3> QED
      BY <3>1, <3>2, <3>3, Zenon
  <2>6. /\ next_journal_seq' >= ackEnd
        /\ ackEnd > start => img.ring[frame_slot(ackEnd - 1)].kind = "CommitEnd"
    BY <2>2, RecoveryFindsAcked
  <2>7. ackEnd' <= next_journal_seq'
    BY <1>0, <2>2, <2>4, <2>6
  <2>8. \A s \in last_checkpoint_seq' + 1 .. next_journal_seq' - 1 :
          is_valid(cache'[frame_slot(s)], s)
    BY <2>1, <2>2, <2>3, ScanValid
  <2>9. ackEnd' > last_checkpoint_seq' + 1 =>
          cache'[frame_slot(ackEnd' - 1)].kind = "CommitEnd"
    BY <2>1, <2>2, <2>3, <2>6
  <2>10. \A sb \in {sbDisk', sbCache'} : sb.journal_seq = last_checkpoint_seq'
    BY <2>1, <2>2
  <2>11. pc' \notin {"publish", "reclaim", "append", "fsync"}
    BY <2>2
  <2>12. disk' = cache'
    BY <2>1
  <2> QED
    BY <2>5, <2>7, <2>8, <2>9, <2>10, <2>11, <2>12 DEF RingInv
<1>12. CASE UNCHANGED vars
  BY <1>12 DEF vars, RingInv, Outstanding, deviceVars, memoryVars, historyVars
<1> QED
  BY <1>1, <1>2, <1>3, <1>4, <1>5, <1>6, <1>7, <1>8, <1>9, <1>10, <1>11, <1>12
  DEF Next, Run

\* No group laps the ring after a step: none did before, or the step is a checkpoint.
LEMMA IntactStep ==
  ASSUME [Next]_vars, Intact'
  PROVE  Intact \/ SyncPublish
BY Zenon DEF Next, Run, vars, historyVars, Mutate, JournalCommit, Reclaim, AppendOp, AppendEnd,
       CommitFsync, Sync, SyncFlush, SyncSwap, SyncPublish, Crash, Open, Intact

\* The inductive invariant behind durability.
DurableInv == TypeInv /\ PublishInv /\ RingIntact

LEMMA DurableInit == Init => DurableInv
BY TypeInit, RingInit DEF Init, DurableInv, PublishInv, RingIntact

LEMMA DurableStep == DurableInv /\ [Next]_vars => DurableInv'
<1> SUFFICES ASSUME DurableInv, [Next]_vars PROVE DurableInv'
  OBVIOUS
<1>1. TypeInv /\ PublishInv /\ (Intact => RingInv)
  BY DEF DurableInv, RingIntact
<1>2. TypeInv' /\ PublishInv'
  BY <1>1, TypeStep, PublishStep
<1>3. ASSUME Intact' PROVE RingInv'
  <2>1. CASE SyncPublish
    BY <1>1, <2>1, RingPublish
  <2>2. CASE Intact
    BY <1>1, <1>2, <1>3, <2>2, RingStep
  <2> QED
    BY <1>3, <2>1, <2>2, IntactStep
<1> QED
  BY <1>2, <1>3 DEF DurableInv, RingIntact

(***************************************************************************)
(* For every ring size, reserve and group size: unless a group laps the    *)
(* ring, the frames since the checkpoint are readable and the acknowledged *)
(* ones durable; after a group that does, the next checkpoint restores it. *)
(***************************************************************************)
THEOREM RingCorrect == Spec => []RingIntact
<1>1. DurableInv => RingIntact
  BY DEF DurableInv
<1> QED
  BY <1>1, DurableInit, DurableStep, PTL DEF Spec

(***************************************************************************)
(* Durability for every ring size, group size and both crash modes: unless *)
(* a group laps the ring, Fs::open finds every commit group that           *)
(* journal_commit or sync acknowledged, whatever the crash.                *)
(***************************************************************************)
THEOREM Durability == Spec => []NoAckedGroupLost
<1>1. DurableInv => NoAckedGroupLost
  BY RecoveryFindsAcked DEF DurableInv, RingIntact, NoAckedGroupLost
<1> QED
  BY <1>1, DurableInit, DurableStep, PTL DEF Spec

\* A frame of an acknowledged group that no checkpoint has passed.
LEMMA AckedFrameStep ==
  ASSUME TypeInv, RingInv, [Next]_vars,
         NEW s \in last_checkpoint_seq + 1 .. ackEnd - 1
  PROVE  cache'[frame_slot(s)] = cache[frame_slot(s)]
<1>1. /\ next_journal_seq \in Nat /\ last_checkpoint_seq \in Nat /\ ackEnd \in Nat
      /\ JOURNAL_CAPACITY \in Nat /\ Len(group) \in Nat
      /\ ackEnd <= next_journal_seq
  BY RingNumbers DEF RingInv
<1>2. s \in Nat /\ s \in last_checkpoint_seq + 1 .. next_journal_seq - 1
  BY <1>1
<1>3. CASE AppendOp
  <2> DEFINE frame == LoggedOp(next_journal_seq, Head(group))
  <2>1. Head(group) \in Record
    BY <1>3, HeadTailProperties DEF AppendOp, TypeInv, TypeOK
  <2>2. /\ frame \in Frame /\ frame.seq = next_journal_seq
        /\ frame.kind \in {"LoggedOp", "CommitEnd"}
    BY <2>1 DEF LoggedOp, Frame, TypeInv, TypeOK
  <2>3. Outstanding <= JOURNAL_CAPACITY
    BY <1>1, <1>3 DEF AppendOp, RingInv, Outstanding
  <2>4. append(frame)
    BY <1>3 DEF AppendOp
  <2> HIDE DEF frame
  <2> QED
    BY <1>2, <2>2, <2>3, <2>4, AppendKeeps
<1>4. CASE AppendEnd
  <2> DEFINE frame == CommitEnd(next_journal_seq, state.next_ino)
  <2>1. NoRecord \in Record
    BY JournalConstants DEF NoRecord, Record, Keys, Values
  <2>2. /\ frame \in Frame /\ frame.seq = next_journal_seq
        /\ frame.kind \in {"LoggedOp", "CommitEnd"}
    BY <2>1 DEF CommitEnd, Frame, TypeInv, TypeOK, State
  <2>3. Outstanding <= JOURNAL_CAPACITY
    BY <1>1, <1>4 DEF AppendEnd, RingInv, Outstanding
  <2>4. append(frame)
    BY <1>4 DEF AppendEnd
  <2> HIDE DEF frame
  <2> QED
    BY <1>2, <2>2, <2>3, <2>4, AppendKeeps
<1>5. CASE Crash
  <2>1. PICK img \in Survivors : cache' = img.ring
    BY <1>5 DEF Crash
  <2>2. disk[frame_slot(s)] = cache[frame_slot(s)] /\ frame_slot(s) \in Slots
    BY <1>2, SlotType DEF RingInv
  <2> QED
    BY <2>1, <2>2, SurvivorType DEF TypeInv
<1>6. CASE UNCHANGED cache
  BY <1>6
<1>7. AppendOp \/ AppendEnd \/ Crash \/ UNCHANGED cache
  BY Zenon DEF Next, Run, vars, deviceVars, Mutate, JournalCommit, Reclaim, CommitFsync,
         Sync, SyncFlush, SyncSwap, SyncPublish
<1> QED
  BY <1>3, <1>4, <1>5, <1>6, <1>7

(***************************************************************************)
(* The ring never overwrites a frame of an acknowledged group before a     *)
(* checkpoint has passed it, for every ring size and group size, unless a  *)
(* group laps the ring.                                                    *)
(***************************************************************************)
THEOREM FramesKept == Spec => AckedFramesKept
<1>1. DurableInv /\ [Next]_vars =>
        [Intact =>
           \A s \in last_checkpoint_seq + 1 .. ackEnd - 1 :
             s > last_checkpoint_seq' => cache'[frame_slot(s)] = cache[frame_slot(s)]]_vars
  BY AckedFrameStep DEF DurableInv, RingIntact
<1> QED
  BY <1>1, DurableInit, DurableStep, PTL DEF Spec, AckedFramesKept
-----------------------------------------------------------------------------
\* journal_commit reclaims only below the watermark: it checkpoints first otherwise.
BelowWatermark == pc = "reclaim" => Outstanding < JOURNAL_RECLAIM_SOFT_LIMIT

LEMMA BelowStep ==
  ASSUME TypeInv, BelowWatermark, [Next]_vars
  PROVE  BelowWatermark'
<1> SUFFICES ASSUME pc' = "reclaim" PROVE Outstanding' < JOURNAL_RECLAIM_SOFT_LIMIT
  BY DEF BelowWatermark, JOURNAL_RECLAIM_SOFT_LIMIT, JOURNAL_CAPACITY
<1>1. CASE JournalCommit
  <2>1. ~(Outstanding >= JOURNAL_RECLAIM_SOFT_LIMIT) /\ Outstanding' = Outstanding
    BY <1>1 DEF JournalCommit, memoryVars, Outstanding
  <2> QED
    BY <2>1, RingNumbers DEF Outstanding
<1>2. CASE SyncPublish
  <2>1. Outstanding' = next_journal_seq - (next_journal_seq - 1)
    BY <1>2 DEF SyncPublish, Outstanding
  <2> QED
    BY <2>1, RingNumbers
<1>3. CASE UNCHANGED vars
  BY <1>3 DEF vars, memoryVars, BelowWatermark, Outstanding
<1>4. JournalCommit \/ SyncPublish \/ UNCHANGED vars
  <2>1. ~ Crash
    BY DEF Crash, Open
  <2> QED
    BY <2>1, Zenon DEF Next, Run, Mutate, Reclaim, AppendOp, AppendEnd, CommitFsync, Sync, SyncFlush, SyncSwap
<1> QED
  BY <1>1, <1>2, <1>3, <1>4

\* The group of a commit: the log, and reclaim's records while there is a budget.
LEMMA GroupSize ==
  ASSUME TypeInv, BelowWatermark, NEW n \in 0 .. JOURNAL_CAPACITY, Reclaim(n)
  PROVE  /\ n \in Nat /\ Len(group') = Len(log) + n
         /\ Outstanding < JOURNAL_RECLAIM_SOFT_LIMIT
         /\ n > 0 => Outstanding + Len(group') + 1 <= JOURNAL_RECLAIM_SOFT_LIMIT
<1> DEFINE recs == [i \in 1 .. n |-> NoRecord]
           budget == reclaim_budget_for_commit
<1>1. /\ next_journal_seq \in Nat /\ last_checkpoint_seq \in Nat
      /\ JOURNAL_CAPACITY \in Nat /\ RingReserve \in Nat
      /\ JOURNAL_RECLAIM_SOFT_LIMIT = JOURNAL_CAPACITY - RingReserve
      /\ Len(log) \in Nat
  BY RingNumbers
<1>2. n \in Nat /\ Len(log \o recs) = Len(log) + n
  <2>1. n \in Nat /\ NoRecord \in Record
    BY <1>1, JournalConstants DEF NoRecord, Record, Keys, Values
  <2>2. recs \in Seq(Record) /\ Len(recs) = n
    BY <2>1, RecordSeq
  <2> HIDE DEF recs
  <2>3. log \in Seq(Record)
    BY DEF TypeInv, TypeOK
  <2>4. Len(log \o recs) = Len(log) + Len(recs)
    BY <2>2, <2>3, ConcatProperties, Zenon
  <2> QED
    BY <2>1, <2>2, <2>4
<1>3. /\ group' = log \o recs /\ pc = "reclaim"
      /\ n <= budget + (IF budget > 0 THEN 1 ELSE 0)
  BY DEF Reclaim
<1>4. Outstanding < JOURNAL_RECLAIM_SOFT_LIMIT
  BY <1>3 DEF BelowWatermark
<1>5. /\ budget \in Nat
      /\ budget > 0 => Outstanding + Len(log) + 3 + budget = JOURNAL_RECLAIM_SOFT_LIMIT
  BY <1>1, <1>4 DEF reclaim_budget_for_commit, saturating_sub, Outstanding,
                    RECLAIM_COMMIT_RESERVED_FRAMES
<1> HIDE DEF recs, budget
<1>6. Len(group') = Len(log) + n
  BY <1>2, <1>3
<1>7. ASSUME n > 0 PROVE Outstanding + Len(group') + 1 <= JOURNAL_RECLAIM_SOFT_LIMIT
  <2>1. budget > 0 /\ n <= budget + 1
    BY <1>2, <1>3, <1>5, <1>7
  <2> QED
    BY <1>1, <1>2, <1>5, <1>6, <2>1 DEF Outstanding
<1> QED
  BY <1>2, <1>4, <1>6, <1>7

\* Only the reclaim step of a commit fills the group or makes it lap the ring.
LEMMA WatermarkStep ==
  ASSUME TypeInv, BelowWatermark, [Next]_vars, pc = "reclaim", pc' = "append", Len(group') > Len(log)
  PROVE  Outstanding + Len(group') + 1 <= JOURNAL_RECLAIM_SOFT_LIMIT
<1>1. PICK n \in 0 .. JOURNAL_CAPACITY : Reclaim(n)
  <2>1. ~ Crash
    BY Zenon DEF Crash, Open
  <2> QED
    BY <2>1, Zenon DEF Next, Run, vars, Mutate, JournalCommit, AppendOp, AppendEnd, CommitFsync, Sync,
                SyncFlush, SyncSwap, SyncPublish
<1>2. n \in Nat /\ Len(group') = Len(log) + n /\ Len(log) \in Nat
  BY <1>1, GroupSize, RingNumbers
<1>3. n > 0
  BY <1>2
<1> QED
  BY <1>1, <1>3, GroupSize

LEMMA OverrunStep ==
  ASSUME TypeInv, BelowWatermark, [Next]_vars, overrun # "yes", overrun' = "yes"
  PROVE  Len(log) > RingReserve + 1
<1>1. PICK n \in 0 .. JOURNAL_CAPACITY : Reclaim(n)
  BY Zenon DEF Next, Run, vars, historyVars, Mutate, JournalCommit, AppendOp, AppendEnd, CommitFsync,
         Sync, SyncFlush, SyncSwap, SyncPublish, Crash, Open
<1>2. Outstanding + Len(group') > JOURNAL_CAPACITY
  BY <1>1 DEF Reclaim
<1>3. /\ n \in Nat /\ Len(group') = Len(log) + n
      /\ Outstanding < JOURNAL_RECLAIM_SOFT_LIMIT
      /\ n > 0 => Outstanding + Len(group') + 1 <= JOURNAL_RECLAIM_SOFT_LIMIT
  BY <1>1, GroupSize
<1> QED
  BY <1>2, <1>3, RingNumbers DEF Outstanding

(***************************************************************************)
(* Reclaim pays for itself, for every ring size and reserve: a commit that *)
(* takes reclaim records with it stays below the soft watermark, CommitEnd *)
(* and progress record included.                                           *)
(***************************************************************************)
THEOREM WatermarkKept == Spec => ReclaimKeepsWatermark
<1>1. Init => TypeInv /\ BelowWatermark
  BY TypeInit DEF Init, BelowWatermark
<1>2. (TypeInv /\ BelowWatermark) /\ [Next]_vars => (TypeInv /\ BelowWatermark)'
  BY TypeStep, BelowStep
<1>3. (TypeInv /\ BelowWatermark) /\ [Next]_vars =>
        [(pc = "reclaim" /\ pc' = "append" /\ Len(group') > Len(log)) =>
           Outstanding + Len(group') + 1 <= JOURNAL_RECLAIM_SOFT_LIMIT]_vars
  BY WatermarkStep
<1> QED
  BY <1>1, <1>2, <1>3, PTL DEF Spec, ReclaimKeepsWatermark

(***************************************************************************)
(* The near-full guard is enough, for every ring size and reserve, for     *)
(* every commit that finds at most RingReserve + 1 records in the log (65  *)
(* in fs.rs): only a larger one laps the ring.                             *)
(***************************************************************************)
THEOREM GuardSuffices == Spec => OnlyLargeGroupsOverrun
<1>1. Init => TypeInv /\ BelowWatermark
  BY TypeInit DEF Init, BelowWatermark
<1>2. (TypeInv /\ BelowWatermark) /\ [Next]_vars => (TypeInv /\ BelowWatermark)'
  BY TypeStep, BelowStep
<1>3. (TypeInv /\ BelowWatermark) /\ [Next]_vars =>
        [(overrun # "yes" /\ overrun' = "yes") => Len(log) > RingReserve + 1]_vars
  BY OverrunStep
<1> QED
  BY <1>1, <1>2, <1>3, PTL DEF Spec, OnlyLargeGroupsOverrun
=============================================================================
