-------------------------- MODULE JournalAtomicity -------------------------
(***************************************************************************)
(* Proofs about recovery from the journal: what a crash shows is the state *)
(* at the last group boundary, or that of the group that is complete but   *)
(* for its fsync, for every ring size, group size and operation bound.     *)
(***************************************************************************)
EXTENDS JournalProofs

\* The frame with seq n assigns key k.
Writes(ring, n, k) ==
  ring[frame_slot(n)].kind = "LoggedOp" /\ ring[frame_slot(n)].rec.key = k

\* The last of the frames start .. end - 1 that assigns k leaves v, if there is one.
Replayed(ring, start, end, tree, k, v) ==
  \/ \E n \in start .. end - 1 :
       /\ Writes(ring, n, k) /\ ring[frame_slot(n)].rec.val = v
       /\ \A m \in n + 1 .. end - 1 : ~ Writes(ring, m, k)
  \/ (\A n \in start .. end - 1 : ~ Writes(ring, n, k)) /\ v = tree[k]

\* The records recs turn the value u of key k into v.
Turns(recs, k, u, v) ==
  \/ \E i \in 1 .. Len(recs) :
       /\ recs[i].key = k /\ recs[i].val = v
       /\ \A j \in i + 1 .. Len(recs) : recs[j].key # k
  \/ (\A i \in 1 .. Len(recs) : recs[i].key # k) /\ v = u

\* The records of the state in memory that no frame holds yet.
Pending == IF pc = "append" THEN group ELSE log

\* What the frames before seq e make of a checkpoint.
StateAt(ring, sb, e) ==
  [tree |-> replay(ring, sb.journal_seq + 1, e, sb.state.tree),
   next_ino |-> IF e = sb.journal_seq + 1 THEN sb.state.next_ino
                ELSE ring[frame_slot(e - 1)].next_ino]

\* The superblock that sync has written and not yet published.
IsNew(sb) == pc = "publish" /\ sb = [journal_seq |-> next_journal_seq - 1, state |-> state]

\* The published one: the frames before e make a state of it that a crash may show,
\* all frames and the pending records make the state in memory of it.
IsOld(sb, e) ==
  /\ sb.journal_seq = last_checkpoint_seq
  /\ StateAt(cache, sb, e) \in legal
  /\ \A k \in Keys :
       Turns(Pending, k, replay(cache, last_checkpoint_seq + 1, next_journal_seq, sb.state.tree)[k],
             state.tree[k])

\* No frame left from before ends a group behind the journal.  With process
\* crashes all writes are durable; before the first power failure no frame is ahead.
NothingAhead(e) ==
  /\ \A s \in Nat : s >= next_journal_seq /\ is_valid(cache[frame_slot(s)], s)
       => cache[frame_slot(s)].kind # "CommitEnd"
  /\ \/ CrashMode = "process" /\ disk = cache
     \/ /\ CrashMode = "power"
        /\ \A s \in Nat : s >= e => ~ is_valid(disk[frame_slot(s)], s)
        /\ \A s \in Nat : s >= next_journal_seq => ~ is_valid(cache[frame_slot(s)], s)

\* The group being written, or the next one, starts at e.
Boundary(e) ==
  /\ e \in last_checkpoint_seq + 1 .. next_journal_seq
  /\ pc \notin {"append", "fsync"} => e = next_journal_seq
  /\ e > last_checkpoint_seq + 1 => cache[frame_slot(e - 1)].kind = "CommitEnd"
  /\ \A s \in e .. next_journal_seq - 1 :
       cache[frame_slot(s)].kind = "CommitEnd" => pc = "fsync" /\ s = next_journal_seq - 1
  /\ pc = "fsync" => /\ e < next_journal_seq
                     /\ cache[frame_slot(next_journal_seq - 1)].next_ino = state.next_ino
  /\ \A s \in last_checkpoint_seq + 1 .. e - 1 : disk[frame_slot(s)] = cache[frame_slot(s)]
  /\ NothingAhead(e)

AtomicInv ==
  /\ state \in legal /\ \A st \in legal : st.tree[0] = 0
  /\ pc # "append" => group = <<>>
  /\ pc \in {"append", "fsync"} => log = <<>>
  /\ pc = "publish" =>
       IsNew(sbCache) /\ \A k \in Keys : Turns(log, k, state.tree[k], state.tree[k])
  /\ \E e \in Nat : Boundary(e) /\ \A sb \in {sbDisk, sbCache} : IsNew(sb) \/ IsOld(sb, e)

\* What is left of it once a group has lapped the ring: enough for a checkpoint
\* to start a journal afresh.
MemoryInv ==
  /\ state \in legal /\ \A st \in legal : st.tree[0] = 0
  /\ pc # "append" => group = <<>>
  /\ pc \in {"append", "fsync"} => log = <<>>
  /\ pc = "publish" => IsNew(sbCache)
  /\ \A k \in Keys : Turns(Pending, k, state.tree[k], state.tree[k])
  /\ \E e \in Nat : NothingAhead(e)

\* What replay computes for a key, read off the frames.
LEMMA ReplayValue ==
  ASSUME NEW ring, NEW start \in Nat, NEW end \in Nat, NEW tree, NEW k \in Keys
  PROVE  Replayed(ring, start, end, tree, k, replay(ring, start, end, tree)[k])
<1> DEFINE W == {n \in start .. end - 1 :
                   /\ ring[frame_slot(n)].kind = "LoggedOp"
                   /\ ring[frame_slot(n)].rec.key = k}
<1>1. replay(ring, start, end, tree)[k] =
        IF W = {} THEN tree[k] ELSE ring[frame_slot(Max(W))].rec.val
  BY DEF replay
<1>2. \A n \in start .. end - 1 : n \in W <=> Writes(ring, n, k)
  BY DEF Writes
<1>3. W \in SUBSET Int /\ (\A x \in W : x <= end - 1) /\ end - 1 \in Int
  OBVIOUS
<1>4. W \subseteq start .. end - 1
  OBVIOUS
<1> HIDE DEF W
<1>5. CASE W = {}
  BY <1>1, <1>2, <1>5 DEF Replayed
<1>6. CASE W # {}
  <2> DEFINE top == Max(W)
  <2>1. top \in W /\ \A x \in W : x <= top
    BY <1>3, <1>6, MaxOfBounded
  <2>2. replay(ring, start, end, tree)[k] = ring[frame_slot(top)].rec.val
    BY <1>1, <1>6
  <2> HIDE DEF top
  <2>3. top \in start .. end - 1 /\ Writes(ring, top, k)
    BY <1>2, <1>4, <2>1
  <2>4. ASSUME NEW m \in top + 1 .. end - 1 PROVE ~ Writes(ring, m, k)
    <3>1. m \in start .. end - 1 /\ ~(m <= top)
      BY <2>3
    <3> QED
      BY <1>2, <2>1, <3>1
  <2> QED
    BY <2>2, <2>3, <2>4 DEF Replayed
<1> QED
  BY <1>5, <1>6

\* The frames determine the value.
LEMMA ReplayUnique ==
  ASSUME NEW ring, NEW start \in Nat, NEW end \in Nat, NEW tree, NEW k, NEW v, NEW w,
         Replayed(ring, start, end, tree, k, v), Replayed(ring, start, end, tree, k, w)
  PROVE  v = w
<1>1. CASE \A n \in start .. end - 1 : ~ Writes(ring, n, k)
  BY <1>1 DEF Replayed
<1>2. CASE ~ \A n \in start .. end - 1 : ~ Writes(ring, n, k)
  <2>1. PICK n \in start .. end - 1 :
          /\ Writes(ring, n, k) /\ ring[frame_slot(n)].rec.val = v
          /\ \A m \in n + 1 .. end - 1 : ~ Writes(ring, m, k)
    BY <1>2 DEF Replayed
  <2>2. PICK o \in start .. end - 1 :
          /\ Writes(ring, o, k) /\ ring[frame_slot(o)].rec.val = w
          /\ \A m \in o + 1 .. end - 1 : ~ Writes(ring, m, k)
    BY <1>2 DEF Replayed
  <2>3. ~(o \in n + 1 .. end - 1) /\ ~(n \in o + 1 .. end - 1)
    BY <2>1, <2>2
  <2>4. n = o
    BY <2>3
  <2> QED
    BY <2>1, <2>2, <2>4
<1> QED
  BY <1>1, <1>2

\* Replay yields a map of the keys.
LEMMA ReplayMap ==
  ASSUME NEW ring, NEW start, NEW end, NEW tree
  PROVE  replay(ring, start, end, tree) = [k \in Keys |-> replay(ring, start, end, tree)[k]]
BY DEF replay

\* Replay reads only the frames between start and end.
LEMMA SameReplay ==
  ASSUME NEW ring, NEW other, NEW start \in Nat, NEW end \in Nat, NEW tree,
         \A s \in start .. end - 1 : ring[frame_slot(s)] = other[frame_slot(s)]
  PROVE  replay(ring, start, end, tree) = replay(other, start, end, tree)
<1> DEFINE f == replay(ring, start, end, tree)
           g == replay(other, start, end, tree)
<1>1. ASSUME NEW k \in Keys PROVE f[k] = g[k]
  <2>1. Replayed(ring, start, end, tree, k, f[k]) /\ Replayed(other, start, end, tree, k, g[k])
    BY ReplayValue
  <2> HIDE DEF f, g
  <2>2. \A n \in start .. end - 1 : Writes(ring, n, k) <=> Writes(other, n, k)
    BY DEF Writes
  <2>3. Replayed(ring, start, end, tree, k, g[k])
    <3>1. CASE \A n \in start .. end - 1 : ~ Writes(ring, n, k)
      BY <2>1, <2>2, <3>1 DEF Replayed
    <3>2. CASE ~ \A n \in start .. end - 1 : ~ Writes(ring, n, k)
      <4>1. PICK n \in start .. end - 1 :
              /\ Writes(other, n, k) /\ other[frame_slot(n)].rec.val = g[k]
              /\ \A m \in n + 1 .. end - 1 : ~ Writes(other, m, k)
        BY <2>1, <2>2, <3>2 DEF Replayed
      <4>2. \A m \in n + 1 .. end - 1 : m \in start .. end - 1
        OBVIOUS
      <4>3. Writes(ring, n, k) /\ ring[frame_slot(n)].rec.val = g[k]
        BY <2>2, <4>1
      <4>4. \A m \in n + 1 .. end - 1 : ~ Writes(ring, m, k)
        BY <2>2, <4>1, <4>2
      <4> QED
        BY <4>3, <4>4 DEF Replayed
    <3> QED
      BY <3>1, <3>2
  <2> QED
    BY <2>1, <2>3, ReplayUnique
<1>2. f = [k \in Keys |-> f[k]] /\ g = [k \in Keys |-> g[k]]
  BY ReplayMap
<1> HIDE DEF f, g
<1>3. f = g
  BY <1>1, <1>2
<1> QED
  BY <1>3 DEF f, g

\* Replaying no frame changes nothing.
LEMMA ReplayNothing ==
  ASSUME NEW ring, NEW start \in Nat, NEW tree \in [Keys -> Values]
  PROVE  replay(ring, start, start, tree) = tree
<1> DEFINE f == replay(ring, start, start, tree)
<1>1. start .. start - 1 = {}
  OBVIOUS
<1>2. f = [k \in Keys |-> tree[k]]
  BY <1>1 DEF replay
<1> QED
  BY <1>2

\* Two rings hold the same frames start .. end - 1.
Agree(ring, other, start, end) ==
  \A s \in start .. end - 1 : ring[frame_slot(s)] = other[frame_slot(s)]

\* What the frame at the end adds to a replay.
OneMore(other, end, k, u, v) ==
  /\ Writes(other, end, k) => v = other[frame_slot(end)].rec.val
  /\ ~ Writes(other, end, k) => v = u

\* One frame more: a LoggedOp frame assigns its key, a CommitEnd frame nothing.
LEMMA ReplayOneMore ==
  ASSUME NEW ring, NEW other, NEW start \in Nat, NEW end \in Nat, start <= end, NEW tree,
         Agree(ring, other, start, end), NEW k \in Keys
  PROVE  OneMore(other, end, k, replay(ring, start, end, tree)[k],
                 replay(other, start, end + 1, tree)[k])
<1> DEFINE u == replay(ring, start, end, tree)[k]
           v == replay(other, start, end + 1, tree)[k]
<1>1. Replayed(other, start, end, tree, k, u)
  <2>1. replay(ring, start, end, tree) = replay(other, start, end, tree)
    BY SameReplay DEF Agree
  <2> QED
    BY <2>1, ReplayValue
<1>2. Replayed(other, start, end + 1, tree, k, v) /\ end + 1 \in Nat
  BY ReplayValue
<1> HIDE DEF u, v
<1>3. start .. (end + 1) - 1 = (start .. end - 1) \cup {end}
  OBVIOUS
<1>4. ASSUME Writes(other, end, k) PROVE v = other[frame_slot(end)].rec.val
  <2>1. Replayed(other, start, end + 1, tree, k, other[frame_slot(end)].rec.val)
    <3>1. end + 1 .. (end + 1) - 1 = {}
      OBVIOUS
    <3> QED
      BY <1>3, <1>4, <3>1 DEF Replayed
  <2> QED
    BY <1>2, <2>1, ReplayUnique
<1>5. ASSUME ~ Writes(other, end, k) PROVE v = u
  <2>1. Replayed(other, start, end + 1, tree, k, u)
    <3>1. CASE \A n \in start .. end - 1 : ~ Writes(other, n, k)
      BY <1>1, <1>3, <1>5, <3>1 DEF Replayed
    <3>2. CASE ~ \A n \in start .. end - 1 : ~ Writes(other, n, k)
      <4>1. PICK n \in start .. end - 1 :
              /\ Writes(other, n, k) /\ other[frame_slot(n)].rec.val = u
              /\ \A m \in n + 1 .. end - 1 : ~ Writes(other, m, k)
        BY <1>1, <3>2 DEF Replayed
      <4>2. n + 1 .. (end + 1) - 1 = (n + 1 .. end - 1) \cup {end}
        OBVIOUS
      <4>3. \A m \in n + 1 .. (end + 1) - 1 : ~ Writes(other, m, k)
        BY <1>5, <4>1, <4>2
      <4> QED
        BY <1>3, <4>1, <4>3 DEF Replayed
    <3> QED
      BY <3>1, <3>2
  <2> QED
    BY <1>2, <2>1, ReplayUnique
<1>6. OneMore(other, end, k, u, v)
  BY <1>4, <1>5 DEF OneMore
<1> QED
  BY <1>6, Zenon DEF u, v

\* No record, no change.
LEMMA TurnsNothing ==
  ASSUME NEW k, NEW u, NEW v
  PROVE  Turns(<<>>, k, u, v) <=> v = u
<1>1. 1 .. Len(<<>>) = {}
  OBVIOUS
<1> QED
  BY <1>1 DEF Turns

\* Records leave a value they have produced as it is.
LEMMA TurnsAgain ==
  ASSUME NEW recs, NEW k, NEW u, NEW v, Turns(recs, k, u, v)
  PROVE  Turns(recs, k, v, v)
BY DEF Turns

\* The first record moves from the records to the value they start from.
LEMMA TurnsHead ==
  ASSUME NEW recs \in Seq(Record), recs # <<>>, NEW k, NEW u, NEW v, Turns(recs, k, u, v)
  PROVE  Turns(Tail(recs), k, IF Head(recs).key = k THEN Head(recs).val ELSE u, v)
<1> DEFINE n == Len(recs)
           rest == Tail(recs)
<1>1. /\ n \in Nat /\ n >= 1 /\ Len(rest) = n - 1
      /\ Head(recs) = recs[1]
      /\ \A i \in 1 .. n - 1 : rest[i] = recs[i + 1]
  BY HeadTailProperties, EmptySeq, LenProperties
<1> HIDE DEF n, rest
<1>2. CASE \E i \in 1 .. n : /\ recs[i].key = k /\ recs[i].val = v
                             /\ \A j \in i + 1 .. n : recs[j].key # k
  <2>1. PICK i \in 1 .. n : /\ recs[i].key = k /\ recs[i].val = v
                            /\ \A j \in i + 1 .. n : recs[j].key # k
    BY <1>2
  <2>2. CASE i = 1
    <3>1. ASSUME NEW j \in 1 .. n - 1 PROVE rest[j].key # k
      <4>1. j + 1 \in i + 1 .. n
        BY <1>1, <2>2
      <4>2. rest[j] = recs[j + 1] /\ recs[j + 1].key # k
        BY <1>1, <2>1, <4>1
      <4> QED
        BY <4>2
    <3>2. \A j \in 1 .. Len(rest) : rest[j].key # k
      BY <1>1, <3>1
    <3>3. v = IF Head(recs).key = k THEN Head(recs).val ELSE u
      BY <1>1, <2>1, <2>2
    <3> QED
      BY <3>2, <3>3 DEF Turns, rest
  <2>3. CASE i # 1
    <3>1. i - 1 \in 1 .. n - 1 /\ (i - 1) + 1 = i
      BY <1>1, <2>3
    <3>2. rest[i - 1].key = k /\ rest[i - 1].val = v
      BY <1>1, <2>1, <3>1
    <3>3. \A j \in (i - 1) + 1 .. n - 1 : j \in 1 .. n - 1 /\ j + 1 \in i + 1 .. n
      BY <1>1, <3>1
    <3>4. \A j \in (i - 1) + 1 .. Len(rest) : rest[j].key # k
      BY <1>1, <2>1, <3>3
    <3> QED
      BY <1>1, <3>1, <3>2, <3>4 DEF Turns, rest
  <2> QED
    BY <2>2, <2>3
<1>3. CASE (\A i \in 1 .. n : recs[i].key # k) /\ v = u
  <2>1. \A j \in 1 .. n - 1 : j + 1 \in 1 .. n
    BY <1>1
  <2>2. \A j \in 1 .. Len(rest) : rest[j].key # k
    BY <1>1, <1>3, <2>1
  <2>3. Head(recs).key # k
    BY <1>1, <1>3
  <2> QED
    BY <1>3, <2>2, <2>3 DEF Turns, rest
<1> QED
  BY <1>2, <1>3 DEF Turns, n

\* One sequence of records after another.
LEMMA TurnsConcat ==
  ASSUME NEW a \in Seq(Record), NEW b \in Seq(Record), NEW k, NEW u, NEW w, NEW v,
         Turns(a, k, u, w), Turns(b, k, w, v)
  PROVE  Turns(a \o b, k, u, v)
<1> DEFINE c == a \o b
           m == Len(a)
           n == Len(b)
<1>1. /\ m \in Nat /\ n \in Nat /\ Len(c) = m + n
      /\ \A i \in 1 .. m : c[i] = a[i]
      /\ \A i \in 1 .. n : c[m + i] = b[i]
  <2>1. /\ Len(c) = m + n
        /\ \A i \in 1 .. m + n : c[i] = IF i <= m THEN a[i] ELSE b[i - m]
    BY ConcatProperties
  <2>2. m \in Nat /\ n \in Nat
    BY LenProperties
  <2> HIDE DEF c, m, n
  <2>3. \A i \in 1 .. m : c[i] = a[i]
    BY <2>1, <2>2
  <2>4. ASSUME NEW i \in 1 .. n PROVE c[m + i] = b[i]
    <3>1. m + i \in 1 .. m + n /\ ~(m + i <= m) /\ (m + i) - m = i
      BY <2>2
    <3> QED
      BY <2>1, <3>1
  <2> QED
    BY <2>1, <2>2, <2>3, <2>4
<1> DEFINE LastOf(q, l, x) == \E i \in 1 .. l : /\ q[i].key = k /\ q[i].val = x
                                             /\ \A j \in i + 1 .. l : q[j].key # k
           NoneOf(q, l) == \A i \in 1 .. l : q[i].key # k
<1>0. /\ LastOf(a, m, w) \/ (NoneOf(a, m) /\ w = u)
      /\ LastOf(b, n, v) \/ (NoneOf(b, n) /\ v = w)
      /\ LastOf(c, Len(c), v) \/ (NoneOf(c, Len(c)) /\ v = u) => Turns(c, k, u, v)
  BY Zenon DEF Turns
<1> HIDE DEF c, m, n
<1> SUFFICES LastOf(c, Len(c), v) \/ (NoneOf(c, Len(c)) /\ v = u)
  <2>1. Turns(c, k, u, v) => Turns(a \o b, k, u, v)
    BY DEF c
  <2> HIDE DEF LastOf, NoneOf
  <2> QED
    BY <1>0, <2>1
<1>2. CASE LastOf(b, n, v)
  <2>1. PICK i \in 1 .. n : /\ b[i].key = k /\ b[i].val = v
                            /\ \A j \in i + 1 .. n : b[j].key # k
    BY <1>2
  <2>2. m + i \in 1 .. Len(c) /\ c[m + i].key = k /\ c[m + i].val = v
    BY <1>1, <2>1
  <2>3. ASSUME NEW j \in (m + i) + 1 .. Len(c) PROVE c[j].key # k
    <3>1. j - m \in 1 .. n /\ j - m \in i + 1 .. n /\ m + (j - m) = j
      BY <1>1
    <3>2. c[m + (j - m)] = b[j - m] /\ b[j - m].key # k
      BY <1>1, <2>1, <3>1
    <3> QED
      BY <3>1, <3>2
  <2> QED
    BY <2>2, <2>3
<1>3. CASE NoneOf(b, n) /\ v = w
  <2>1. ASSUME NEW j \in m + 1 .. Len(c) PROVE c[j].key # k
    <3>1. j - m \in 1 .. n /\ m + (j - m) = j
      BY <1>1
    <3> QED
      BY <1>1, <1>3, <3>1
  <2>2. CASE LastOf(a, m, w)
    <3>1. PICK i \in 1 .. m : /\ a[i].key = k /\ a[i].val = w
                              /\ \A j \in i + 1 .. m : a[j].key # k
      BY <2>2
    <3>2. i \in 1 .. Len(c) /\ c[i].key = k /\ c[i].val = v
      BY <1>1, <1>3, <3>1
    <3>3. ASSUME NEW j \in i + 1 .. Len(c) PROVE c[j].key # k
      <4>1. j \in m + 1 .. Len(c) \/ (j \in i + 1 .. m /\ j \in 1 .. m)
        BY <1>1
      <4> QED
        BY <1>1, <2>1, <3>1, <4>1
    <3> QED
      BY <3>2, <3>3
  <2>3. CASE NoneOf(a, m) /\ w = u
    <3>1. ASSUME NEW j \in 1 .. Len(c) PROVE c[j].key # k
      <4>1. j \in m + 1 .. Len(c) \/ j \in 1 .. m
        BY <1>1
      <4> QED
        BY <1>1, <2>1, <2>3, <4>1
    <3> QED
      BY <1>3, <2>3, <3>1
  <2> QED
    BY <1>0, <2>2, <2>3
<1> QED
  BY <1>0, <1>2, <1>3

\* The records of an operation assign the keys 1 .. n.
LEMMA TurnsOperation ==
  ASSUME NEW n \in Nat, NEW val, NEW k \in Keys, NEW w
  PROVE  /\ k \in 1 .. n => Turns([i \in 1 .. n |-> [key |-> i, val |-> val]], k, w, val)
         /\ k \notin 1 .. n => Turns([i \in 1 .. n |-> [key |-> i, val |-> val]], k, w, w)
<1> DEFINE recs == [i \in 1 .. n |-> [key |-> i, val |-> val]]
<1>1. Len(recs) = n /\ \A i \in 1 .. n : recs[i].key = i /\ recs[i].val = val
  OBVIOUS
<1> HIDE DEF recs
<1>2. CASE k \in 1 .. n
  <2>1. \A j \in k + 1 .. n : j \in 1 .. n /\ j # k
    BY <1>2
  <2> QED
    BY <1>1, <1>2, <2>1 DEF Turns, recs
<1>3. CASE k \notin 1 .. n
  BY <1>1, <1>3 DEF Turns, recs
<1> QED
  BY <1>2, <1>3

\* The records of reclaim only ever clear key 0.
LEMMA TurnsReclaim ==
  ASSUME NEW n \in Nat, NEW k \in Keys, NEW w, k = 0 => w = 0
  PROVE  Turns([i \in 1 .. n |-> NoRecord], k, w, w)
<1> DEFINE recs == [i \in 1 .. n |-> NoRecord]
<1>1. Len(recs) = n /\ \A i \in 1 .. n : recs[i].key = 0 /\ recs[i].val = 0
  BY DEF NoRecord
<1> HIDE DEF recs
<1>2. CASE k = 0 /\ n # 0
  <2>1. n \in 1 .. n /\ n + 1 .. n = {}
    BY <1>2
  <2> QED
    BY <1>1, <1>2, <2>1 DEF Turns, recs
<1>3. CASE ~(k = 0 /\ n # 0)
  <2>1. \A i \in 1 .. n : recs[i].key # k
    BY <1>1, <1>3
  <2> QED
    BY <1>1, <2>1 DEF Turns, recs
<1> QED
  BY <1>2, <1>3

\* A surviving ring slot is durable, cached or torn.
LEMMA SurvivorSlot ==
  ASSUME TypeOK, NEW img \in Survivors
  PROVE  \A t \in Slots : img.ring[t] \in {cache[t], disk[t], TornFrame}
<1>1. PICK out \in [DirtyBlocks -> {"old", "new", "torn"}], s \in {sbDisk, sbCache} :
        img = [ring |-> RingAfter([b \in 0 .. JOURNAL_BLOCKS - 1 |->
                                     IF b \in DirtyBlocks THEN out[b] ELSE "old"]),
               sb |-> s]
  BY DEF Survivors
<1>2. \A outcome : \A t \in Slots : RingAfter(outcome)[t] \in {cache[t], disk[t], TornFrame}
  BY DEF RingAfter
<1> QED
  BY <1>1, <1>2

\* What a crash leaves of the ring: the frames before the boundary, and behind
\* it only frames the process wrote, none of which ends a group unless the
\* running commit has written it.
LEMMA SurvivingFrames ==
  ASSUME TypeInv, RingInv, NEW e \in Nat, Boundary(e), NEW img \in Survivors
  PROVE  /\ \A s \in last_checkpoint_seq + 1 .. e - 1 :
              img.ring[frame_slot(s)] = cache[frame_slot(s)]
         /\ \A s \in Nat : s >= e /\ is_valid(img.ring[frame_slot(s)], s) =>
              img.ring[frame_slot(s)] = cache[frame_slot(s)]
         /\ CrashMode = "process" => img.ring = cache
<1>1. /\ img.ring \in [Slots -> Frame] /\ cache \in [Slots -> Frame]
      /\ \A s \in Slots : cache[s] = disk[s] => img.ring[s] = cache[s]
  BY SurvivorType DEF TypeInv, TypeOK
<1>2. last_checkpoint_seq \in Nat /\ next_journal_seq \in Nat
  BY RingNumbers
<1>3. ASSUME NEW s \in last_checkpoint_seq + 1 .. e - 1
      PROVE  img.ring[frame_slot(s)] = cache[frame_slot(s)]
  <2>1. s \in Nat
    BY <1>2
  <2>2. disk[frame_slot(s)] = cache[frame_slot(s)]
    BY DEF Boundary
  <2> QED
    BY <1>1, <2>1, <2>2, SlotType
<1>4. ASSUME NEW s \in Nat, s >= e, is_valid(img.ring[frame_slot(s)], s)
      PROVE  img.ring[frame_slot(s)] = cache[frame_slot(s)]
  <2>1. frame_slot(s) \in Slots
    BY SlotType
  <2>2. img.ring[frame_slot(s)] \in {cache[frame_slot(s)], disk[frame_slot(s)], TornFrame}
    BY <2>1, SurvivorSlot DEF TypeInv
  <2>3. ~ is_valid(TornFrame, s)
    BY DEF is_valid, TornFrame
  <2>4. disk = cache \/ ~ is_valid(disk[frame_slot(s)], s)
    BY <1>4 DEF Boundary, NothingAhead
  <2> QED
    BY <1>4, <2>2, <2>3, <2>4
<1>5. ASSUME CrashMode = "process" PROVE img.ring = cache
  <2>1. disk = cache
    BY <1>5 DEF Boundary, NothingAhead
  <2> QED
    BY <1>1, <2>1
<1> QED
  BY <1>3, <1>4, <1>5

(***************************************************************************)
(* Where recovery stops: at the boundary before the running group, or after*)
(* it when all of it survived.                                             *)
(***************************************************************************)
LEMMA RecoveryStops ==
  ASSUME TypeInv, RingInv, NEW e \in Nat, Boundary(e), NEW img \in Survivors,
         NEW start \in Nat,
         start = last_checkpoint_seq + 1 \/ (pc = "publish" /\ start = next_journal_seq)
  PROVE  LET end == next_seq_after_scan(img.ring, start)
         IN  /\ end = e \/ (pc = "fsync" /\ end = next_journal_seq)
             /\ \A s \in start .. end - 1 : img.ring[frame_slot(s)] = cache[frame_slot(s)]
<1> DEFINE end == next_seq_after_scan(img.ring, start)
<1>1. /\ next_journal_seq \in Nat /\ last_checkpoint_seq \in Nat /\ JOURNAL_CAPACITY \in Nat
      /\ next_journal_seq - 1 - last_checkpoint_seq <= JOURNAL_CAPACITY
  BY RingNumbers DEF RingInv
<1>2. /\ e \in last_checkpoint_seq + 1 .. next_journal_seq
      /\ pc \notin {"append", "fsync"} => e = next_journal_seq
  BY DEF Boundary
<1>3. start <= e /\ e <= next_journal_seq
  BY <1>1, <1>2
<1>4. /\ \A s \in last_checkpoint_seq + 1 .. e - 1 :
           img.ring[frame_slot(s)] = cache[frame_slot(s)]
      /\ \A s \in Nat : s >= e /\ is_valid(img.ring[frame_slot(s)], s) =>
           img.ring[frame_slot(s)] = cache[frame_slot(s)]
  BY SurvivingFrames
<1>5. /\ end \in Nat /\ end >= start
      /\ end # start => end - 1 \in GroupEnds(img.ring, start)
      /\ \A g \in GroupEnds(img.ring, start) : g < end
  BY ScanNat, ScanResult
<1>6. \A s \in start .. end - 1 : is_valid(img.ring[frame_slot(s)], s)
  BY ScanValid
<1> HIDE DEF end
<1>7. end >= e
  <2>1. CASE e = start
    BY <1>5, <2>1
  <2>2. CASE e # start
    <3>1. start = last_checkpoint_seq + 1 /\ e > last_checkpoint_seq + 1
      BY <1>1, <1>2, <1>3, <2>2
    <3>2. \A s \in start .. e - 1 : /\ img.ring[frame_slot(s)] = cache[frame_slot(s)]
                                   /\ is_valid(cache[frame_slot(s)], s)
      <4>1. \A s \in start .. e - 1 : s \in last_checkpoint_seq + 1 .. next_journal_seq - 1
        BY <1>1, <1>3, <3>1
      <4> QED
        BY <1>4, <3>1, <4>1 DEF RingInv
    <3>3. e - 1 \in start .. e - 1 /\ e - 1 \in start .. start + JOURNAL_CAPACITY - 1
      BY <1>1, <1>2, <1>3, <3>1
    <3>4. cache[frame_slot(e - 1)].kind = "CommitEnd"
      BY <3>1 DEF Boundary
    <3>5. e - 1 \in GroupEnds(img.ring, start)
      BY <3>2, <3>3, <3>4 DEF GroupEnds, Readable
    <3>6. e - 1 < end
      BY <1>5, <3>5
    <3> QED
      BY <1>5, <3>6
  <2> QED
    BY <2>1, <2>2
<1>8. ASSUME end # e PROVE pc = "fsync" /\ end = next_journal_seq
  <2>1. end - 1 \in Nat /\ end - 1 >= e /\ end # start
    BY <1>3, <1>5, <1>7, <1>8
  <2>2. /\ is_valid(img.ring[frame_slot(end - 1)], end - 1)
        /\ img.ring[frame_slot(end - 1)].kind = "CommitEnd"
    <3>1. end - 1 \in start .. end - 1
      BY <1>3, <1>5, <2>1
    <3>2. end - 1 \in GroupEnds(img.ring, start)
      BY <1>5, <2>1
    <3> QED
      BY <1>6, <3>1, <3>2 DEF GroupEnds
  <2>3. /\ cache[frame_slot(end - 1)].kind = "CommitEnd"
        /\ is_valid(cache[frame_slot(end - 1)], end - 1)
    BY <1>4, <2>1, <2>2
  <2>4. ~(end - 1 >= next_journal_seq)
    BY <2>1, <2>3 DEF Boundary, NothingAhead
  <2>5. end - 1 \in e .. next_journal_seq - 1
    BY <1>1, <2>1, <2>4
  <2>6. pc = "fsync" /\ end - 1 = next_journal_seq - 1
    BY <2>3, <2>5 DEF Boundary
  <2> QED
    BY <1>1, <1>5, <2>6
<1>9. ASSUME NEW s \in start .. end - 1
      PROVE  img.ring[frame_slot(s)] = cache[frame_slot(s)]
  <2>1. s \in Nat /\ (s >= e \/ s \in last_checkpoint_seq + 1 .. e - 1)
    BY <1>1, <1>2, <1>3, <1>5
  <2> QED
    BY <1>4, <1>6, <2>1
<1> QED
  BY <1>8, <1>9 DEF end

\* Memory holds the checkpoint once nothing is pending and all frames count.
LEMMA MemoryReplayed ==
  ASSUME TypeInv, NEW sb \in Superblock, NEW e, IsOld(sb, e), Pending = <<>>
  PROVE  replay(cache, last_checkpoint_seq + 1, next_journal_seq, sb.state.tree) = state.tree
<1> DEFINE f == replay(cache, last_checkpoint_seq + 1, next_journal_seq, sb.state.tree)
<1>1. f = [k \in Keys |-> f[k]]
  BY ReplayMap
<1>2. \A k \in Keys : Turns(<<>>, k, f[k], state.tree[k])
  BY DEF IsOld
<1> HIDE DEF f
<1>3. \A k \in Keys : state.tree[k] = f[k]
  BY <1>2, TurnsNothing
<1>4. state.tree \in [Keys -> Values]
  BY DEF TypeInv, TypeOK, State
<1>5. f = state.tree
  BY <1>1, <1>3, <1>4
<1> QED
  BY <1>5 DEF f

\* The recovered state is the replay of the frames before the point the scan stops at.
LEMMA RecoveredAt ==
  ASSUME NEW ring, NEW sb
  PROVE  RecoveredState(ring, sb) = StateAt(ring, sb, next_seq_after_scan(ring, sb.journal_seq + 1))
BY DEF RecoveredState, StateAt

\* A superblock with nothing to replay holds the recovered state itself.
LEMMA StateAtCheckpoint ==
  ASSUME NEW ring, NEW sb \in Superblock
  PROVE  StateAt(ring, sb, sb.journal_seq + 1) = sb.state
<1>1. sb.journal_seq + 1 \in Nat /\ sb.state \in State /\ sb.state.tree \in [Keys -> Values]
  BY DEF Superblock, State
<1>2. replay(ring, sb.journal_seq + 1, sb.journal_seq + 1, sb.state.tree) = sb.state.tree
  BY <1>1, ReplayNothing
<1>3. StateAt(ring, sb, sb.journal_seq + 1) = [tree |-> sb.state.tree, next_ino |-> sb.state.next_ino]
  BY <1>2 DEF StateAt
<1> QED
  BY <1>1, <1>3 DEF State

\* Rings that agree before e give the same state.
LEMMA StateAtSame ==
  ASSUME NEW ring, NEW other, NEW sb, sb.journal_seq + 1 \in Nat, NEW e \in Nat,
         e >= sb.journal_seq + 1,
         \A s \in sb.journal_seq + 1 .. e - 1 : ring[frame_slot(s)] = other[frame_slot(s)]
  PROVE  StateAt(ring, sb, e) = StateAt(other, sb, e)
<1> DEFINE start == sb.journal_seq + 1
<1>1. replay(ring, start, e, sb.state.tree) = replay(other, start, e, sb.state.tree)
  BY SameReplay
<1>2. e # start => ring[frame_slot(e - 1)] = other[frame_slot(e - 1)]
  <2> HIDE DEF start
  <2>1. e # start => e - 1 \in start .. e - 1
    BY DEF start
  <2> QED
    BY <2>1 DEF start
<1> QED
  BY <1>1, <1>2 DEF StateAt

\* When all frames count, the state at the end of the journal is the one in memory.
LEMMA StateAtEnd ==
  ASSUME TypeInv, RingInv, NEW sb \in Superblock, NEW e \in Nat, IsOld(sb, e), Boundary(e),
         pc = "fsync", Pending = <<>>
  PROVE  StateAt(cache, sb, next_journal_seq) = state
<1>1. /\ sb.journal_seq = last_checkpoint_seq
      /\ replay(cache, last_checkpoint_seq + 1, next_journal_seq, sb.state.tree) = state.tree
  BY MemoryReplayed DEF IsOld
<1>2. cache[frame_slot(next_journal_seq - 1)].next_ino = state.next_ino
  BY DEF Boundary
<1>3. next_journal_seq # last_checkpoint_seq + 1
  <2>1. e \in last_checkpoint_seq + 1 .. next_journal_seq /\ e < next_journal_seq
    BY DEF Boundary
  <2> QED
    BY <2>1, RingNumbers
<1>4. StateAt(cache, sb, next_journal_seq) = [tree |-> state.tree, next_ino |-> state.next_ino]
  BY <1>1, <1>2, <1>3 DEF StateAt
<1>5. state \in State
  BY DEF TypeInv, TypeOK
<1> QED
  BY <1>4, <1>5 DEF State

(***************************************************************************)
(* The invariant makes every crash show a legal state.                     *)
(***************************************************************************)
LEMMA RecoveredIsLegal ==
  ASSUME TypeInv, RingInv, AtomicInv, NEW img \in Survivors
  PROVE  RecoveredState(img.ring, img.sb) \in legal
<1> DEFINE start == img.sb.journal_seq + 1
           end == next_seq_after_scan(img.ring, start)
<1>1. PICK e \in Nat : Boundary(e) /\ \A sb \in {sbDisk, sbCache} : IsNew(sb) \/ IsOld(sb, e)
  BY DEF AtomicInv
<1>2. img.sb \in {sbDisk, sbCache} /\ img.sb \in Superblock
  BY SurvivorType DEF TypeInv, TypeOK
<1>3. start \in Nat
  BY <1>2 DEF Superblock
<1>4. end \in Nat /\ end >= start
  BY <1>3, ScanNat
<1>5. RecoveredState(img.ring, img.sb) = StateAt(img.ring, img.sb, end)
  BY RecoveredAt
<1>6. next_journal_seq \in Nat /\ last_checkpoint_seq \in Nat
  BY RingNumbers
<1>7. ASSUME start = last_checkpoint_seq + 1 \/ (pc = "publish" /\ start = next_journal_seq)
      PROVE  /\ end = e \/ (pc = "fsync" /\ end = next_journal_seq)
             /\ StateAt(img.ring, img.sb, end) = StateAt(cache, img.sb, end)
  <2>1. /\ end = e \/ (pc = "fsync" /\ end = next_journal_seq)
        /\ \A s \in start .. end - 1 : img.ring[frame_slot(s)] = cache[frame_slot(s)]
    BY <1>1, <1>3, <1>7, RecoveryStops
  <2> HIDE DEF end
  <2>2. /\ img.sb.journal_seq + 1 \in Nat
        /\ end \in Nat /\ end >= img.sb.journal_seq + 1
        /\ \A s \in img.sb.journal_seq + 1 .. end - 1 :
             img.ring[frame_slot(s)] = cache[frame_slot(s)]
    BY <1>3, <1>4, <2>1, Zenon
  <2> HIDE DEF start
  <2>3. StateAt(img.ring, img.sb, end) = StateAt(cache, img.sb, end)
    BY <2>2, StateAtSame
  <2> QED
    BY <2>1, <2>3, Zenon
<1> HIDE DEF end
<1>8. CASE IsNew(img.sb)
  <2>1. pc = "publish" /\ start = next_journal_seq /\ img.sb.state = state
    BY <1>6, <1>8 DEF IsNew
  <2>2. end = start
    BY <1>1, <1>7, <2>1 DEF Boundary
  <2>3. StateAt(img.ring, img.sb, end) = state
    BY <1>2, <2>1, <2>2, StateAtCheckpoint
  <2> QED
    BY <1>5, <2>3 DEF AtomicInv
<1>9. CASE IsOld(img.sb, e)
  <2>1. start = last_checkpoint_seq + 1
    BY <1>9 DEF IsOld
  <2>2. CASE end = e
    <3>1. StateAt(cache, img.sb, e) \in legal
      BY <1>9 DEF IsOld
    <3> QED
      BY <1>5, <1>7, <2>1, <2>2, <3>1
  <2>3. CASE pc = "fsync" /\ end = next_journal_seq
    <3>1. Pending = <<>>
      BY <2>3 DEF Pending, AtomicInv
    <3>2. StateAt(cache, img.sb, end) = state
      BY <1>1, <1>2, <1>9, <2>3, <3>1, StateAtEnd
    <3> QED
      BY <1>5, <1>7, <2>1, <3>2 DEF AtomicInv
  <2> QED
    BY <1>7, <2>1, <2>2, <2>3
<1> QED
  BY <1>1, <1>2, <1>8, <1>9
-----------------------------------------------------------------------------
\* Steps that write no frame keep the boundary.
LEMMA BoundaryKept ==
  ASSUME TypeInv, NEW e \in Nat, Boundary(e),
         UNCHANGED <<cache, disk, next_journal_seq, last_checkpoint_seq>>,
         pc \notin {"append", "fsync"}, pc' # "fsync"
  PROVE  Boundary(e)'
<1>1. next_journal_seq \in Nat /\ e = next_journal_seq
  BY RingNumbers DEF Boundary
<1>2. e .. next_journal_seq - 1 = {}
  BY <1>1
<1>3. NothingAhead(e)'
  BY DEF Boundary, NothingAhead
<1> QED
  BY <1>1, <1>2, <1>3 DEF Boundary

\* An fsync leaves nothing ahead of the end of the journal.
LEMMA AheadFsync ==
  ASSUME NEW e \in Nat, NothingAhead(e), disk' = cache, UNCHANGED <<cache, next_journal_seq>>,
         NEW d \in Nat, next_journal_seq = d
  PROVE  NothingAhead(d)'
BY DEF NothingAhead

\* It moves the boundary there.
LEMMA BoundaryFsync ==
  ASSUME NEW e \in Nat, NothingAhead(e), disk' = cache, UNCHANGED <<cache, next_journal_seq>>,
         pc' \notin {"append", "fsync"},
         NEW d \in Nat, next_journal_seq = d, NEW l \in Nat, last_checkpoint_seq' = l, l < d,
         d > l + 1 => cache[frame_slot(d - 1)].kind = "CommitEnd"
  PROVE  Boundary(d)'
<1>1. d \in l + 1 .. d /\ ~ \E s \in d .. d - 1 : TRUE
  OBVIOUS
<1>2. next_journal_seq' = d /\ cache' = cache /\ disk' = cache
  OBVIOUS
<1>3. NothingAhead(d)'
  BY AheadFsync
<1>4. d > l + 1 => cache'[frame_slot(d - 1)].kind = "CommitEnd"
  BY <1>2
<1> QED
  BY <1>1, <1>2, <1>3, <1>4 DEF Boundary

\* A step that writes no frame and no record leaves the published checkpoint as it is.
LEMMA OldKept ==
  ASSUME NEW sb, NEW e, IsOld(sb, e), legal \subseteq legal', Pending' = Pending,
         UNCHANGED <<cache, next_journal_seq, last_checkpoint_seq, state>>
  PROVE  IsOld(sb, e)'
BY DEF IsOld, StateAt

\* An appended frame does not change what lies ahead of the journal.
LEMMA AheadAppend ==
  ASSUME TypeInv, NEW e \in Nat, NothingAhead(e), NEW frame \in Frame,
         frame.seq = next_journal_seq, append(frame), next_journal_seq' = next_journal_seq + 1
  PROVE  NothingAhead(e)'
<1>1. next_journal_seq \in Nat /\ cache \in [Slots -> Frame]
  BY DEF TypeInv, TypeOK
<1>2. ASSUME NEW s \in Nat, s >= next_journal_seq', is_valid(cache'[frame_slot(s)], s)
      PROVE  /\ s >= next_journal_seq /\ is_valid(cache[frame_slot(s)], s)
             /\ cache'[frame_slot(s)] = cache[frame_slot(s)]
  <2>1. s >= next_journal_seq /\ s # next_journal_seq
    BY <1>1, <1>2
  <2>2. frame_slot(s) \in Slots /\ cache'[frame_slot(s)] \in {frame, cache[frame_slot(s)]}
    BY <1>1, SlotType DEF append
  <2>3. ~ is_valid(frame, s)
    BY <2>1 DEF is_valid
  <2>4. cache'[frame_slot(s)] = cache[frame_slot(s)]
    BY <1>2, <2>2, <2>3
  <2> QED
    BY <1>2, <2>1, <2>4
<1>3. CrashMode = "process" => disk' = cache'
  BY DEF append, Unsynced
<1>4. CrashMode = "power" => disk' = disk
  BY DEF append, Unsynced
<1> QED
  BY <1>2, <1>3, <1>4 DEF NothingAhead

\* The boundary stays while a group is appended.
LEMMA BoundaryAppend ==
  ASSUME TypeInv, RingInv, NEW e \in Nat, Boundary(e), pc = "append",
         Outstanding <= JOURNAL_CAPACITY,
         NEW frame \in Frame, frame.seq = next_journal_seq, append(frame),
         next_journal_seq' = next_journal_seq + 1, last_checkpoint_seq' = last_checkpoint_seq,
         \/ frame.kind = "LoggedOp" /\ pc' = "append"
         \/ frame.kind = "CommitEnd" /\ pc' = "fsync" /\ frame.next_ino = state'.next_ino
  PROVE  Boundary(e)'
<1>1. next_journal_seq \in Nat /\ last_checkpoint_seq \in Nat
  BY RingNumbers
<1>2. e \in last_checkpoint_seq + 1 .. next_journal_seq
  BY DEF Boundary
<1>3. /\ \A s \in last_checkpoint_seq + 1 .. next_journal_seq - 1 :
           /\ cache'[frame_slot(s)] = cache[frame_slot(s)]
           /\ disk[frame_slot(s)] = cache[frame_slot(s)] =>
                disk'[frame_slot(s)] = cache'[frame_slot(s)]
      /\ cache'[frame_slot(next_journal_seq)] = frame
  BY AppendKeeps
<1>4. e \in last_checkpoint_seq' + 1 .. next_journal_seq' /\ e < next_journal_seq'
  BY <1>1, <1>2
<1>5. e > last_checkpoint_seq' + 1 => cache'[frame_slot(e - 1)].kind = "CommitEnd"
  <2>1. e > last_checkpoint_seq + 1 => e - 1 \in last_checkpoint_seq + 1 .. next_journal_seq - 1
    BY <1>1, <1>2
  <2> QED
    BY <1>3, <2>1 DEF Boundary
<1>6. ASSUME NEW s \in e .. next_journal_seq' - 1, cache'[frame_slot(s)].kind = "CommitEnd"
      PROVE  pc' = "fsync" /\ s = next_journal_seq' - 1
  <2>1. s = next_journal_seq \/ (/\ s \in e .. next_journal_seq - 1
                                 /\ s \in last_checkpoint_seq + 1 .. next_journal_seq - 1)
    BY <1>1, <1>2
  <2>2. CASE s = next_journal_seq
    <3>1. s = next_journal_seq' - 1
      BY <1>1, <2>2
    <3> QED
      BY <1>3, <1>6, <2>2, <3>1
  <2>3. CASE s \in e .. next_journal_seq - 1 /\ s \in last_checkpoint_seq + 1 .. next_journal_seq - 1
    BY <1>3, <1>6, <2>3 DEF Boundary
  <2> QED
    BY <2>1, <2>2, <2>3
<1>7. pc' = "fsync" => cache'[frame_slot(next_journal_seq' - 1)].next_ino = state'.next_ino
  <2>1. next_journal_seq' - 1 = next_journal_seq
    BY <1>1
  <2> QED
    BY <1>3, <2>1
<1>8. \A s \in last_checkpoint_seq' + 1 .. e - 1 : disk'[frame_slot(s)] = cache'[frame_slot(s)]
  <2>1. \A s \in last_checkpoint_seq + 1 .. e - 1 : s \in last_checkpoint_seq + 1 .. next_journal_seq - 1
    BY <1>1, <1>2
  <2> QED
    BY <1>3, <2>1 DEF Boundary
<1>9. NothingAhead(e)'
  BY AheadAppend DEF Boundary
<1> QED
  BY <1>4, <1>5, <1>6, <1>7, <1>8, <1>9 DEF Boundary

\* The frame stands for what the step takes off the pending records.
TakenOver(frame) ==
  \A k \in Keys : \A u, v :
    Turns(Pending, k, u, v) =>
      Turns(Pending', k, IF frame.kind = "LoggedOp" /\ frame.rec.key = k
                         THEN frame.rec.val ELSE u, v)

\* Appending the first pending record, or the CommitEnd when none is left, keeps
\* what the checkpoint, the frames and the pending records make together.
LEMMA OldAppend ==
  ASSUME TypeInv, RingInv, NEW e \in Nat, Boundary(e), NEW sb \in Superblock, IsOld(sb, e),
         Outstanding <= JOURNAL_CAPACITY,
         NEW frame \in Frame, frame.seq = next_journal_seq,
         frame.kind \in {"LoggedOp", "CommitEnd"}, append(frame),
         next_journal_seq' = next_journal_seq + 1,
         UNCHANGED <<last_checkpoint_seq, state, legal>>,
         TakenOver(frame)
  PROVE  IsOld(sb, e)'
<1> DEFINE start == last_checkpoint_seq + 1
<1>1. /\ next_journal_seq \in Nat /\ last_checkpoint_seq \in Nat /\ start \in Nat
      /\ start <= next_journal_seq
  <2>1. last_checkpoint_seq < next_journal_seq
    BY DEF RingInv
  <2>2. next_journal_seq \in Nat /\ last_checkpoint_seq \in Nat
    BY RingNumbers
  <2> QED
    BY <2>1, <2>2
<1>2. /\ sb.journal_seq = last_checkpoint_seq
      /\ e \in start .. next_journal_seq
  BY Zenon DEF Boundary, IsOld
<1>3. /\ \A s \in start .. next_journal_seq - 1 : cache'[frame_slot(s)] = cache[frame_slot(s)]
      /\ cache'[frame_slot(next_journal_seq)] = frame
  BY AppendKeeps, Zenon
<1>4. StateAt(cache', sb, e) = StateAt(cache, sb, e)
  <2>1. \A s \in sb.journal_seq + 1 .. e - 1 : s \in start .. next_journal_seq - 1
    BY <1>1, <1>2
  <2>2. \A s \in sb.journal_seq + 1 .. e - 1 : cache'[frame_slot(s)] = cache[frame_slot(s)]
    BY <1>3, <2>1
  <2>3. sb.journal_seq + 1 \in Nat /\ e >= sb.journal_seq + 1
    BY <1>1, <1>2
  <2> QED
    BY <2>2, <2>3, StateAtSame
<1>5. ASSUME NEW k \in Keys
      PROVE  Turns(Pending', k, replay(cache', start, next_journal_seq + 1, sb.state.tree)[k],
                   state.tree[k])
  <2> DEFINE u == replay(cache, start, next_journal_seq, sb.state.tree)[k]
             v == replay(cache', start, next_journal_seq + 1, sb.state.tree)[k]
  <2>1. Turns(Pending, k, u, state.tree[k])
    BY DEF IsOld
  <2>2. /\ Writes(cache', next_journal_seq, k) => v = cache'[frame_slot(next_journal_seq)].rec.val
        /\ ~ Writes(cache', next_journal_seq, k) => v = u
    <3>1. start \in Nat /\ start <= next_journal_seq /\ next_journal_seq \in Nat
      BY <1>1
    <3>2. Agree(cache, cache', start, next_journal_seq)
      BY <1>3 DEF Agree
    <3> HIDE DEF start
    <3>3. OneMore(cache', next_journal_seq, k, u, v)
      BY <3>1, <3>2, ReplayOneMore, Zenon
    <3> HIDE DEF u, v
    <3> QED
      BY <3>3, Zenon DEF OneMore
  <2>3. v = IF frame.kind = "LoggedOp" /\ frame.rec.key = k THEN frame.rec.val ELSE u
    <3> HIDE DEF u, v
    <3> QED
      BY <1>3, <2>2 DEF Writes
  <2> HIDE DEF u, v, start
  <2>4. Turns(Pending', k, v, state.tree[k])
    BY <2>1, <2>3 DEF TakenOver
  <2> QED
    BY <2>4, Zenon DEF v
<1> QED
  BY <1>2, <1>4, <1>5, Zenon DEF IsOld, StateAt

LEMMA AtomicInit == Init => AtomicInv
<1> SUFFICES ASSUME Init PROVE AtomicInv
  OBVIOUS
<1>1. /\ TypeInv /\ next_journal_seq = 1 /\ last_checkpoint_seq = 0 /\ pc = "idle"
      /\ disk = cache /\ log = <<>> /\ group = <<>>
      /\ sbDisk = sbCache /\ sbCache = [journal_seq |-> 0, state |-> FreshState]
      /\ state = FreshState /\ legal = {FreshState}
  BY TypeInit DEF Init
<1>2. FreshState \in State /\ FreshState.tree[0] = 0 /\ sbCache \in Superblock
  <2>1. 0 \in Keys
    BY JournalConstants DEF Keys
  <2> QED
    BY <1>1, <2>1 DEF FreshState, TypeInv, TypeOK
<1>3. Boundary(1)
  <2>1. \A s \in Nat : ~ is_valid(cache[frame_slot(s)], s)
    BY SlotType DEF Init, is_valid, ZeroFrame
  <2>2. NothingAhead(1)
    BY <1>1, <2>1, JournalConstants DEF NothingAhead
  <2>3. last_checkpoint_seq + 1 = 1 /\ 1 .. 1 - 1 = {} /\ 1 \in 1 .. 1
    BY <1>1
  <2> QED
    BY <1>1, <2>2, <2>3 DEF Boundary
<1>4. IsOld(sbCache, 1)
  <2>1. StateAt(cache, sbCache, sbCache.journal_seq + 1) = sbCache.state
    BY <1>2, StateAtCheckpoint
  <2>2. sbCache.journal_seq = 0 /\ sbCache.state = FreshState /\ 0 + 1 = 1
    BY <1>1
  <2>3. replay(cache, 1, 1, FreshState.tree) = FreshState.tree
    BY <1>2, ReplayNothing DEF State
  <2>4. Pending = <<>>
    BY <1>1 DEF Pending
  <2>5. \A k \in Keys : Turns(<<>>, k, FreshState.tree[k], FreshState.tree[k])
    BY TurnsNothing
  <2>6. StateAt(cache, sbCache, 1) = FreshState
    BY <2>1, <2>2
  <2>7. last_checkpoint_seq + 1 = 1
    BY <1>1
  <2>8. \A k \in Keys : Turns(Pending, k, replay(cache, last_checkpoint_seq + 1, next_journal_seq,
                                               sbCache.state.tree)[k], state.tree[k])
    BY <1>1, <2>2, <2>3, <2>4, <2>5, <2>7
  <2> QED
    BY <1>1, <2>2, <2>6, <2>8 DEF IsOld
<1> QED
  BY <1>1, <1>2, <1>3, <1>4 DEF AtomicInv

\* The records of an operation turn the old state in memory into the new one.
LEMMA MutateTurns ==
  ASSUME TypeInv, NEW n \in 1 .. MaxRecords, Mutate(n),
         NEW k \in Keys, NEW u, Turns(log, k, u, state.tree[k])
  PROVE  Turns(log', k, u, state'.tree[k])
<1> DEFINE recs == [i \in 1 .. n |-> [key |-> i, val |-> state.next_ino]]
<1>1. n \in Nat /\ log \in Seq(Record) /\ recs \in Seq(Record)
  <2>1. n \in Nat /\ state.next_ino \in Values
    BY JournalConstants DEF Mutate, Values, TypeInv, TypeOK, State
  <2>2. recs \in [1 .. n -> Record]
    BY <2>1, JournalConstants DEF Record, Keys
  <2> QED
    BY <2>1, <2>2, RecordSeq DEF TypeInv, TypeOK
<1>2. /\ log' = log \o recs
      /\ state'.tree = [j \in Keys |-> IF j \in 1 .. n THEN state.next_ino ELSE state.tree[j]]
  BY DEF Mutate
<1>3. /\ k \in 1 .. n => Turns(recs, k, state.tree[k], state.next_ino)
      /\ k \notin 1 .. n => Turns(recs, k, state.tree[k], state.tree[k])
  BY <1>1, TurnsOperation, Zenon
<1>4. state'.tree[k] = IF k \in 1 .. n THEN state.next_ino ELSE state.tree[k]
  BY <1>2, Zenon
<1> HIDE DEF recs
<1>5. Turns(recs, k, state.tree[k], state'.tree[k])
  BY <1>3, <1>4
<1>6. Turns(log \o recs, k, u, state'.tree[k])
  BY <1>1, <1>5, TurnsConcat
<1> QED
  BY <1>2, <1>6

\* Key 0 belongs to reclaim: an operation leaves it alone.
LEMMA MutateKeyZero ==
  ASSUME NEW n \in 1 .. MaxRecords, Mutate(n), state \in legal, \A st \in legal : st.tree[0] = 0
  PROVE  state' \in legal' /\ \A st \in legal' : st.tree[0] = 0
<1>1. 0 \in Keys /\ 0 \notin 1 .. n
  BY JournalConstants DEF Keys
<1>2. state'.tree[0] = 0
  BY <1>1 DEF Mutate
<1>3. legal' = legal \cup {state'}
  BY DEF Mutate
<1> QED
  BY <1>2, <1>3

\* An operation.
LEMMA AtomicMutate ==
  ASSUME TypeInv, AtomicInv, NEW n \in 1 .. MaxRecords, Mutate(n)
  PROVE  AtomicInv'
<1>1. PICK e \in Nat : Boundary(e) /\ \A sb \in {sbDisk, sbCache} : IsNew(sb) \/ IsOld(sb, e)
  BY DEF AtomicInv
<1>2. /\ UNCHANGED <<cache, disk, sbCache, sbDisk, pc, group, next_journal_seq, last_checkpoint_seq>>
      /\ pc = "idle" /\ legal \subseteq legal'
  BY DEF Mutate, deviceVars
<1>3. Boundary(e)'
  BY <1>1, <1>2, BoundaryKept
<1>4. ASSUME NEW sb, IsOld(sb, e) PROVE IsOld(sb, e)'
  <2>1. Pending = log /\ Pending' = log'
    BY <1>2 DEF Pending
  <2>2. StateAt(cache, sb, e)' \in legal'
    BY <1>2, <1>4 DEF IsOld, StateAt
  <2>3. ASSUME NEW k \in Keys
        PROVE  Turns(Pending', k, replay(cache', last_checkpoint_seq' + 1, next_journal_seq',
                                        sb.state.tree)[k], state'.tree[k])
    <3> DEFINE u == replay(cache, last_checkpoint_seq + 1, next_journal_seq, sb.state.tree)[k]
    <3>1. Turns(log, k, u, state.tree[k])
      BY <1>4, <2>1 DEF IsOld
    <3>2. u = replay(cache', last_checkpoint_seq' + 1, next_journal_seq', sb.state.tree)[k]
      BY <1>2
    <3> HIDE DEF u
    <3>3. Turns(log', k, u, state'.tree[k])
      BY <3>1, MutateTurns
    <3> QED
      BY <2>1, <3>2, <3>3, Zenon
  <2>4. sb.journal_seq = last_checkpoint_seq'
    BY <1>2, <1>4 DEF IsOld
  <2> QED
    BY <2>2, <2>3, <2>4 DEF IsOld
<1>5. \A sb \in {sbDisk', sbCache'} : IsOld(sb, e)'
  BY <1>1, <1>2, <1>4 DEF IsNew
<1>6. state' \in legal' /\ \A st \in legal' : st.tree[0] = 0
  BY MutateKeyZero DEF AtomicInv
<1>7. pc' = "idle" /\ group' = <<>>
  BY <1>2, Zenon DEF AtomicInv
<1> QED
  BY <1>2, <1>3, <1>5, <1>6, <1>7 DEF AtomicInv

\* The log becomes the group, with records that clear key 0.
LEMMA ReclaimTurns ==
  ASSUME TypeInv, NEW n \in 0 .. JOURNAL_CAPACITY, Reclaim(n), state.tree[0] = 0,
         NEW k \in Keys, NEW u, Turns(log, k, u, state.tree[k])
  PROVE  Turns(group', k, u, state.tree[k])
<1> DEFINE recs == [i \in 1 .. n |-> NoRecord]
<1>1. n \in Nat /\ log \in Seq(Record) /\ recs \in Seq(Record)
  <2>1. n \in Nat
    BY JournalConstants
  <2>2. NoRecord \in Record
    BY JournalConstants DEF NoRecord, Record, Keys, Values
  <2> QED
    BY <2>1, <2>2, RecordSeq, Zenon DEF TypeInv, TypeOK
<1>2. Turns(recs, k, state.tree[k], state.tree[k])
  BY <1>1, TurnsReclaim
<1>3. group' = log \o recs
  BY DEF Reclaim
<1> HIDE DEF recs
<1>4. Turns(log \o recs, k, u, state.tree[k])
  BY <1>1, <1>2, TurnsConcat
<1> QED
  BY <1>3, <1>4

\* Reclaim and drain_log.
LEMMA AtomicReclaim ==
  ASSUME TypeInv, AtomicInv, NEW n \in 0 .. JOURNAL_CAPACITY, Reclaim(n)
  PROVE  AtomicInv'
<1>1. PICK e \in Nat : Boundary(e) /\ \A sb \in {sbDisk, sbCache} : IsNew(sb) \/ IsOld(sb, e)
  BY DEF AtomicInv
<1>2. /\ UNCHANGED <<cache, disk, sbCache, sbDisk, state, next_journal_seq, last_checkpoint_seq, legal>>
      /\ pc = "reclaim" /\ pc' = "append" /\ log' = <<>>
  BY DEF Reclaim, deviceVars
<1>3. Boundary(e)'
  BY <1>1, <1>2, BoundaryKept
<1>4. ASSUME NEW sb, IsOld(sb, e) PROVE IsOld(sb, e)'
  <2>1. Pending = log /\ Pending' = group'
    BY <1>2 DEF Pending
  <2>2. StateAt(cache, sb, e)' \in legal'
    BY <1>2, <1>4, Zenon DEF IsOld, StateAt
  <2>3. ASSUME NEW k \in Keys
        PROVE  Turns(Pending', k, replay(cache', last_checkpoint_seq' + 1, next_journal_seq',
                                        sb.state.tree)[k], state'.tree[k])
    <3> DEFINE u == replay(cache, last_checkpoint_seq + 1, next_journal_seq, sb.state.tree)[k]
    <3>1. Turns(log, k, u, state.tree[k])
      BY <1>4, <2>1, Zenon DEF IsOld
    <3>2. u = replay(cache', last_checkpoint_seq' + 1, next_journal_seq', sb.state.tree)[k]
      BY <1>2
    <3> HIDE DEF u
    <3>3. Turns(group', k, u, state.tree[k])
      BY <3>1, ReclaimTurns, Zenon DEF AtomicInv
    <3> QED
      BY <1>2, <2>1, <3>2, <3>3, Zenon
  <2>4. sb.journal_seq = last_checkpoint_seq'
    BY <1>2, <1>4, Zenon DEF IsOld
  <2> QED
    BY <2>2, <2>3, <2>4, Zenon DEF IsOld
<1>5. \A sb \in {sbDisk', sbCache'} : IsOld(sb, e)'
  BY <1>1, <1>2, <1>4 DEF IsNew
<1> QED
  BY <1>2, <1>3, <1>5 DEF AtomicInv

\* One LoggedOp frame.
LEMMA AtomicAppendOp ==
  ASSUME TypeInv, RingInv, AtomicInv, AppendOp
  PROVE  AtomicInv'
<1> DEFINE frame == LoggedOp(next_journal_seq, Head(group))
<1>1. PICK e \in Nat : Boundary(e) /\ \A sb \in {sbDisk, sbCache} : IsNew(sb) \/ IsOld(sb, e)
  BY DEF AtomicInv
<1>2. /\ append(frame) /\ next_journal_seq' = next_journal_seq + 1
      /\ UNCHANGED <<sbCache, sbDisk, state, log, last_checkpoint_seq, legal>>
      /\ pc = "append" /\ pc' = "append" /\ group # <<>> /\ group' = Tail(group)
  BY DEF AppendOp, append, historyVars
<1>3. group \in Seq(Record) /\ Head(group) \in Record
  BY <1>2, HeadTailProperties DEF TypeInv, TypeOK
<1>4. frame \in Frame /\ frame.seq = next_journal_seq /\ frame.kind = "LoggedOp" /\ frame.rec = Head(group)
  BY <1>3 DEF LoggedOp, Frame, TypeInv, TypeOK
<1>5. Outstanding <= JOURNAL_CAPACITY
  <2>1. Outstanding + Len(group) <= JOURNAL_CAPACITY
    BY <1>2 DEF RingInv
  <2> QED
    BY <2>1, RingNumbers DEF Outstanding
<1> HIDE DEF frame
<1>6. Boundary(e)'
  BY <1>1, <1>2, <1>4, <1>5, BoundaryAppend, Zenon
<1>7. TakenOver(frame)
  <2>1. ASSUME NEW k \in Keys, NEW u, NEW v, Turns(group, k, u, v)
        PROVE  Turns(Tail(group), k, IF frame.kind = "LoggedOp" /\ frame.rec.key = k
                                     THEN frame.rec.val ELSE u, v)
    <3>1. Turns(Tail(group), k, IF Head(group).key = k THEN Head(group).val ELSE u, v)
      BY <1>2, <1>3, <2>1, TurnsHead
    <3> QED
      BY <1>4, <3>1
  <2>2. Pending = group /\ Pending' = Tail(group)
    BY <1>2 DEF Pending
  <2> QED
    BY <2>1, <2>2 DEF TakenOver
<1>8. \A sb \in {sbDisk, sbCache} : IsOld(sb, e) /\ sb \in Superblock
  BY <1>1, <1>2 DEF IsNew, TypeInv, TypeOK
<1>9. \A sb \in {sbDisk, sbCache} : IsOld(sb, e)'
  BY <1>1, <1>2, <1>4, <1>5, <1>7, <1>8, OldAppend
<1>10. \A sb \in {sbDisk', sbCache'} : IsOld(sb, e)'
  BY <1>2, <1>9, Zenon
<1>11. /\ state' \in legal' /\ \A st \in legal' : st.tree[0] = 0
       /\ log' = <<>> /\ pc' = "append"
  BY <1>2 DEF AtomicInv
<1> QED
  BY <1>6, <1>10, <1>11 DEF AtomicInv

\* The CommitEnd frame.
LEMMA AtomicAppendEnd ==
  ASSUME TypeInv, RingInv, AtomicInv, AppendEnd
  PROVE  AtomicInv'
<1> DEFINE frame == CommitEnd(next_journal_seq, state.next_ino)
<1>1. PICK e \in Nat : Boundary(e) /\ \A sb \in {sbDisk, sbCache} : IsNew(sb) \/ IsOld(sb, e)
  BY DEF AtomicInv
<1>2. /\ append(frame) /\ next_journal_seq' = next_journal_seq + 1
      /\ UNCHANGED <<sbCache, sbDisk, state, log, group, last_checkpoint_seq, legal>>
      /\ pc = "append" /\ pc' = "fsync" /\ group = <<>>
  BY DEF AppendEnd, append, historyVars
<1>3. /\ frame \in Frame /\ frame.seq = next_journal_seq /\ frame.kind = "CommitEnd"
      /\ frame.next_ino = state.next_ino
  <2>1. NoRecord \in Record
    BY JournalConstants DEF NoRecord, Record, Keys, Values
  <2> QED
    BY <2>1 DEF CommitEnd, Frame, TypeInv, TypeOK, State
<1>4. Outstanding <= JOURNAL_CAPACITY
  <2>1. Outstanding + Len(group) <= JOURNAL_CAPACITY
    BY <1>2 DEF RingInv
  <2> QED
    BY <2>1, RingNumbers DEF Outstanding
<1> HIDE DEF frame
<1>5. Boundary(e)'
  BY <1>1, <1>2, <1>3, <1>4, BoundaryAppend
<1>6. TakenOver(frame)
  <2>1. Pending = <<>> /\ Pending' = <<>>
    BY <1>2 DEF Pending, AtomicInv
  <2>2. frame.kind # "LoggedOp"
    BY <1>3
  <2> QED
    BY <2>1, <2>2 DEF TakenOver
<1>7. \A sb \in {sbDisk, sbCache} : IsOld(sb, e) /\ sb \in Superblock
  BY <1>1, <1>2 DEF IsNew, TypeInv, TypeOK
<1>8. \A sb \in {sbDisk, sbCache} : IsOld(sb, e)'
  BY <1>1, <1>2, <1>3, <1>4, <1>6, <1>7, OldAppend, Zenon
<1>9. \A sb \in {sbDisk', sbCache'} : IsOld(sb, e)'
  BY <1>2, <1>8, Zenon
<1>10. /\ state' \in legal' /\ \A st \in legal' : st.tree[0] = 0
       /\ log' = <<>> /\ group' = <<>> /\ pc' = "fsync"
  BY <1>2, Zenon DEF AtomicInv
<1> QED
  BY <1>5, <1>9, <1>10 DEF AtomicInv

\* The fsync of journal_commit: the group counts from now on.
LEMMA AtomicCommitFsync ==
  ASSUME TypeInv, RingInv, AtomicInv, CommitFsync
  PROVE  AtomicInv'
<1>1. PICK e \in Nat : Boundary(e) /\ \A sb \in {sbDisk, sbCache} : IsNew(sb) \/ IsOld(sb, e)
  BY DEF AtomicInv
<1>2. /\ disk' = cache /\ sbDisk' = sbCache /\ legal' = {state}
      /\ UNCHANGED <<cache, sbCache, state, log, group, next_journal_seq, last_checkpoint_seq>>
      /\ pc = "fsync" /\ pc' = "idle"
  BY DEF CommitFsync, fsync, memoryVars
<1>3. next_journal_seq \in Nat /\ last_checkpoint_seq \in Nat
  BY RingNumbers
<1>4. PICK d \in Nat, l \in Nat : next_journal_seq = d /\ last_checkpoint_seq = l
  BY <1>3
<1>5. l < d /\ cache[frame_slot(d - 1)].kind = "CommitEnd"
  BY <1>2, <1>4 DEF RingInv
<1>6. Boundary(d)'
  <2>1. NothingAhead(e)
    BY <1>1 DEF Boundary
  <2> QED
    BY <1>2, <1>4, <1>5, <2>1, BoundaryFsync
<1>7. IsOld(sbCache, e) /\ sbCache \in Superblock
  BY <1>1, <1>2 DEF IsNew, TypeInv, TypeOK
<1>8. Pending = <<>> /\ Pending' = log
  BY <1>2, Zenon DEF Pending, AtomicInv
<1>9. StateAt(cache, sbCache, d) = state
  BY <1>1, <1>2, <1>4, <1>7, <1>8, StateAtEnd
<1>10. IsOld(sbCache, d)'
  <2>1. Pending' = Pending
    BY <1>2, <1>8 DEF Pending
  <2>2. \A k \in Keys :
          Turns(Pending, k, replay(cache, last_checkpoint_seq + 1, next_journal_seq, sbCache.state.tree)[k],
                state.tree[k])
    BY <1>7, Zenon DEF IsOld
  <2>3. sbCache.journal_seq = last_checkpoint_seq
    BY <1>7, Zenon DEF IsOld
  <2>4. StateAt(cache, sbCache, d)' = StateAt(cache, sbCache, d)
    BY <1>2, Zenon DEF StateAt
  <2>5. StateAt(cache, sbCache, d)' \in legal'
    BY <1>2, <1>9, <2>4
  <2> QED
    BY <1>2, <2>1, <2>2, <2>3, <2>5, Zenon DEF IsOld
<1> QED
  BY <1>2, <1>6, <1>10, Zenon DEF AtomicInv

\* Entry of journal_commit or sync: nothing but pc changes.
LEMMA AtomicEntry ==
  ASSUME TypeInv, AtomicInv, pc = "idle", pc' \in {"flush", "reclaim"},
         UNCHANGED <<cache, disk, sbCache, sbDisk, state, log, group, next_journal_seq,
                     last_checkpoint_seq, legal>>
  PROVE  AtomicInv'
<1>1. PICK e \in Nat : Boundary(e) /\ \A sb \in {sbDisk, sbCache} : IsNew(sb) \/ IsOld(sb, e)
  BY Zenon DEF AtomicInv
<1>2. Boundary(e)'
  BY <1>1, BoundaryKept
<1>3. Pending' = Pending
  BY DEF Pending
<1>4. \A sb \in {sbDisk, sbCache} : IsOld(sb, e)
  BY <1>1 DEF IsNew
<1>5. \A sb \in {sbDisk, sbCache} : IsOld(sb, e)'
  BY <1>3, <1>4, OldKept
<1> QED
  BY <1>2, <1>5 DEF AtomicInv

\* The first fsync of sync.
LEMMA AtomicSyncFlush ==
  ASSUME TypeInv, RingInv, AtomicInv, SyncFlush
  PROVE  AtomicInv'
<1>1. PICK e \in Nat : Boundary(e) /\ \A sb \in {sbDisk, sbCache} : IsNew(sb) \/ IsOld(sb, e)
  BY DEF AtomicInv
<1>2. /\ disk' = cache /\ sbDisk' = sbCache
      /\ UNCHANGED <<cache, sbCache, state, log, group, next_journal_seq, last_checkpoint_seq, legal>>
      /\ pc = "flush" /\ pc' = "swap"
  BY DEF SyncFlush, fsync, memoryVars, historyVars
<1>3. next_journal_seq \in Nat /\ last_checkpoint_seq \in Nat
  BY RingNumbers
<1>4. PICK l \in Nat : last_checkpoint_seq = l
  BY <1>3
<1>5. next_journal_seq = e /\ l < e /\ (e > l + 1 => cache[frame_slot(e - 1)].kind = "CommitEnd")
  BY <1>1, <1>2, <1>4, Zenon DEF RingInv, Boundary
<1>6. Boundary(e)'
  <2>1. NothingAhead(e)
    BY <1>1 DEF Boundary
  <2> QED
    BY <1>2, <1>4, <1>5, <2>1, BoundaryFsync
<1>7. Pending' = Pending /\ IsOld(sbCache, e)
  BY <1>1, <1>2 DEF Pending, IsNew
<1>8. IsOld(sbCache, e)'
  BY <1>2, <1>7, OldKept
<1> QED
  BY <1>2, <1>6, <1>8 DEF AtomicInv

\* The superblock write of sync.
LEMMA AtomicSyncSwap ==
  ASSUME TypeInv, AtomicInv, SyncSwap
  PROVE  AtomicInv'
<1>1. PICK e \in Nat : Boundary(e) /\ \A sb \in {sbDisk, sbCache} : IsNew(sb) \/ IsOld(sb, e)
  BY DEF AtomicInv
<1>2. /\ sbCache' = [journal_seq |-> next_journal_seq - 1, state |-> state]
      /\ sbDisk' \in {sbCache', sbDisk}
      /\ UNCHANGED <<cache, disk, state, log, group, next_journal_seq, last_checkpoint_seq, legal>>
      /\ pc = "swap" /\ pc' = "publish"
  BY DEF SyncSwap, Unsynced, memoryVars, historyVars
<1>3. Boundary(e)'
  BY <1>1, <1>2, BoundaryKept
<1>4. Pending' = Pending /\ Pending = log
  BY <1>2 DEF Pending
<1>5. IsOld(sbDisk, e)
  BY <1>1, <1>2 DEF IsNew
<1>6. PICK old : old = sbDisk
  OBVIOUS
<1>7. IsOld(old, e)'
  BY <1>2, <1>4, <1>5, <1>6, OldKept
<1>8. PICK new : new = sbCache'
  OBVIOUS
<1>9. sbCache' = new /\ IsNew(new)'
  BY <1>2, <1>8 DEF IsNew
<1>10. \A sb \in {sbDisk', sbCache'} : IsNew(sb)' \/ IsOld(sb, e)'
  <2>1. sbDisk' \in {old, new} /\ sbCache' = new
    BY <1>2, <1>6, <1>9
  <2> QED
    BY <1>7, <1>9, <2>1
<1>11. \A k \in Keys : Turns(log, k, state.tree[k], state.tree[k])
  BY <1>4, <1>5, TurnsAgain, Zenon DEF IsOld
<1>12. IsNew(sbCache)' /\ \A k \in Keys : Turns(log', k, state'.tree[k], state'.tree[k])
  BY <1>2, <1>11 DEF IsNew
<1> QED
  BY <1>2, <1>3, <1>10, <1>12, Zenon DEF AtomicInv

\* The second fsync of sync: the checkpoint takes over from the frames.
LEMMA AtomicSyncPublish ==
  ASSUME TypeInv, MemoryInv, SyncPublish
  PROVE  AtomicInv'
<1>1. PICK e \in Nat : NothingAhead(e)
  BY DEF MemoryInv
<1>2. /\ disk' = cache /\ sbDisk' = sbCache /\ legal' = {state}
      /\ UNCHANGED <<cache, sbCache, state, log, group, next_journal_seq>>
      /\ last_checkpoint_seq' = next_journal_seq - 1
      /\ pc = "publish" /\ pc' \in {"reclaim", "idle"}
  BY DEF SyncPublish, fsync
<1>3. next_journal_seq \in Nat /\ next_journal_seq >= 1
  BY RingNumbers
<1>4. PICK d \in Nat, l \in Nat : next_journal_seq = d /\ l = d - 1
  BY <1>3
<1>5. l < d /\ ~(d > l + 1) /\ l + 1 = d
  BY <1>4
<1>6. last_checkpoint_seq' = l
  BY <1>2, <1>4
<1>7. Boundary(d)'
  BY <1>1, <1>2, <1>4, <1>5, <1>6, BoundaryFsync
<1>8. PICK sb : sb = sbCache
  OBVIOUS
<1>9. sb.journal_seq = l /\ sb.state = state /\ sb \in Superblock
  <2>1. sbCache = [journal_seq |-> next_journal_seq - 1, state |-> state]
    BY <1>2, Zenon DEF MemoryInv, IsNew
  <2>2. sbCache \in Superblock
    BY DEF TypeInv, TypeOK
  <2>3. sb = [journal_seq |-> l, state |-> state]
    BY <1>4, <1>8, <2>1
  <2>4. sb.journal_seq = l /\ sb.state = state
    BY <2>3
  <2> QED
    BY <1>8, <2>2, <2>4
<1>10. StateAt(cache, sb, d) = state
  <2>1. StateAt(cache, sb, sb.journal_seq + 1) = sb.state
    <3>1. sb \in Superblock
      BY <1>9
    <3> QED
      BY <3>1, StateAtCheckpoint
  <2>2. sb.journal_seq + 1 = d
    BY <1>5, <1>9
  <2> QED
    BY <1>9, <2>1, <2>2
<1>11. replay(cache, d, d, sb.state.tree) = state.tree
  BY <1>9, ReplayNothing DEF TypeInv, TypeOK, State
<1>12. \A k \in Keys : Turns(log, k, state.tree[k], state.tree[k])
  <2>1. Pending = log
    BY <1>2 DEF Pending
  <2> QED
    BY <2>1 DEF MemoryInv
<1>13. Pending' = log
  BY <1>2 DEF Pending
<1>14. IsOld(sb, d)'
  <2>1. StateAt(cache, sb, d)' = StateAt(cache, sb, d)
    BY <1>2 DEF StateAt
  <2>2. StateAt(cache, sb, d)' \in legal'
    BY <1>2, <1>10, <2>1
  <2>3. replay(cache', last_checkpoint_seq' + 1, next_journal_seq', sb.state.tree) = state.tree
    BY <1>2, <1>4, <1>5, <1>6, <1>11
  <2>4. \A k \in Keys : Turns(Pending', k, replay(cache', last_checkpoint_seq' + 1, next_journal_seq',
                                                 sb.state.tree)[k], state'.tree[k])
    BY <1>2, <1>12, <1>13, <2>3
  <2> QED
    BY <1>6, <1>9, <2>2, <2>4, Zenon DEF IsOld
<1>15. sbDisk' = sb /\ sbCache' = sb
  BY <1>2, <1>8
<1>16. group' = <<>> /\ state' \in legal' /\ \A st \in legal' : st.tree[0] = 0
  BY <1>2 DEF MemoryInv
<1> QED
  BY <1>2, <1>7, <1>14, <1>15, <1>16 DEF AtomicInv

\* Memory is in order as long as the journal is.
LEMMA AtomicMemory ==
  ASSUME AtomicInv
  PROVE  MemoryInv
<1>1. PICK e \in Nat : Boundary(e) /\ \A sb \in {sbDisk, sbCache} : IsNew(sb) \/ IsOld(sb, e)
  BY DEF AtomicInv
<1>2. ASSUME NEW k \in Keys PROVE Turns(Pending, k, state.tree[k], state.tree[k])
  <2>1. CASE IsNew(sbDisk)
    <3>1. pc = "publish" /\ Pending = log
      BY <2>1 DEF IsNew, Pending
    <3> QED
      BY <3>1 DEF AtomicInv
  <2>2. CASE IsOld(sbDisk, e)
    BY <2>2, TurnsAgain, Zenon DEF IsOld
  <2> QED
    BY <1>1, <2>1, <2>2
<1>3. NothingAhead(e)
  BY <1>1 DEF Boundary
<1> QED
  BY <1>2, <1>3, Zenon DEF AtomicInv, MemoryInv

\* A crash that keeps every write: recovery starts a journal at a group boundary,
\* and what it cuts off ends no group.
LEMMA AtomicCrash ==
  ASSUME TypeInv, RingInv, AtomicInv, TypeInv', CrashMode = "process", Crash
  PROVE  AtomicInv'
<1>1. PICK img \in Survivors :
        /\ Open(img.ring, img.sb)
        /\ cache' = img.ring /\ disk' = img.ring
        /\ sbCache' = img.sb /\ sbDisk' = img.sb
  BY DEF Crash
<1>2. PICK e \in Nat : Boundary(e) /\ \A sb \in {sbDisk, sbCache} : IsNew(sb) \/ IsOld(sb, e)
  BY DEF AtomicInv
<1>3. PICK ring, sb : ring = img.ring /\ sb = img.sb
  OBVIOUS
<1>4. /\ cache' = ring /\ disk' = ring /\ sbCache' = sb /\ sbDisk' = sb
      /\ log' = <<>> /\ group' = <<>> /\ pc' = "idle"
      /\ state' = RecoveredState(ring, sb) /\ legal' = {RecoveredState(ring, sb)}
      /\ last_checkpoint_seq' = sb.journal_seq
      /\ next_journal_seq' = next_seq_after_scan(ring, sb.journal_seq + 1)
  BY <1>1, <1>3 DEF Open
<1>5. sb \in Superblock /\ sb \in {sbDisk, sbCache} /\ ring = cache
  BY <1>2, <1>3, SurvivorType, SurvivingFrames, Zenon DEF TypeInv, TypeOK
<1>6. PICK start \in Nat : start = sb.journal_seq + 1
  BY <1>5 DEF Superblock
<1>7. PICK d \in Nat : d = next_seq_after_scan(ring, start)
  BY <1>6, ScanNat
<1>8. /\ d >= start
      /\ d # start => d - 1 \in GroupEnds(ring, start)
      /\ \A g \in GroupEnds(ring, start) : g < d
  BY <1>7, ScanNat, ScanResult
<1>9. next_journal_seq' = d /\ last_checkpoint_seq' + 1 = start
  BY <1>4, <1>6, <1>7
<1>10. \A s \in Nat : s >= d /\ is_valid(ring[frame_slot(s)], s) => ring[frame_slot(s)].kind # "CommitEnd"
  <2> SUFFICES ASSUME NEW s \in Nat, s >= d, is_valid(ring[frame_slot(s)], s),
                      ring[frame_slot(s)].kind = "CommitEnd"
               PROVE  FALSE
    OBVIOUS
  <2>1. /\ next_journal_seq \in Nat /\ last_checkpoint_seq \in Nat /\ JOURNAL_CAPACITY \in Nat
        /\ next_journal_seq - 1 - last_checkpoint_seq <= JOURNAL_CAPACITY
    BY RingNumbers DEF RingInv
  <2>2. ~(s >= next_journal_seq)
    BY <1>2, <1>5 DEF Boundary, NothingAhead
  <2>3. sb.journal_seq = last_checkpoint_seq \/ sb.journal_seq = next_journal_seq - 1
    BY <1>5, Zenon DEF RingInv
  <2>4. start = last_checkpoint_seq + 1
    BY <1>6, <1>8, <2>1, <2>2, <2>3
  <2>5. \A m \in start .. s : m \in last_checkpoint_seq + 1 .. next_journal_seq - 1
    BY <2>1, <2>2, <2>4
  <2>6. \A m \in start .. s : is_valid(ring[frame_slot(m)], m)
    BY <1>5, <2>5 DEF RingInv
  <2>7. s \in start .. start + JOURNAL_CAPACITY - 1
    BY <1>8, <2>1, <2>2, <2>4
  <2>8. s \in GroupEnds(ring, start)
    BY <2>6, <2>7 DEF GroupEnds, Readable
  <2>9. s < d
    BY <1>8, <2>8
  <2> QED
    BY <2>9
<1>11. Boundary(d)'
  <2>1. NothingAhead(d)'
    BY <1>4, <1>9, <1>10, Zenon DEF NothingAhead
  <2>2. d \in start .. d /\ ~ \E s \in d .. d - 1 : TRUE
    BY <1>8
  <2>3. d > start => ring[frame_slot(d - 1)].kind = "CommitEnd"
    <3>1. d > start => d # start
      OBVIOUS
    <3> QED
      BY <1>8, <3>1 DEF GroupEnds
  <2> QED
    BY <1>4, <1>9, <2>1, <2>2, <2>3 DEF Boundary
<1>12. StateAt(ring, sb, d) = RecoveredState(ring, sb)
  BY <1>6, <1>7, RecoveredAt
<1>13. IsOld(sb, d)'
  <2>1. StateAt(cache, sb, d)' = StateAt(ring, sb, d)
    BY <1>4, Zenon DEF StateAt
  <2>2. StateAt(cache, sb, d)' \in legal'
    BY <1>4, <1>12, <2>1
  <2>3. state'.tree = replay(ring, start, d, sb.state.tree)
    <3>1. state' = StateAt(ring, sb, d)
      BY <1>4, <1>12, Zenon
    <3>2. StateAt(ring, sb, d).tree = replay(ring, sb.journal_seq + 1, d, sb.state.tree)
      BY Zenon DEF StateAt
    <3> QED
      BY <1>6, <3>1, <3>2, Zenon
  <2>4. Pending' = <<>>
    BY <1>4 DEF Pending
  <2>5. \A k \in Keys : Turns(<<>>, k, replay(ring, start, d, sb.state.tree)[k], state'.tree[k])
    BY <2>3, TurnsNothing
  <2>6. \A k \in Keys : Turns(Pending', k, replay(cache', last_checkpoint_seq' + 1, next_journal_seq',
                                                 sb.state.tree)[k], state'.tree[k])
    BY <1>4, <1>9, <2>4, <2>5, Zenon
  <2> QED
    BY <1>4, <2>2, <2>6, Zenon DEF IsOld
<1>14. \A st \in legal' : st.tree[0] = 0
  <2>1. RecoveredState(img.ring, img.sb) \in legal
    BY RecoveredIsLegal
  <2> QED
    BY <1>3, <1>4, <2>1, Zenon DEF AtomicInv
<1> QED
  BY <1>4, <1>11, <1>13, <1>14 DEF AtomicInv

\* Every step of the running process.
LEMMA AtomicRun ==
  ASSUME TypeInv, RingInv, AtomicInv, [Run]_vars
  PROVE  AtomicInv'
<1>1. ASSUME NEW n \in 1 .. MaxRecords, Mutate(n) PROVE AtomicInv'
  BY <1>1, AtomicMutate
<1>2. CASE JournalCommit
  <2>1. /\ pc = "idle" /\ pc' \in {"flush", "reclaim"}
        /\ UNCHANGED <<cache, disk, sbCache, sbDisk, state, log, group, next_journal_seq,
                       last_checkpoint_seq, legal>>
    BY <1>2 DEF JournalCommit, deviceVars, memoryVars, historyVars
  <2> QED
    BY <2>1, AtomicEntry
<1>3. ASSUME NEW n \in 0 .. JOURNAL_CAPACITY, Reclaim(n) PROVE AtomicInv'
  BY <1>3, AtomicReclaim
<1>4. CASE AppendOp
  BY <1>4, AtomicAppendOp
<1>5. CASE AppendEnd
  BY <1>5, AtomicAppendEnd
<1>6. CASE CommitFsync
  BY <1>6, AtomicCommitFsync
<1>7. CASE Sync
  <2>1. /\ pc = "idle" /\ pc' \in {"flush", "reclaim"}
        /\ UNCHANGED <<cache, disk, sbCache, sbDisk, state, log, group, next_journal_seq,
                       last_checkpoint_seq, legal>>
    BY <1>7 DEF Sync, deviceVars, memoryVars, historyVars
  <2> QED
    BY <2>1, AtomicEntry
<1>8. CASE SyncFlush
  BY <1>8, AtomicSyncFlush
<1>9. CASE SyncSwap
  BY <1>9, AtomicSyncSwap
<1>10. CASE SyncPublish
  BY <1>10, AtomicMemory, AtomicSyncPublish
<1>11. CASE UNCHANGED vars
  <2>1. /\ pc' = pc /\ UNCHANGED <<cache, disk, sbCache, sbDisk, state, log, group,
                                   next_journal_seq, last_checkpoint_seq, legal>>
    BY <1>11 DEF vars, deviceVars, memoryVars, historyVars
  <2>2. \A sb : IsNew(sb)' = IsNew(sb)
    BY <2>1 DEF IsNew
  <2>3. \A sb, e : IsOld(sb, e)' = IsOld(sb, e)
    BY <2>1, Zenon DEF IsOld, StateAt, Pending
  <2>4. \A e : Boundary(e)' = Boundary(e)
    BY <2>1, Zenon DEF Boundary, NothingAhead
  <2> QED
    BY <2>1, <2>2, <2>3, <2>4, Zenon DEF AtomicInv
<1> QED
  BY <1>1, <1>2, <1>3, <1>4, <1>5, <1>6, <1>7, <1>8, <1>9, <1>10, <1>11 DEF Run

\* Every step of the running process keeps memory in order, whatever the ring holds.
LEMMA MemoryStep ==
  ASSUME TypeInv, MemoryInv, [Run]_vars
  PROVE  MemoryInv'
<1>1. PICK e \in Nat : NothingAhead(e)
  BY DEF MemoryInv
<1>2. next_journal_seq \in Nat
  BY RingNumbers
<1>3. UNCHANGED <<cache, disk, next_journal_seq>> => NothingAhead(e)'
  BY <1>1 DEF NothingAhead
<1>4. disk' = cache /\ UNCHANGED <<cache, next_journal_seq>> => \E d \in Nat : NothingAhead(d)'
  <2> SUFFICES ASSUME disk' = cache, UNCHANGED <<cache, next_journal_seq>>
               PROVE  \E d \in Nat : NothingAhead(d)'
    OBVIOUS
  <2>1. PICK d \in Nat : next_journal_seq = d
    BY <1>2
  <2>2. NothingAhead(d)'
    BY <1>1, <2>1, AheadFsync
  <2> QED
    BY <2>2
<1>5. ASSUME NEW n \in 1 .. MaxRecords, Mutate(n) PROVE MemoryInv'
  <2>1. UNCHANGED <<cache, disk, pc, group, next_journal_seq>> /\ pc = "idle"
    BY <1>5 DEF Mutate, deviceVars
  <2>2. Pending = log /\ Pending' = log'
    BY <2>1 DEF Pending
  <2>3. state' \in legal' /\ \A st \in legal' : st.tree[0] = 0
    BY <1>5, MutateKeyZero DEF MemoryInv
  <2>4. ASSUME NEW k \in Keys PROVE Turns(Pending', k, state'.tree[k], state'.tree[k])
    <3>1. Turns(log, k, state.tree[k], state.tree[k])
      BY <2>2, Zenon DEF MemoryInv
    <3>2. Turns(log', k, state.tree[k], state'.tree[k])
      BY <1>5, <3>1, MutateTurns
    <3> QED
      BY <2>2, <3>2, TurnsAgain, Zenon
  <2> QED
    BY <1>3, <2>1, <2>3, <2>4 DEF MemoryInv
<1>6. ASSUME NEW n \in 0 .. JOURNAL_CAPACITY, Reclaim(n) PROVE MemoryInv'
  <2>1. /\ UNCHANGED <<cache, disk, state, next_journal_seq, legal>>
        /\ pc = "reclaim" /\ pc' = "append" /\ log' = <<>>
    BY <1>6 DEF Reclaim, deviceVars
  <2>2. Pending = log /\ Pending' = group'
    BY <2>1 DEF Pending
  <2>3. ASSUME NEW k \in Keys PROVE Turns(Pending', k, state'.tree[k], state'.tree[k])
    <3>1. Turns(log, k, state.tree[k], state.tree[k]) /\ state.tree[0] = 0
      BY <2>2 DEF MemoryInv
    <3>2. Turns(group', k, state.tree[k], state.tree[k])
      BY <1>6, <3>1, ReclaimTurns
    <3> QED
      BY <2>1, <2>2, <3>2
  <2> QED
    BY <1>3, <2>1, <2>3 DEF MemoryInv
<1>7. CASE AppendOp
  <2> DEFINE frame == LoggedOp(next_journal_seq, Head(group))
  <2>1. /\ append(frame) /\ next_journal_seq' = next_journal_seq + 1
        /\ UNCHANGED <<state, log, legal>>
        /\ pc = "append" /\ pc' = "append" /\ group # <<>> /\ group' = Tail(group)
    BY <1>7 DEF AppendOp, historyVars
  <2>2. group \in Seq(Record) /\ Head(group) \in Record
    BY <2>1, HeadTailProperties DEF TypeInv, TypeOK
  <2>3. frame \in Frame /\ frame.seq = next_journal_seq
    BY <2>2, Zenon DEF LoggedOp, Frame, TypeInv, TypeOK
  <2> HIDE DEF frame
  <2>4. NothingAhead(e)'
    BY <1>1, <2>1, <2>3, AheadAppend
  <2>5. Pending = group /\ Pending' = Tail(group)
    BY <2>1 DEF Pending
  <2>6. ASSUME NEW k \in Keys PROVE Turns(Pending', k, state'.tree[k], state'.tree[k])
    <3>1. Turns(group, k, state.tree[k], state.tree[k])
      BY <2>5 DEF MemoryInv
    <3>2. Turns(Tail(group), k, IF Head(group).key = k THEN Head(group).val ELSE state.tree[k],
                state.tree[k])
      BY <2>1, <2>2, <3>1, TurnsHead
    <3> QED
      BY <2>1, <2>5, <3>2, TurnsAgain, Zenon
  <2> QED
    BY <2>1, <2>4, <2>6 DEF MemoryInv
<1>8. CASE AppendEnd
  <2> DEFINE frame == CommitEnd(next_journal_seq, state.next_ino)
  <2>1. /\ append(frame) /\ next_journal_seq' = next_journal_seq + 1
        /\ UNCHANGED <<state, log, group, legal>>
        /\ pc = "append" /\ pc' = "fsync" /\ group = <<>>
    BY <1>8 DEF AppendEnd, historyVars
  <2>2. NoRecord \in Record
    BY JournalConstants DEF NoRecord, Record, Keys, Values
  <2>3. frame \in Frame /\ frame.seq = next_journal_seq
    BY <2>2 DEF CommitEnd, Frame, TypeInv, TypeOK, State
  <2> HIDE DEF frame
  <2>4. NothingAhead(e)'
    BY <1>1, <2>1, <2>3, AheadAppend
  <2>5. Pending = <<>> /\ Pending' = <<>>
    BY <2>1 DEF Pending, MemoryInv
  <2>6. \A k \in Keys : Turns(Pending', k, state'.tree[k], state'.tree[k])
    BY <2>5, TurnsNothing
  <2> QED
    BY <2>1, <2>4, <2>6, Zenon DEF MemoryInv
<1>9. CASE CommitFsync \/ SyncFlush \/ SyncPublish
  <2>1. /\ disk' = cache /\ UNCHANGED <<cache, state, log, group, next_journal_seq>>
        /\ legal' \in {legal, {state}}
        /\ pc \notin {"append"} /\ pc' \in {"idle", "swap", "reclaim"}
    BY <1>9 DEF CommitFsync, SyncFlush, SyncPublish, fsync, memoryVars, historyVars
  <2>2. Pending' = Pending
    BY <2>1 DEF Pending
  <2> QED
    BY <1>4, <2>1, <2>2 DEF MemoryInv
<1>10. CASE JournalCommit \/ Sync
  <2>1. /\ UNCHANGED <<cache, disk, state, log, group, next_journal_seq, legal>>
        /\ pc = "idle" /\ pc' \in {"flush", "reclaim"}
    BY <1>10 DEF JournalCommit, Sync, deviceVars, memoryVars, historyVars
  <2>2. Pending' = Pending
    BY <2>1 DEF Pending
  <2> QED
    BY <1>3, <2>1, <2>2 DEF MemoryInv
<1>11. CASE SyncSwap
  <2>1. /\ UNCHANGED <<cache, disk, state, log, group, next_journal_seq, legal>>
        /\ pc = "swap" /\ pc' = "publish"
        /\ sbCache' = [journal_seq |-> next_journal_seq - 1, state |-> state]
    BY <1>11 DEF SyncSwap, memoryVars, historyVars
  <2>2. Pending' = Pending
    BY <2>1 DEF Pending
  <2>3. IsNew(sbCache)'
    BY <2>1 DEF IsNew
  <2> QED
    BY <1>3, <2>1, <2>2, <2>3, Zenon DEF MemoryInv
<1>12. CASE UNCHANGED vars
  <2>1. UNCHANGED <<cache, disk, sbCache, pc, state, log, group, next_journal_seq, legal>>
    BY <1>12 DEF vars, deviceVars, memoryVars, historyVars
  <2>2. Pending' = Pending /\ IsNew(sbCache)' = IsNew(sbCache)
    BY <2>1 DEF Pending, IsNew
  <2> QED
    BY <1>3, <2>1, <2>2 DEF MemoryInv
<1> QED
  BY <1>5, <1>6, <1>7, <1>8, <1>9, <1>10, <1>11, <1>12 DEF Run

(***************************************************************************)
(* The inductive invariant behind atomicity.  Nothing is known once the    *)
(* process has crashed with a lapped ring.                                 *)
(***************************************************************************)
CrashInv ==
  /\ DurableInv
  /\ Intact => AtomicInv
  /\ overrun = "yes" => MemoryInv

LEMMA CrashInit == Init => CrashInv
BY DurableInit, AtomicInit DEF Init, CrashInv

LEMMA CrashRun == CrashInv /\ [Run]_vars => CrashInv'
<1> SUFFICES ASSUME CrashInv, [Run]_vars PROVE CrashInv'
  OBVIOUS
<1>1. [Next]_vars
  BY DEF Next
<1>2. /\ TypeInv /\ DurableInv'
      /\ Intact => RingInv /\ AtomicInv
  BY <1>1, DurableStep DEF CrashInv, DurableInv, RingIntact
<1>3. overrun # "crashed" => MemoryInv
  BY <1>2, AtomicMemory DEF CrashInv, Intact, TypeInv, TypeOK
<1>4. ASSUME Intact' PROVE AtomicInv'
  <2>1. CASE SyncPublish
    <3>1. overrun # "crashed"
      BY <1>4, <2>1 DEF SyncPublish, Intact
    <3> QED
      BY <1>2, <1>3, <2>1, <3>1, AtomicSyncPublish
  <2>2. CASE Intact
    BY <1>2, <2>2, AtomicRun
  <2> QED
    BY <1>1, <1>4, <2>1, <2>2, IntactStep
<1>5. ASSUME overrun' = "yes" PROVE MemoryInv'
  <2>1. overrun # "crashed"
    BY <1>5, Zenon DEF Run, vars, historyVars, Mutate, JournalCommit, Reclaim, AppendOp, AppendEnd,
                CommitFsync, Sync, SyncFlush, SyncSwap, SyncPublish
  <2> QED
    BY <1>2, <1>3, <2>1, MemoryStep
<1> QED
  BY <1>2, <1>4, <1>5 DEF CrashInv

(***************************************************************************)
(* Crash atomicity with process crashes, any number of them, for every     *)
(* ring size and group size: recovery shows the state of the last          *)
(* acknowledged commit or sync, or of a later operation boundary, never a  *)
(* part of a group, unless a group laps the ring; a checkpoint before the  *)
(* next crash brings the guarantee back.                                   *)
(***************************************************************************)
THEOREM AtomicAfterKill ==
  CrashMode = "process" => (Spec => []RecoveryIsLegal)
<1> SUFFICES ASSUME CrashMode = "process" PROVE Spec => []RecoveryIsLegal
  OBVIOUS
<1>1. CrashInv /\ [Next]_vars => CrashInv'
  <2> SUFFICES ASSUME CrashInv, Next \/ UNCHANGED vars PROVE CrashInv'
    OBVIOUS
  <2>1. CASE Crash
    <3>1. /\ TypeInv /\ DurableInv' /\ TypeInv'
          /\ Intact => RingInv /\ AtomicInv
      BY DurableStep DEF CrashInv, DurableInv, RingIntact
    <3>2. overrun' = IF overrun = "no" THEN "no" ELSE "crashed"
      BY <2>1, Zenon DEF Crash, Open
    <3>3. Intact' => AtomicInv'
      BY <2>1, <3>1, <3>2, AtomicCrash DEF Intact
    <3> QED
      BY <3>1, <3>2, <3>3 DEF CrashInv
  <2>2. CASE [Run]_vars
    BY <2>2, CrashRun
  <2> QED
    BY <2>1, <2>2 DEF Next
<1>2. CrashInv => RecoveryIsLegal
  BY RecoveredIsLegal DEF CrashInv, DurableInv, RingIntact, RecoveryIsLegal
<1> QED
  BY <1>1, <1>2, CrashInit, PTL DEF Spec

(***************************************************************************)
(* Crash atomicity of the first failure, power failures included: whatever *)
(* part of the unsynced journal blocks and of the superblock write is      *)
(* lost, recovery shows a state at an operation boundary that is no older  *)
(* than the last acknowledgement, unless a group since the last checkpoint *)
(* laps the ring.                                                          *)
(***************************************************************************)
THEOREM AtomicUntilFailure == SpecUntilFailure => []RecoveryIsLegal
<1>1. CrashInv => RecoveryIsLegal
  BY RecoveredIsLegal DEF CrashInv, DurableInv, RingIntact, RecoveryIsLegal
<1> QED
  BY <1>1, CrashInit, CrashRun, PTL DEF SpecUntilFailure
=============================================================================
