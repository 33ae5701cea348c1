--------------------------- MODULE SharedMemoryProofs --------------------------
(***************************************************************************)
(* Proofs about the two structures in shared memory: SpscRing, for every   *)
(* ring size, batch limit and message set, and StateSnapshot, for any      *)
(* fields, values and nesting depth.                                       *)
(***************************************************************************)
EXTENDS SpscRing, StateSnapshot, SequenceTheorems, TLAPS

-------------------------------------------------------------------------------
(* The rings.                                                              *)

\* Two sequence numbers less than SlotCount apart never share a slot.
LEMMA IdxInjective ==
  ASSUME NEW a \in Nat, NEW b \in Nat, a < b, b - a < SlotCount
  PROVE  Idx(a) # Idx(b)
<1>1. SlotCount \in Nat /\ SlotCount > 0
  BY RingAssumption
<1> DEFINE qa == a \div SlotCount  qb == b \div SlotCount
<1>2. /\ qa \in Int /\ qb \in Int
      /\ a = SlotCount * qa + (a % SlotCount)
      /\ b = SlotCount * qb + (b % SlotCount)
  BY <1>1
<1>3. SUFFICES ASSUME a % SlotCount = b % SlotCount PROVE FALSE
  BY DEF Idx
<1> DEFINE d == qb - qa
<1>4. d \in Int /\ SlotCount * d = b - a
  BY <1>1, <1>2, <1>3
<1>5. CASE d <= 0
  BY <1>1, <1>4, <1>5
<1>6. CASE d >= 1
  BY <1>1, <1>4, <1>6
<1> HIDE DEF d
<1>7. QED
  BY <1>4, <1>5, <1>6

LEMMA IdxType ==
  ASSUME NEW a \in Nat
  PROVE  Idx(a) \in 0..SlotCount - 1
  BY RingAssumption DEF Idx

LEMMA InitRingInv == Init => RingInv
  BY RingAssumption DEF Init, RingInv, TypeOK, CursorsInOrder, WriterInvariant,
     PublishedAreWhole, CallbackSlotStable

\* The producer writes into a slot that no published, unreleased message uses.
LEMMA WriteKeepsPublished ==
  ASSUME RingInv, wpc \in {"check", "copy"}, producer_seq - wcons < SlotCount,
         NEW s \in Nat, consumer_seq <= s, s < producer_seq
  PROVE  Idx(s) # Idx(producer_seq)
<1>1. /\ producer_seq \in Nat /\ consumer_seq \in Nat /\ wcons \in Nat
      /\ wcons <= consumer_seq
  BY RingAssumption DEF RingInv, TypeOK, WriterInvariant
<1>2. producer_seq - s < SlotCount
  BY <1>1, RingAssumption
<1>3. QED
  BY <1>1, <1>2, IdxInjective

LEMMA NextRingInv == RingInv /\ [Next]_vars => RingInv'
<1> SUFFICES ASSUME RingInv, [Next]_vars
             PROVE  RingInv'
  OBVIOUS
<1> USE RingAssumption
<1>t. /\ producer_seq \in Nat /\ consumer_seq \in Nat /\ ri \in Nat /\ wcons \in Nat
      /\ rprod \in Nat /\ rmax \in Nat
  BY DEF RingInv, TypeOK
<1>1. ASSUME NEW d \in Data, WriteLoad(d)
      PROVE  RingInv'
  BY <1>1 DEF WriteLoad, shared, reader, RingInv, TypeOK, CursorsInOrder,
     WriterInvariant, PublishedAreWhole, CallbackSlotStable, Avail
<1>2. CASE WriteFull
  BY <1>2 DEF WriteFull, shared, reader, RingInv, TypeOK, CursorsInOrder,
     WriterInvariant, PublishedAreWhole, CallbackSlotStable, Avail
<1>3. CASE WriteCopy
  <2>1. \A s \in Nat : consumer_seq <= s /\ s < producer_seq
                        => Idx(s) # Idx(producer_seq)
    BY <1>3, WriteKeepsPublished DEF WriteCopy
  <2>2. TypeOK'
    BY <1>3 DEF WriteCopy, RingInv, TypeOK, reader
  <2>3. CursorsInOrder'
    BY <1>3 DEF WriteCopy, RingInv, CursorsInOrder, Avail, reader
  <2>4. WriterInvariant'
    BY <1>3 DEF WriteCopy, RingInv, WriterInvariant, reader
  <2>5. PublishedAreWhole'
    BY <1>3, <2>1, IdxType DEF WriteCopy, RingInv, TypeOK, PublishedAreWhole
  <2>6. CallbackSlotStable'
    <3>1. rpc = "callback" => consumer_seq + ri < producer_seq
      BY <1>t DEF RingInv, CursorsInOrder, Avail
    <3>2. rpc = "callback" => Idx(consumer_seq + ri) # Idx(producer_seq)
      BY <1>t, <2>1, <3>1
    <3>3. QED
      BY <1>3, <1>t, <3>2, IdxType
         DEF WriteCopy, RingInv, TypeOK, CallbackSlotStable, reader
  <2>7. QED
    BY <2>2, <2>3, <2>4, <2>5, <2>6 DEF RingInv
<1>4. CASE WriteCopied
  <2>0. producer_seq - wcons < SlotCount
    BY <1>4 DEF WriteCopied, RingInv, WriterInvariant
  <2>1. \A s \in Nat : consumer_seq <= s /\ s < producer_seq
                        => Idx(s) # Idx(producer_seq)
    BY <1>4, <2>0, WriteKeepsPublished DEF WriteCopied
  <2>2. TypeOK'
    BY <1>4 DEF WriteCopied, RingInv, TypeOK, reader
  <2>3. CursorsInOrder'
    BY <1>4 DEF WriteCopied, RingInv, CursorsInOrder, Avail, reader
  <2>4. WriterInvariant'
    BY <1>4, <1>t, IdxType DEF WriteCopied, RingInv, TypeOK, WriterInvariant, reader
  <2>5. PublishedAreWhole'
    BY <1>4, <2>1, IdxType DEF WriteCopied, RingInv, TypeOK, PublishedAreWhole
  <2>6. CallbackSlotStable'
    <3>1. rpc = "callback" => consumer_seq + ri < producer_seq
      BY <1>t DEF RingInv, CursorsInOrder, Avail
    <3>2. rpc = "callback" => Idx(consumer_seq + ri) # Idx(producer_seq)
      BY <1>t, <2>1, <3>1
    <3>3. QED
      BY <1>4, <1>t, <3>2, IdxType
         DEF WriteCopied, RingInv, TypeOK, CallbackSlotStable, reader
  <2>7. QED
    BY <2>2, <2>3, <2>4, <2>5, <2>6 DEF RingInv
<1>5. CASE WritePublish
  <2>1. /\ slots[Idx(producer_seq)] \in Data
        /\ producer_seq < MaxSeq
        /\ producer_seq - consumer_seq < SlotCount
    BY <1>5, <1>t DEF WritePublish, RingInv, TypeOK, WriterInvariant
  <2>2. TypeOK'
    BY <1>5, <2>1 DEF WritePublish, RingInv, TypeOK, reader
  <2>3. CursorsInOrder'
    BY <1>5, <1>t, <2>1 DEF WritePublish, RingInv, CursorsInOrder, Avail, reader
  <2>4. PublishedAreWhole'
    BY <1>5, <1>t, <2>1 DEF WritePublish, RingInv, PublishedAreWhole
  <2>5. WriterInvariant' /\ CallbackSlotStable'
    BY <1>5 DEF WritePublish, RingInv, WriterInvariant, CallbackSlotStable, reader
  <2>6. QED
    BY <2>2, <2>3, <2>4, <2>5 DEF RingInv
<1>6. ASSUME NEW m \in {1, MaxDrain}, ReadLoad(m)
      PROVE  RingInv'
  BY <1>6, <1>t DEF ReadLoad, shared, writer, RingInv, TypeOK, CursorsInOrder,
     WriterInvariant, PublishedAreWhole, CallbackSlotStable, Avail
<1>7. CASE CbBegin
  <2>1. slots[Idx(consumer_seq + ri)] \in Data
    BY <1>7, <1>t DEF CbBegin, RingInv, CursorsInOrder, PublishedAreWhole, Avail
  <2>2. QED
    BY <1>7, <1>t, <2>1 DEF CbBegin, shared, writer, RingInv, TypeOK, CursorsInOrder,
       WriterInvariant, PublishedAreWhole, CallbackSlotStable, Avail
<1>8. CASE CbEnd
  BY <1>8, <1>t DEF CbEnd, shared, writer, RingInv, TypeOK, CursorsInOrder,
     WriterInvariant, PublishedAreWhole, CallbackSlotStable, Avail
<1>9. CASE ReadPublish
  BY <1>9, <1>t DEF ReadPublish, writer, RingInv, TypeOK, CursorsInOrder,
     WriterInvariant, PublishedAreWhole, CallbackSlotStable, Avail
<1>10. CASE UNCHANGED vars
  BY <1>10 DEF vars, shared, writer, reader, RingInv, TypeOK, CursorsInOrder,
     WriterInvariant, PublishedAreWhole, CallbackSlotStable, Avail
<1>11. QED
  BY <1>1, <1>2, <1>3, <1>4, <1>5, <1>6, <1>7, <1>8, <1>9, <1>10
     DEF Next, Producer, Consumer

\* The inductive invariant holds in every reachable state, for every size.
THEOREM RingInvariant == Spec => []RingInv
<1>1. Init => RingInv
  BY InitRingInv
<1>2. RingInv /\ [Next]_vars => RingInv'
  BY NextRingInv
<1>3. QED
  BY <1>1, <1>2, PTL DEF Spec

\* For every ring size and batch limit the slot a callback works on stays whole.
THEOREM CallbackSlotStability == Spec => []CallbackSlotStable
<1>1. RingInv => CallbackSlotStable
  BY DEF RingInv
<1>2. QED
  BY <1>1, RingInvariant, PTL

-------------------------------------------------------------------------------
(* The ring implements the FIFO queue.                                     *)

\* One step of the ring is one step of the queue, or none.
LEMMA StepRefinement ==
  ASSUME RingInv, RingInv', [Next]_vars
  PROVE  [Abstract!Next]_<<Pending, out>>
<1> USE RingAssumption
<1> DEFINE first == consumer_seq + ri
           Same == Pending' = Pending /\ out' = out
<1>t. /\ producer_seq \in Nat /\ consumer_seq \in Nat /\ ri \in Nat /\ wcons \in Nat
      /\ rprod \in Nat /\ rmax \in Nat /\ first \in Nat /\ first <= producer_seq
  BY DEF RingInv, TypeOK, CursorsInOrder, Avail
<1>0. ASSUME UNCHANGED <<producer_seq, consumer_seq, slots, ri, out>> PROVE Same
  BY <1>0 DEF Pending
<1>1. ASSUME NEW d \in Data, WriteLoad(d)
      PROVE  Same
  BY <1>0, <1>1 DEF WriteLoad, shared, reader
<1>2. CASE WriteFull
  BY <1>0, <1>2 DEF WriteFull, shared, reader
<1>3. ASSUME wpc \in {"check", "copy"}, producer_seq - wcons < SlotCount,
             NEW v, slots' = [slots EXCEPT ![Idx(producer_seq)] = v],
             UNCHANGED <<producer_seq, consumer_seq, ri, out>>
      PROVE  Same
  <2>1. \A k \in 1..producer_seq - first :
           slots'[Idx(first + k - 1)] = slots[Idx(first + k - 1)]
    <3> TAKE k \in 1..producer_seq - first
    <3>1. /\ first + k - 1 \in Nat /\ consumer_seq <= first + k - 1
          /\ first + k - 1 < producer_seq
      BY <1>t
    <3>2. Idx(first + k - 1) # Idx(producer_seq)
      BY <1>3, <3>1, WriteKeepsPublished
    <3>3. QED
      BY <1>3, <3>1, <3>2, IdxType DEF RingInv, TypeOK
  <2>2. QED
    BY <1>3, <2>1 DEF Pending
<1>4. CASE WriteCopy
  BY <1>3, <1>4 DEF WriteCopy, reader
<1>5. CASE WriteCopied
  BY <1>3, <1>5 DEF WriteCopied, reader, RingInv, WriterInvariant
<1>6. CASE WritePublish
  <2>1. /\ wdata \in Data /\ slots[Idx(producer_seq)] = wdata
        /\ producer_seq - consumer_seq < SlotCount
    BY <1>6, <1>t DEF WritePublish, RingInv, WriterInvariant
  <2>2. /\ Len(Pending) = producer_seq - first
        /\ Len(Pending) < SlotCount
    BY <1>t, <2>1 DEF Pending
  <2>3. Pending' = Append(Pending, wdata)
    BY <1>6, <1>t, <2>1, <2>2 DEF WritePublish, reader, Pending
  <2>4. Abstract!Put(wdata)
    BY <1>6, <2>2, <2>3 DEF WritePublish, reader, Abstract!Put
  <2>5. QED
    BY <2>1, <2>4 DEF Abstract!Next
<1>7. ASSUME NEW m \in {1, MaxDrain}, ReadLoad(m)
      PROVE  Same
  <2>1. ri = 0
    BY <1>7 DEF ReadLoad, RingInv, CursorsInOrder
  <2>2. QED
    BY <1>0, <1>7, <2>1 DEF ReadLoad, shared
<1>8. CASE CbBegin
  BY <1>0, <1>8 DEF CbBegin, shared
<1>9. CASE CbEnd
  <2>1. first < producer_seq
    BY <1>9, <1>t DEF CbEnd, RingInv, CursorsInOrder, Avail
  <2>2. /\ Len(Pending) = producer_seq - first /\ Pending # << >>
        /\ Head(Pending) = slots[Idx(first)]
    BY <1>t, <2>1 DEF Pending
  <2>3. Pending' = Tail(Pending)
    <3> DEFINE S == Data \cup {NoData, Torn}
    <3>1. Pending \in Seq(S)
      <4>1. \A k \in 1..producer_seq - first : slots[Idx(first + k - 1)] \in S
        <5> TAKE k \in 1..producer_seq - first
        <5>1. first + k - 1 \in Nat
          BY <1>t
        <5>2. QED
          BY <5>1, IdxType DEF RingInv, TypeOK
      <4>2. Pending \in [1..producer_seq - first -> S] /\ producer_seq - first \in Nat
        BY <1>t, <4>1 DEF Pending
      <4>3. QED
        BY <4>2, SeqDef
    <3>2. Pending' = [k \in 1..producer_seq - first - 1 |-> slots[Idx(first + 1 + k - 1)]]
      <4>1. consumer_seq' + ri' = first + 1 /\ producer_seq' = producer_seq /\ slots' = slots
        BY <1>9, <1>t DEF CbEnd, shared
      <4>2. producer_seq - (first + 1) = producer_seq - first - 1
        BY <1>t
      <4> HIDE DEF first
      <4>3. QED
        BY <4>1, <4>2 DEF Pending
    <3>3. /\ Tail(Pending) \in Seq(S) /\ Len(Tail(Pending)) = producer_seq - first - 1
          /\ \A k \in 1..producer_seq - first - 1 : Tail(Pending)[k] = Pending[k + 1]
      BY <2>2, <3>1, HeadTailProperties
    <3>4. \A k \in 1..producer_seq - first - 1 :
             Tail(Pending)[k] = slots[Idx(first + 1 + k - 1)]
      BY <1>t, <3>3 DEF Pending
    <3>5. Tail(Pending) = [k \in 1..producer_seq - first - 1 |-> Tail(Pending)[k]]
      <4>1. Tail(Pending) \in [1..Len(Tail(Pending)) -> S]
        BY <3>3, LenProperties
      <4>2. QED
        BY <3>3, <4>1
    <3>6. QED
      BY <3>2, <3>4, <3>5
  <2>4. Abstract!Get
    BY <1>9, <2>2, <2>3 DEF CbEnd, Abstract!Get
  <2>5. QED
    BY <2>4 DEF Abstract!Next
<1>10. CASE ReadPublish
  <2>1. /\ consumer_seq' + ri' = consumer_seq + ri
        /\ UNCHANGED <<producer_seq, slots, out>>
    BY <1>10, <1>t DEF ReadPublish
  <2>2. QED
    BY <2>1 DEF Pending
<1>11. CASE UNCHANGED vars
  BY <1>0, <1>11 DEF vars, shared, reader
<1>12. QED
  BY <1>1, <1>2, <1>4, <1>5, <1>6, <1>7, <1>8, <1>9, <1>10, <1>11
     DEF Next, Producer, Consumer

\* try_write, try_read and drain implement a bounded FIFO queue, whatever the
\* ring size, the batch limit and the interleaving of the two threads.
THEOREM RingIsFifoQueue == Spec => IsFifoQueue
<1>1. Init => Abstract!Init
  BY RingAssumption DEF Init, Abstract!Init, Pending
<1>2. RingInv /\ RingInv' /\ [Next]_vars => [Abstract!Next]_<<Pending, out>>
  BY StepRefinement
<1>3. QED
  BY <1>1, <1>2, RingInvariant, PTL DEF Spec, IsFifoQueue, Abstract!Spec

-------------------------------------------------------------------------------
(* The state snapshot.                                                     *)

LEMMA Parity ==
  ASSUME NEW n \in Nat
  PROVE  /\ n % 2 \in {0, 1}
         /\ (n + 1) % 2 = 1 <=> n % 2 = 0
         /\ (n + 1) % 2 = 0 <=> n % 2 = 1
BY SMT

LEMMA InitSnapshotInv == SnapshotInit => SnapshotInv
BY SnapshotAssumption, Parity
   DEF SnapshotInit, SnapshotInv, SnapshotTypeOK, LockTellsWriter, ReadWindow, ReadsAreAtomic

\* A transaction that opens makes the lock odd; the snapshot does not change.
LEMMA BeginInv ==
  ASSUME SnapshotInv, NEW t \in Transactions, begin(t)
  PROVE  SnapshotInv'
<1> USE SnapshotAssumption DEF readerVars
<1>1. SnapshotTypeOK'
  BY DEF SnapshotInv, SnapshotTypeOK, begin
<1>2. \A u \in Transactions : counter'[u] = IF u = t THEN counter[t] + 1 ELSE counter[u]
  BY DEF SnapshotInv, SnapshotTypeOK, begin
<1>3. /\ counter[t] \in Nat /\ seqlock \in Nat
      /\ \A u \in Transactions : u # t => counter[u] = 0
  BY DEF SnapshotInv, SnapshotTypeOK, begin
<1>4. LockTellsWriter'
  <2>1. \A u \in Transactions : counter'[u] > 0 <=> u = t
    BY <1>2, <1>3
  <2>2. seqlock' % 2 = 1
    <3>1. CASE counter[t] = 0
      <4>1. seqlock % 2 = 0 /\ seqlock' = seqlock + 1
        BY <1>3, <3>1, Parity DEF SnapshotInv, LockTellsWriter, begin
      <4>2. QED
        BY <1>3, <4>1, Parity
    <3>2. CASE counter[t] # 0
      BY <1>3, <3>2 DEF SnapshotInv, LockTellsWriter, begin
    <3>3. QED
      BY <3>1, <3>2
  <2>3. QED
    BY <2>1, <2>2 DEF LockTellsWriter
<1>5. ReadWindow' /\ ReadsAreAtomic'
  BY <1>3 DEF SnapshotInv, ReadWindow, ReadsAreAtomic, begin, SnapshotTypeOK
<1>6. QED
  BY <1>1, <1>4, <1>5 DEF SnapshotInv

\* A field is written only while the lock is odd: an open read window has lost its
\* sequence number already.
LEMMA WriteFieldInv ==
  ASSUME SnapshotInv, NEW f \in Fields, NEW v \in Values, WriteField(f, v)
  PROVE  SnapshotInv'
<1> USE SnapshotAssumption DEF readerVars
<1>1. SnapshotTypeOK'
  BY DEF SnapshotInv, SnapshotTypeOK, WriteField
<1>2. LockTellsWriter' /\ ReadsAreAtomic'
  BY DEF SnapshotInv, LockTellsWriter, ReadsAreAtomic, WriteField
<1>3. Owner[f] \in Transactions /\ seqlock % 2 = 1
  BY DEF SnapshotInv, LockTellsWriter, WriteField
<1>4. readPc = "copy" => seq # seqlock
  BY <1>3 DEF SnapshotInv, ReadWindow
<1>5. ReadWindow'
  BY <1>4 DEF SnapshotInv, ReadWindow, WriteField
<1>6. QED
  BY <1>1, <1>2, <1>5 DEF SnapshotInv

\* The lock becomes even again with a number no open window has.
LEMMA EndInv ==
  ASSUME SnapshotInv, NEW t \in Transactions, end(t)
  PROVE  SnapshotInv'
<1> USE SnapshotAssumption DEF readerVars
<1>1. SnapshotTypeOK'
  BY DEF SnapshotInv, SnapshotTypeOK, end
<1>2. \A u \in Transactions : counter'[u] = IF u = t THEN counter[t] - 1 ELSE counter[u]
  BY DEF SnapshotInv, SnapshotTypeOK, end
<1>3. /\ counter[t] \in Nat /\ counter[t] > 0 /\ seqlock \in Nat
      /\ \A u \in Transactions : counter[u] \in Nat
  BY DEF SnapshotInv, SnapshotTypeOK, end
<1>4. /\ seqlock % 2 = 1
      /\ \A u \in Transactions : u # t => counter[u] = 0
  BY <1>3 DEF SnapshotInv, LockTellsWriter
<1>5. LockTellsWriter'
  <2>1. CASE counter[t] = 1
    <3>1. \A u \in Transactions : counter'[u] = 0
      BY <1>2, <1>4, <2>1
    <3>2. seqlock' % 2 = 0
      BY <1>3, <1>4, <2>1, Parity DEF end
    <3>3. QED
      BY <3>1, <3>2 DEF LockTellsWriter
  <2>2. CASE counter[t] # 1
    <3>1. \A u \in Transactions : counter'[u] > 0 <=> u = t
      BY <1>2, <1>3, <1>4, <2>2
    <3>2. seqlock' % 2 = 1
      BY <1>4, <2>2 DEF end
    <3>3. QED
      BY <3>1, <3>2 DEF LockTellsWriter
  <2>3. QED
    BY <2>1, <2>2
<1>6. ReadsAreAtomic'
  BY DEF SnapshotInv, ReadsAreAtomic, end
<1>7. ReadWindow'
  BY <1>3 DEF SnapshotInv, ReadWindow, end, SnapshotTypeOK
<1>8. QED
  BY <1>1, <1>5, <1>6, <1>7 DEF SnapshotInv

LEMMA ReaderInv ==
  ASSUME SnapshotInv, Reader \/ \E W \in SUBSET Fields : StartRead(W)
  PROVE  SnapshotInv'
<1> USE SnapshotAssumption DEF writerVars
<1>1. ASSUME NEW W \in SUBSET Fields, StartRead(W)
      PROVE  SnapshotInv'
  BY <1>1 DEF StartRead, SnapshotInv, SnapshotTypeOK, LockTellsWriter, ReadWindow, ReadsAreAtomic
<1>2. CASE TxBeginConflict
  BY <1>2 DEF TxBeginConflict, Conflict, SnapshotInv, SnapshotTypeOK, LockTellsWriter, ReadWindow,
              ReadsAreAtomic
<1>3. CASE TxBegin
  BY <1>3 DEF TxBegin, SnapshotInv, SnapshotTypeOK, LockTellsWriter, ReadWindow, ReadsAreAtomic
<1>4. ASSUME NEW f \in Fields, CopyField(f)
      PROVE  SnapshotInv'
  <2>1. SnapshotTypeOK' /\ LockTellsWriter' /\ ReadsAreAtomic'
    BY <1>4 DEF CopyField, SnapshotInv, SnapshotTypeOK, LockTellsWriter, ReadsAreAtomic
  <2>2. \A g \in Fields : copy'[g] = IF g = f THEN snap[f] ELSE copy[g]
    BY <1>4 DEF CopyField, SnapshotInv, SnapshotTypeOK
  <2>3. ReadWindow'
    BY <1>4, <2>2 DEF CopyField, SnapshotInv, SnapshotTypeOK, ReadWindow
  <2>4. QED
    BY <2>1, <2>3 DEF SnapshotInv
<1>5. CASE TxEnd
  BY <1>5 DEF TxEnd, Conflict, SnapshotInv, SnapshotTypeOK, LockTellsWriter, ReadWindow,
              ReadsAreAtomic
<1>6. QED
  BY <1>1, <1>2, <1>3, <1>4, <1>5 DEF Reader

LEMMA NextSnapshotInv == SnapshotInv /\ [SnapshotNext]_snapshotVars => SnapshotInv'
<1> SUFFICES ASSUME SnapshotInv, [SnapshotNext]_snapshotVars PROVE SnapshotInv'
  OBVIOUS
<1>1. CASE Writer
  BY <1>1, BeginInv, WriteFieldInv, EndInv DEF Writer
<1>2. CASE Reader \/ \E W \in SUBSET Fields : StartRead(W)
  BY <1>2, ReaderInv
<1>3. CASE UNCHANGED snapshotVars
  BY <1>3 DEF snapshotVars, writerVars, readerVars, SnapshotInv, SnapshotTypeOK, LockTellsWriter,
              ReadWindow, ReadsAreAtomic
<1>4. QED
  BY <1>1, <1>2, <1>3 DEF SnapshotNext

\* What SnapshotTransaction hands out was never torn, for any number of fields, any
\* nesting of StateTransactions and any interleaving.
THEOREM AtomicReads == SnapshotSpec => []ReadsAreAtomic
<1>1. SnapshotInit => SnapshotInv
  BY InitSnapshotInv
<1>2. SnapshotInv /\ [SnapshotNext]_snapshotVars => SnapshotInv'
  BY NextSnapshotInv
<1>3. SnapshotInv => ReadsAreAtomic
  BY DEF SnapshotInv
<1>4. QED
  BY <1>1, <1>2, <1>3, PTL DEF SnapshotSpec
===============================================================================
