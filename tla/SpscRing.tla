-------------------------------- MODULE SpscRing --------------------------------
(***************************************************************************)
(* The lock-free ring of the IPC region (src/daemon/spsc_ring.h and its    *)
(* Python twin python/orchestrator/spsc_ring.py): one producer thread, one *)
(* consumer thread, a power-of-two array of slots and two sequence         *)
(* counters, each written by one side only.                                *)
(*                                                                         *)
(* Every access to shared memory is a step of its own.  The slot copy is   *)
(* two steps, so that a slot being overwritten is visible as Torn, and the *)
(* consumer's callback works on the slot in place, from CbBegin to CbEnd.  *)
(* The fences of the code give the order in which the steps below appear.  *)
(***************************************************************************)
EXTENDS Integers, Sequences

CONSTANTS SlotCount,  \* slot_count of the RingHeader, a power of two
          MaxDrain,   \* max_count given to drain (kMaxCommandsPerCycle)
          Data,       \* contents of a slot
          NoData,     \* the zeroed slot of init / nothing handed out yet
          Torn,       \* a slot in the middle of the producer's memcpy
          MaxSeq      \* bound: slots written in one behaviour

ASSUME RingAssumption ==
  /\ SlotCount \in Nat \ {0}
  /\ MaxDrain \in Nat \ {0}
  /\ MaxSeq \in Nat
  /\ Torn \notin Data
  /\ NoData \notin Data

VARIABLES
  producer_seq, consumer_seq, slots,   \* the shared region
  wpc, wcons, wdata,                   \* try_write: where it is, cons, data
  rpc, rprod, rmax, ri,                \* try_read / drain: prod, max_count, i
  seen,                                \* slot content at callback entry
  out                                  \* what the last callback was given

shared == <<producer_seq, consumer_seq, slots>>
writer == <<wpc, wcons, wdata>>
reader == <<rpc, rprod, rmax, ri, seen, out>>
vars   == <<shared, writer, reader>>

Idx(s) == s % SlotCount

Init ==
  /\ producer_seq = 0 /\ consumer_seq = 0
  /\ slots = [i \in 0..SlotCount - 1 |-> NoData]
  /\ wpc = "idle" /\ wcons = 0 /\ wdata = NoData
  /\ rpc = "idle" /\ rprod = 0 /\ rmax = 0 /\ ri = 0
  /\ seen = NoData /\ out = NoData

-------------------------------------------------------------------------------
(* Producer: try_write(data).                                              *)

\* Entry: load consumer_seq.
WriteLoad(d) ==
  /\ wpc = "idle" /\ producer_seq < MaxSeq
  /\ wcons' = consumer_seq /\ wdata' = d
  /\ wpc' = "check"
  /\ UNCHANGED <<shared, reader>>

\* The ring looks full: return false.
WriteFull ==
  /\ wpc = "check" /\ producer_seq - wcons >= SlotCount
  /\ wpc' = "idle" /\ wdata' = NoData
  /\ UNCHANGED <<shared, wcons, reader>>

\* Mutant: the full check lets the producer one slot too far.
WriteCopyOffByOne ==
  /\ wpc = "check" /\ producer_seq - wcons <= SlotCount
  /\ slots' = [slots EXCEPT ![Idx(producer_seq)] = Torn]
  /\ wpc' = "copy"
  /\ UNCHANGED <<producer_seq, consumer_seq, wcons, wdata, reader>>

\* First half of the memcpy into the slot.
WriteCopy ==
  /\ wpc = "check" /\ producer_seq - wcons < SlotCount
  /\ slots' = [slots EXCEPT ![Idx(producer_seq)] = Torn]
  /\ wpc' = "copy"
  /\ UNCHANGED <<producer_seq, consumer_seq, wcons, wdata, reader>>

\* Mutant: without the release fence the publication may overtake the copy.
WriteCopiedUnfenced ==
  /\ wpc = "copy"
  /\ wpc' = "publish"
  /\ UNCHANGED <<shared, wcons, wdata, reader>>

\* The memcpy is complete; the release fence keeps it before the publication.
WriteCopied ==
  /\ wpc = "copy"
  /\ slots' = [slots EXCEPT ![Idx(producer_seq)] = wdata]
  /\ wpc' = "publish"
  /\ UNCHANGED <<producer_seq, consumer_seq, wcons, wdata, reader>>

WritePublish ==
  /\ wpc = "publish"
  /\ producer_seq' = producer_seq + 1
  /\ wpc' = "idle" /\ wdata' = NoData
  /\ UNCHANGED <<consumer_seq, slots, wcons, reader>>

-------------------------------------------------------------------------------
(* Consumer: try_read is drain with max_count = 1 (same loads, same order). *)

Avail == LET n == rprod - consumer_seq IN IF n < rmax THEN n ELSE rmax

ReadLoad(m) ==
  /\ rpc = "idle"
  /\ rprod' = producer_seq /\ rmax' = m /\ ri' = 0
  /\ rpc' = "loop"
  /\ UNCHANGED <<shared, writer, seen, out>>

\* cb(slot) is entered with a pointer into the ring...
CbBegin ==
  /\ rpc = "loop" /\ ri < Avail
  /\ seen' = slots[Idx(consumer_seq + ri)]
  /\ rpc' = "callback"
  /\ UNCHANGED <<shared, writer, rprod, rmax, ri, out>>

\* ... and has consumed it when it returns.
CbEnd ==
  /\ rpc = "callback"
  /\ out' = slots[Idx(consumer_seq + ri)]
  /\ ri' = ri + 1 /\ seen' = NoData
  /\ rpc' = "loop"
  /\ UNCHANGED <<shared, writer, rprod, rmax>>

\* Mutant: the cursor of the slots that were read is not stored.
ReadPublishForgets ==
  /\ rpc = "loop" /\ ri = Avail
  /\ ri' = 0 /\ rpc' = "idle"
  /\ UNCHANGED <<shared, writer, rprod, rmax, seen, out>>

\* All callbacks ran: hand the slots back (no store when nothing was read).
ReadPublish ==
  /\ rpc = "loop" /\ ri = Avail
  /\ consumer_seq' = consumer_seq + ri
  /\ ri' = 0 /\ rpc' = "idle"
  /\ UNCHANGED <<producer_seq, slots, writer, rprod, rmax, seen, out>>

-------------------------------------------------------------------------------
Producer == \/ \E d \in Data : WriteLoad(d)
            \/ WriteFull \/ WriteCopy \/ WriteCopied \/ WritePublish

Consumer == \/ \E m \in {1, MaxDrain} : ReadLoad(m)
            \/ CbBegin \/ CbEnd \/ ReadPublish

Next == Producer \/ Consumer

Spec == Init /\ [][Next]_vars

\* The daemon loop (and the Python event loop on the other ring) drains again
\* on every cycle; a try_write that was entered returns.
FairSpec == Spec /\ WF_vars(Consumer)
                 /\ WF_vars(WriteFull \/ WriteCopy \/ WriteCopied \/ WritePublish)

-------------------------------------------------------------------------------
(* Properties.                                                             *)

TypeOK ==
  /\ producer_seq \in 0..MaxSeq /\ consumer_seq \in 0..MaxSeq
  /\ slots \in [0..SlotCount - 1 -> Data \cup {NoData, Torn}]
  /\ wpc \in {"idle", "check", "copy", "publish"}
  /\ wcons \in 0..MaxSeq /\ wdata \in Data \cup {NoData}
  /\ rpc \in {"idle", "loop", "callback"}
  /\ rprod \in 0..MaxSeq /\ rmax \in {0, 1, MaxDrain} /\ ri \in 0..MaxDrain
  /\ seen \in Data \cup {NoData, Torn} /\ out \in Data \cup {NoData, Torn}

\* A callback (DaemonLoop's dispatch of a command) reads its slot in place: from
\* entry to return the slot holds one complete message, whatever the producer
\* does in the meantime, for every slot of the batch.
CallbackSlotStable ==
  rpc = "callback" => /\ seen \in Data
                      /\ slots[Idx(consumer_seq + ri)] = seen

\* The inductive strengthening of the two invariants above.
CursorsInOrder ==
  /\ consumer_seq <= producer_seq
  /\ producer_seq - consumer_seq <= SlotCount
  /\ rpc = "idle" => ri = 0
  /\ rpc # "idle" => /\ consumer_seq <= rprod /\ rprod <= producer_seq
                     /\ ri <= Avail /\ rmax <= MaxDrain
  /\ rpc = "callback" => ri < Avail

WriterInvariant ==
  /\ wpc # "idle" => /\ wcons <= consumer_seq
                     /\ wdata \in Data /\ producer_seq < MaxSeq
  /\ wpc \in {"copy", "publish"} => producer_seq - wcons < SlotCount
  /\ wpc = "publish" => slots[Idx(producer_seq)] = wdata

PublishedAreWhole ==
  \A s \in Nat : consumer_seq <= s /\ s < producer_seq => slots[Idx(s)] \in Data

RingInv == /\ TypeOK /\ CursorsInOrder /\ WriterInvariant /\ PublishedAreWhole
           /\ CallbackSlotStable

\* The slots published and not yet given to a callback, oldest first.
Pending == LET first == consumer_seq + ri
           IN [k \in 1..producer_seq - first |-> slots[Idx(first + k - 1)]]

Abstract == INSTANCE FifoQueue WITH Capacity <- SlotCount, queue <- Pending

\* try_write / try_read / drain together are a bounded FIFO queue: nothing is
\* lost, duplicated, reordered or torn, and no more than slot_count are in it.
IsFifoQueue == Abstract!Spec

\* Every slot that was published is eventually read and handed back: a drain
\* with max_count smaller than the backlog cannot starve the tail.
EverySlotConsumed ==
  \A n \in 0..MaxSeq - 1 : (producer_seq > n) ~> (consumer_seq > n)
===============================================================================
