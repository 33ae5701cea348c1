----------------------------- MODULE StateSnapshot -----------------------------
(***************************************************************************)
(* The daemon's state in shared memory, under a sequence lock: written by  *)
(* the daemon thread (src/daemon/state_transaction.h, seqlock_write_* of   *)
(* ipc_protocol.h), read by Python (SnapshotTransaction and                *)
(* read_with_retry of python/orchestrator/spsc_ring.py).                   *)
(*                                                                         *)
(* There are two StateTransaction objects over the one snapshot, each with *)
(* its own nesting counter: DaemonLoop's, used by every publish group, and *)
(* ExpertLifecycleManager's, used for its event-driven updates.  Every     *)
(* load and store of the lock and of a field is a step.                    *)
(***************************************************************************)
EXTENDS Integers

CONSTANTS Transactions,  \* the StateTransaction objects
          Fields,        \* fields of the snapshot
          Owner,         \* the transaction under which a field is written
          Values,        \* contents of a field
          InitialValue,  \* content of the zeroed region
          MaxRetries,    \* max_retries of the reader's RetryPolicy
          MaxDepth,      \* bound: nesting of a transaction
          MaxLock        \* bound: the writer stops when the lock gets here

ASSUME SnapshotAssumption ==
  /\ Owner \in [Fields -> Transactions]
  /\ InitialValue \in Values
  /\ MaxRetries \in Nat \ {0} /\ MaxDepth \in Nat /\ MaxLock \in Nat

VARIABLES
  seqlock, snap,          \* shared memory
  counter,                \* nesting depth of every transaction
  readPc, seq, want, left, copy, tries,
                          \* read_with_retry(fn): where it is, tx._seq, fields fn
                          \* reads, those not read yet, those read, conflicts
  base                    \* history: the snapshot when seq was loaded

writerVars == <<seqlock, snap, counter>>
readerVars == <<readPc, seq, want, left, copy, tries, base>>
snapshotVars == <<writerVars, readerVars>>

SnapshotInit ==
  /\ seqlock = 0 /\ snap = [f \in Fields |-> InitialValue]
  /\ counter = [t \in Transactions |-> 0]
  /\ readPc = "idle" /\ seq = 0 /\ want = {} /\ left = {} /\ tries = 0
  /\ copy = snap /\ base = snap

-------------------------------------------------------------------------------
(* The daemon thread.                                                      *)

\* Mutant: an ELM event is published from inside a publish group.
begin_inside_another(t) ==
  /\ counter[t] < MaxDepth /\ seqlock < MaxLock
  /\ counter' = [counter EXCEPT ![t] = @ + 1]
  /\ seqlock' = IF counter[t] = 0 THEN seqlock + 1 ELSE seqlock
  /\ UNCHANGED <<snap, readerVars>>

\* No publish group calls into the lifecycle manager, and none of its updates
\* publishes: a transaction starts only while the other one is closed.
begin(t) ==
  /\ counter[t] < MaxDepth /\ seqlock < MaxLock
  /\ \A u \in Transactions \ {t} : counter[u] = 0
  /\ counter' = [counter EXCEPT ![t] = @ + 1]
  /\ seqlock' = IF counter[t] = 0 THEN seqlock + 1 ELSE seqlock
  /\ UNCHANGED <<snap, readerVars>>

WriteField(f, v) ==
  /\ counter[Owner[f]] > 0
  /\ snap' = [snap EXCEPT ![f] = v]
  /\ UNCHANGED <<seqlock, counter, readerVars>>

end(t) ==
  /\ counter[t] > 0
  /\ counter' = [counter EXCEPT ![t] = @ - 1]
  /\ seqlock' = IF counter[t] = 1 THEN seqlock + 1 ELSE seqlock
  /\ UNCHANGED <<snap, readerVars>>

-------------------------------------------------------------------------------
(* The Python reader: read_with_retry.                                     *)

StartRead(W) ==
  /\ readPc \in {"idle", "done", "timeout"}
  /\ want' = W /\ tries' = 0
  /\ readPc' = "begin"
  /\ UNCHANGED <<writerVars, seq, left, copy, base>>

\* Mutant: conflicts are not counted.
ConflictUncounted ==
  /\ tries' = tries
  /\ readPc' = IF tries + 1 < MaxRetries THEN "begin" ELSE "timeout"

\* A TransactionConflict: back off and try again, or give up.
Conflict ==
  /\ tries' = tries + 1
  /\ readPc' = IF tries + 1 < MaxRetries THEN "begin" ELSE "timeout"

TxBeginConflict ==
  /\ readPc = "begin" /\ seqlock % 2 = 1
  /\ Conflict
  /\ UNCHANGED <<writerVars, seq, want, left, copy, base>>

TxBegin ==
  /\ readPc = "begin" /\ seqlock % 2 = 0
  /\ seq' = seqlock /\ base' = snap
  /\ left' = want
  /\ readPc' = "copy"
  /\ UNCHANGED <<writerVars, want, copy, tries>>

CopyField(f) ==
  /\ readPc = "copy" /\ f \in left
  /\ copy' = [copy EXCEPT ![f] = snap[f]]
  /\ left' = left \ {f}
  /\ UNCHANGED <<writerVars, readPc, seq, want, tries, base>>

\* __exit__: fn returned, the lock is loaded again.
TxEnd ==
  /\ readPc = "copy" /\ left = {}
  /\ IF seqlock = seq
     THEN readPc' = "done" /\ tries' = tries
     ELSE Conflict
  /\ UNCHANGED <<writerVars, seq, want, left, copy, base>>

-------------------------------------------------------------------------------
Writer == \/ \E t \in Transactions : begin(t)
          \/ \E f \in Fields, v \in Values : WriteField(f, v)
          \/ \E t \in Transactions : end(t)

Reader == \/ TxBeginConflict \/ TxBegin
          \/ \E f \in Fields : CopyField(f)
          \/ TxEnd

SnapshotNext == Writer \/ Reader \/ \E W \in SUBSET Fields : StartRead(W)

SnapshotSpec == SnapshotInit /\ [][SnapshotNext]_snapshotVars

\* The reader runs on.  Nothing is assumed of the daemon: it may stall, or die, inside
\* a transaction, which leaves the lock odd for ever.
FairSnapshotSpec == SnapshotSpec /\ WF_snapshotVars(Reader)

-------------------------------------------------------------------------------
(* Properties.                                                             *)

SnapshotTypeOK ==
  /\ seqlock \in Nat /\ snap \in [Fields -> Values]
  /\ counter \in [Transactions -> 0..MaxDepth]
  /\ readPc \in {"idle", "begin", "copy", "done", "timeout"}
  /\ seq \in Nat /\ want \subseteq Fields /\ left \subseteq Fields
  /\ tries \in 0..MaxRetries
  /\ copy \in [Fields -> Values] /\ base \in [Fields -> Values]

\* A read that returns gives the fields as they stood together at one moment when no
\* transaction was open: never a half-written group, nor fields of two moments, and
\* whatever the nesting of the writer's transactions.
ReadsAreAtomic == readPc = "done" => \A f \in want : copy[f] = base[f]

\* The lock is odd exactly while a transaction is open, and at most one is.
LockTellsWriter ==
  /\ seqlock % 2 = 1 <=> \E t \in Transactions : counter[t] > 0
  /\ \A t, u \in Transactions : counter[t] > 0 /\ counter[u] > 0 => t = u

ReadWindow ==
  /\ readPc \in {"begin", "copy"} => tries < MaxRetries
  /\ readPc = "copy" =>
       /\ seq % 2 = 0 /\ seq <= seqlock /\ left \subseteq want
       /\ seq = seqlock => /\ snap = base
                           /\ \A f \in want \ left : copy[f] = base[f]

\* Together the inductive invariant.
SnapshotInv == SnapshotTypeOK /\ LockTellsWriter /\ ReadWindow /\ ReadsAreAtomic

\* Every read ends, with an answer or with TimeoutError: neither a busy nor a dead
\* writer can make the orchestrator spin for ever.
EveryReadEnds == (readPc = "begin") ~> (readPc \in {"done", "timeout"})
===============================================================================
