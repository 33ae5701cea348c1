---------------------------- MODULE NvmeTierProofs ----------------------------
(***************************************************************************)
(* Proofs about NvmeTier, for any experts, layers, prepacked experts, queue *)
(* depth, ring size and bounds.  Two halves that share only the phase: the  *)
(* tier with the kernel below it, and the dispatcher with the ring above.   *)
(***************************************************************************)
EXTENDS NvmeTier, TLAPS

WriteOp  == [op : {"write"}, token : Tokens, key : Keys, owned : BOOLEAN]
CancelOp == [op : {"cancel"}, token : Tokens]
Cqe      == [token : Tokens \cup {0}, res : {"whole", "short", "error"}]
Phases   == {"run", "drain", "off"}

\* Types of what the tier and the kernel keep, values of the tables included.
TierType ==
  /\ disk \in [Keys -> {"zero", "torn", "whole"}] /\ file \subseteq Experts
  /\ region \in [Experts -> {"none", "own", "borrowed"}]
  /\ slot_written \in [Keys -> BOOLEAN]
  /\ DOMAIN pending \subseteq Tokens /\ inflight_keys \subseteq Keys
  /\ \A t \in DOMAIN pending : pending[t] \in [key : Keys, owned : BOOLEAN]
  /\ DOMAIN cancelled_writes \subseteq Tokens
  /\ \A t \in DOMAIN cancelled_writes : cancelled_writes[t] \in BOOLEAN
  /\ num_inflight \in Int /\ next_token \in 1 .. MaxTokens + 1
  /\ sq \subseteq WriteOp \cup CancelOp /\ cq \in Seq(Cqe) /\ heap \subseteq Tokens
  /\ cancels \in BOOLEAN /\ phase \in Phases /\ boots \in 1 .. MaxBoots

\* inflight_keys_ names the keys of pending_, each tracked once.
KeysExact ==
  /\ inflight_keys = {pending[t].key : t \in DOMAIN pending}
  /\ \A t, u \in DOMAIN pending : pending[t].key = pending[u].key => t = u

\* Every token in a table or a queue was issued, and no token is both pending
\* and cancelled.
TokensIssued ==
  /\ \A t \in DOMAIN pending \cup DOMAIN cancelled_writes : t < next_token
  /\ DOMAIN pending \cap DOMAIN cancelled_writes = {}
  /\ \A i \in 1 .. Len(cq) : cq[i].token < next_token

\* A write the kernel holds has an entry in exactly one table, which knows
\* whether a buffer belongs to it; its completion is not yet in the queue.
SubmittedTracked ==
  IF phase = "off" THEN sq = {}
  ELSE \A o \in sq : o.op = "write" =>
         /\ \/ o.token \in DOMAIN pending /\ pending[o.token].owned = o.owned
            \/ o.token \in DOMAIN cancelled_writes /\ cancelled_writes[o.token] = o.owned
         /\ \A i \in 1 .. Len(cq) : cq[i].token # o.token
         /\ \A p \in sq : p.op = "write" /\ p.token = o.token => p = o

\* The allocated buffers are those of the entries of the two tables.
HeapExact == phase # "off" => heap = Held

TierInv == TierType /\ KeysExact /\ TokensIssued /\ SubmittedTracked /\ HeapExact

\* The dispatcher's half.
DispType ==
  /\ DOMAIN tok2seq \subseteq Tokens \cup {0}
  /\ \A t \in DOMAIN tok2seq : tok2seq[t] \in Seqs
  /\ DOMAIN seq2tok \subseteq Seqs
  /\ cmp_ring \in Seq(Seqs \cup {0}) /\ Len(cmp_ring) <= RingSize
  /\ next_seq \in 1 .. MaxSeqs + 1 /\ accepted \subseteq Seqs

DispInv == DispType /\ AcceptedNotForgotten

NvmeInv == TierInv /\ DispInv
-------------------------------------------------------------------------------
(* The maps.                                                                  *)

\* The empty map has no bindings.
LEMMA EmptyFacts == DOMAIN Empty = {}
BY DEF Empty

\* What the entries of the completion queue look like.
LEMMA CqTokens ==
  ASSUME cq \in Seq(Cqe)
  PROVE  \A i \in 1 .. Len(cq) : cq[i] \in Cqe /\ cq[i].token \in Tokens \cup {0}
<1>1. \A i \in 1 .. Len(cq) : cq[i] \in Cqe
  OBVIOUS
<1>2. \A c \in Cqe : c.token \in Tokens \cup {0}
  BY DEF Cqe
<1>3. QED
  BY <1>1, <1>2

\* The named parts add up to the invariants of the model.
LEMMA NvmeInvParts ==
  ASSUME NvmeInv
  PROVE  BufferLifetime /\ InflightExact /\ AcceptedNotForgotten
<1>1. TypeOK
  BY DEF NvmeInv, TierInv, TierType, DispInv, DispType, TypeOK, Phases
<1>2. InflightExact
  BY <1>1 DEF NvmeInv, TierInv, KeysExact, InflightExact
<1>3. BufferLifetime
  <2> SUFFICES ASSUME phase # "off", NEW o \in sq, o.op = "write", o.owned
               PROVE  o.token \in Held
    BY DEF NvmeInv, TierInv, HeapExact, BufferLifetime, Reading
  <2>1. QED
    BY DEF NvmeInv, TierInv, SubmittedTracked, Held
<1>4. QED
  BY <1>2, <1>3 DEF NvmeInv, DispInv
-------------------------------------------------------------------------------
(* The tier.                                                                  *)

LEMMA InitTier == Init => TierInv
<1> SUFFICES ASSUME Init PROVE TierInv
  OBVIOUS
<1> USE NvmeAssumption DEF Init
<1>1. TierType
  <2>1. /\ disk \in [Keys -> {"zero", "torn", "whole"}]
        /\ region \in [Experts -> {"none", "own", "borrowed"}]
        /\ slot_written \in [Keys -> BOOLEAN]
    BY DEF region_at_boot, scanned
  <2>2. next_token \in 1 .. MaxTokens + 1 /\ boots \in 1 .. MaxBoots
    OBVIOUS
  <2>3. cq \in Seq(Cqe)
    OBVIOUS
  <2>4. cancels \in BOOLEAN /\ phase \in Phases
    BY DEF Phases
  <2>5. DOMAIN pending = {} /\ DOMAIN cancelled_writes = {}
    BY EmptyFacts
  <2>6. QED
    BY <2>1, <2>2, <2>3, <2>4, <2>5 DEF TierType
<1>2. KeysExact /\ TokensIssued
  BY EmptyFacts DEF KeysExact, TokensIssued
<1>3. SubmittedTracked /\ HeapExact
  BY EmptyFacts DEF SubmittedTracked, HeapExact, Held
<1>4. QED
  BY <1>1, <1>2, <1>3 DEF TierInv

\* Nothing the tier keeps changes, or only the disk and the file system do.
LEMMA TierUnchanged ==
  ASSUME TierInv,
         UNCHANGED <<pending, inflight_keys, cancelled_writes, num_inflight,
                     next_token, cq, heap, sq>>,
         disk' \in [Keys -> {"zero", "torn", "whole"}], file' \subseteq Experts,
         region' \in [Experts -> {"none", "own", "borrowed"}],
         slot_written' \in [Keys -> BOOLEAN],
         cancels' \in BOOLEAN, phase' \in Phases, boots' \in 1 .. MaxBoots,
         phase' = "off" => phase = "off", phase = "off" => phase' = "off"
  PROVE  TierInv'
<1>1. TierType'
  BY DEF TierInv, TierType
<1>2. KeysExact' /\ TokensIssued'
  BY DEF TierInv, KeysExact, TokensIssued
<1>3. SubmittedTracked' /\ HeapExact'
  BY DEF TierInv, SubmittedTracked, HeapExact, Held
<1>4. QED
  BY <1>1, <1>2, <1>3 DEF TierInv

\* A submitted write is tracked under a new token, for a key nobody writes;
\* the buffer, if the tier owns one, is on the heap.
LEMMA SubmitTier ==
  ASSUME TierInv, NEW k \in Keys, NEW owned \in BOOLEAN, Submit(k, owned),
         k \notin inflight_keys,
         phase = "run", UNCHANGED <<disk, slot_written, cancelled_writes, cq,
                                    cancels, phase, boots>>,
         file' \subseteq Experts, region' \in [Experts -> {"none", "own", "borrowed"}],
         heap' = IF owned THEN heap \cup {next_token} ELSE heap
  PROVE  TierInv'
<1> DEFINE t == next_token
           w == [op |-> "write", token |-> t, key |-> k, owned |-> owned]
           e == [key |-> k, owned |-> owned]
<1>1. /\ t \in Tokens /\ t \in Nat /\ next_token' = t + 1
      /\ sq' = sq \cup {w} /\ pending' = Bind(pending, t, e)
      /\ inflight_keys' = inflight_keys \cup {k} /\ num_inflight' = num_inflight + 1
  BY DEF Submit, Tokens
<1>2. /\ w \in WriteOp /\ w.op = "write" /\ w.token = t /\ w.owned = owned
      /\ e \in [key : Keys, owned : BOOLEAN] /\ e.key = k /\ e.owned = owned
  BY <1>1 DEF WriteOp
<1> HIDE DEF w, e
<1>3. /\ t \notin DOMAIN pending /\ t \notin DOMAIN cancelled_writes
      /\ \A i \in 1 .. Len(cq) : cq[i].token # t
  BY <1>1 DEF TierInv, TierType, TokensIssued
<1>4. /\ DOMAIN pending' = DOMAIN pending \cup {t} /\ pending'[t] = e
      /\ \A u \in DOMAIN pending : pending'[u] = pending[u]
  <2>1. /\ DOMAIN Bind(pending, t, e) = DOMAIN pending \cup {t}
        /\ Bind(pending, t, e)[t] = e
        /\ \A u \in DOMAIN pending : u # t => Bind(pending, t, e)[u] = pending[u]
    BY DEF Bind
  <2>2. QED
    BY <1>1, <1>3, <2>1
<1>5. TierType'
  <2>1. \A u \in DOMAIN pending' : pending'[u] \in [key : Keys, owned : BOOLEAN]
    BY <1>2, <1>4 DEF TierInv, TierType
  <2>2. sq' \subseteq WriteOp \cup CancelOp
    BY <1>1, <1>2 DEF TierInv, TierType
  <2>3. heap' \subseteq Tokens
    BY <1>1 DEF TierInv, TierType
  <2>4. next_token' \in 1 .. MaxTokens + 1
    BY <1>1, NvmeAssumption DEF Tokens
  <2>5. QED
    BY <1>1, <1>4, <2>1, <2>2, <2>3, <2>4 DEF TierInv, TierType
<1>6. KeysExact'
  BY <1>1, <1>2, <1>4 DEF TierInv, KeysExact
<1>7. TokensIssued'
  <2>1. \A u \in DOMAIN pending \cup DOMAIN cancelled_writes : u \in Nat /\ u < t
    BY DEF TierInv, TierType, TokensIssued, Tokens
  <2>2. \A i \in 1 .. Len(cq) : cq[i].token \in Nat /\ cq[i].token < t
    BY CqTokens DEF TierInv, TierType, TokensIssued, Tokens
  <2>3. /\ \A u \in DOMAIN pending \cup DOMAIN cancelled_writes : u < t + 1
        /\ \A i \in 1 .. Len(cq) : cq[i].token < t + 1
        /\ t < t + 1
    BY <1>1, <2>1, <2>2
  <2>4. QED
    BY <1>1, <1>3, <1>4, <2>3 DEF TierInv, TokensIssued
<1>8. SubmittedTracked'
  <2> SUFFICES ASSUME NEW o \in sq', o.op = "write"
               PROVE  /\ \/ o.token \in DOMAIN pending' /\ pending'[o.token].owned = o.owned
                         \/ /\ o.token \in DOMAIN cancelled_writes'
                            /\ cancelled_writes'[o.token] = o.owned
                      /\ \A i \in 1 .. Len(cq') : cq'[i].token # o.token
                      /\ \A p \in sq' : p.op = "write" /\ p.token = o.token => p = o
    BY DEF SubmittedTracked
  <2>1. \A p \in sq : p.op = "write" => p.token # t
    BY <1>3 DEF TierInv, SubmittedTracked
  <2>2. CASE o = w
    BY <1>1, <1>2, <1>3, <1>4, <2>1, <2>2
  <2>3. CASE o \in sq
    <3>1. o.token # t
      BY <2>1, <2>3
    <3>2. QED
      BY <1>1, <1>2, <1>4, <2>3, <3>1 DEF TierInv, SubmittedTracked
  <2>4. QED
    BY <1>1, <2>2, <2>3
<1>9. HeapExact'
  <2>1. CASE owned
    BY <1>2, <1>4, <2>1 DEF TierInv, HeapExact, Held
  <2>2. CASE ~owned
    BY <1>2, <1>4, <2>2 DEF TierInv, HeapExact, Held
  <2>3. QED
    BY <2>1, <2>2
<1>10. QED
  BY <1>5, <1>6, <1>7, <1>8, <1>9 DEF TierInv

\* Removing entries and their keys together keeps the index of keys exact,
\* because no two entries have the same key.
LEMMA KeysRemoved ==
  ASSUME KeysExact, NEW M \in SUBSET DOMAIN pending,
         DOMAIN pending' = DOMAIN pending \ M,
         \A u \in DOMAIN pending' : pending'[u] = pending[u],
         inflight_keys' = inflight_keys \ {pending[u].key : u \in M}
  PROVE  KeysExact'
<1>1. \A t, u \in DOMAIN pending' : pending'[t].key = pending'[u].key => t = u
  BY DEF KeysExact
<1>2. \A k \in inflight_keys' : \E u \in DOMAIN pending' : k = pending'[u].key
  <2> TAKE k \in inflight_keys'
  <2>1. PICK u \in DOMAIN pending : k = pending[u].key
    BY DEF KeysExact
  <2>2. u \notin M
    BY <2>1
  <2>3. QED
    BY <2>1, <2>2
<1>3. \A u \in DOMAIN pending' : pending'[u].key \in inflight_keys'
  <2> TAKE u \in DOMAIN pending'
  <2>1. u \in DOMAIN pending /\ u \notin M /\ pending'[u] = pending[u]
    OBVIOUS
  <2>2. \A v \in M : pending[v].key # pending[u].key
    BY <2>1 DEF KeysExact
  <2>3. pending[u].key \in inflight_keys
    BY <2>1 DEF KeysExact
  <2>4. QED
    BY <2>1, <2>2, <2>3
<1>4. inflight_keys' = {pending'[u].key : u \in DOMAIN pending'}
  BY <1>2, <1>3
<1>5. QED
  BY <1>1, <1>4 DEF KeysExact

\* A cancellation moves the entry to the other table; the kernel keeps the write
\* and the heap keeps the buffer.
LEMMA CancelTier ==
  ASSUME TierInv, NEW t, cancel(t), phase = "run",
         UNCHANGED <<disk, file, region, slot_written, num_inflight, next_token,
                     cq, phase, boots>>
  PROVE  TierInv'
<1>1. CASE t \notin DOMAIN pending
  <2>1. UNCHANGED <<cancelled_writes, heap, inflight_keys, pending, sq, cancels>>
    BY <1>1 DEF cancel
  <2>2. QED
    BY <2>1, TierUnchanged DEF TierInv, TierType
<1>2. CASE t \in DOMAIN pending
  <2> DEFINE c == [op |-> "cancel", token |-> t]
  <2>1. /\ cancelled_writes' = Bind(cancelled_writes, t, pending[t].owned)
        /\ inflight_keys' = inflight_keys \ {pending[t].key}
        /\ pending' = Drop(pending, {t}) /\ sq' = sq \cup {c}
        /\ cancels' = TRUE /\ heap' = heap
    BY <1>2 DEF cancel
  <2>2. /\ t \in Tokens /\ pending[t].key \in Keys /\ pending[t].owned \in BOOLEAN
        /\ t \notin DOMAIN cancelled_writes /\ t < next_token
    BY <1>2 DEF TierInv, TierType, TokensIssued
  <2>3. c \in CancelOp /\ c.op # "write"
    BY <2>2 DEF CancelOp
  <2> HIDE DEF c
  <2>4. /\ DOMAIN cancelled_writes' = DOMAIN cancelled_writes \cup {t}
        /\ cancelled_writes'[t] = pending[t].owned
        /\ \A u \in DOMAIN cancelled_writes : cancelled_writes'[u] = cancelled_writes[u]
    BY <2>1, <2>2 DEF Bind
  <2>5. /\ DOMAIN pending' = DOMAIN pending \ {t}
        /\ \A u \in DOMAIN pending' : pending'[u] = pending[u]
    BY <2>1 DEF Drop
  <2>6. TierType'
    <3>1. \A u \in DOMAIN cancelled_writes' : cancelled_writes'[u] \in BOOLEAN
      BY <2>2, <2>4 DEF TierInv, TierType
    <3>2. \A u \in DOMAIN pending' : pending'[u] \in [key : Keys, owned : BOOLEAN]
      BY <2>5 DEF TierInv, TierType
    <3>3. sq' \subseteq WriteOp \cup CancelOp
      BY <2>1, <2>3 DEF TierInv, TierType
    <3>4. cancels' \in BOOLEAN /\ inflight_keys' \subseteq Keys
      BY <2>1 DEF TierInv, TierType
    <3>5. QED
      BY <2>1, <2>2, <2>4, <2>5, <3>1, <3>2, <3>3, <3>4 DEF TierInv, TierType
  <2>7. KeysExact'
    <3>1. inflight_keys' = inflight_keys \ {pending[u].key : u \in {t}}
      BY <2>1
    <3>2. QED
      BY <1>2, <2>5, <3>1, KeysRemoved DEF TierInv
  <2>8. TokensIssued'
    BY <2>2, <2>4, <2>5 DEF TierInv, TokensIssued
  <2>9. SubmittedTracked'
    <3>0. phase = "run" /\ phase' = phase /\ cq' = cq /\ \A o \in sq' : o.op = "write" => o \in sq
      BY <2>1, <2>3
    <3>1. SUFFICES ASSUME NEW o \in sq, o.op = "write"
                   PROVE  /\ \/ o.token \in DOMAIN pending' /\ pending'[o.token].owned = o.owned
                             \/ /\ o.token \in DOMAIN cancelled_writes'
                                /\ cancelled_writes'[o.token] = o.owned
                          /\ \A i \in 1 .. Len(cq) : cq[i].token # o.token
                          /\ \A p \in sq : p.op = "write" /\ p.token = o.token => p = o
      BY <3>0 DEF SubmittedTracked
    <3>2. /\ \/ o.token \in DOMAIN pending /\ pending[o.token].owned = o.owned
             \/ o.token \in DOMAIN cancelled_writes /\ cancelled_writes[o.token] = o.owned
          /\ \A i \in 1 .. Len(cq) : cq[i].token # o.token
          /\ \A p \in sq : p.op = "write" /\ p.token = o.token => p = o
      BY <3>0, <3>1 DEF TierInv, SubmittedTracked
    <3> QED  BY <2>4, <2>5, <3>2
  <2>10. HeapExact'
    <3>1. \A u : u \in Held' <=> u \in Held
      BY <1>2, <2>2, <2>4, <2>5 DEF Held
    <3>2. QED
      BY <2>1, <3>1 DEF TierInv, HeapExact
  <2>11. QED
    BY <2>6, <2>7, <2>8, <2>9, <2>10 DEF TierInv
<1>3. QED
  BY <1>1, <1>2

\* What the kernel does to its two queues: operations leave the one, among them
\* every write of a token that arrives in the other.
LEMMA KernelTier ==
  ASSUME TierInv, phase # "off", sq' \subseteq sq, cq' \in Seq(Cqe),
         \A i \in 1 .. Len(cq') :
           \/ \E j \in 1 .. Len(cq) : cq'[i] = cq[j]
           \/ /\ cq'[i].token < next_token
              /\ \A o \in sq' : o.op = "write" => cq'[i].token # o.token,
         disk' \in [Keys -> {"zero", "torn", "whole"}],
         UNCHANGED <<file, region, slot_written, pending, inflight_keys,
                     cancelled_writes, num_inflight, next_token, heap, cancels,
                     phase, boots>>
  PROVE  TierInv'
<1>1. TierType'
  BY DEF TierInv, TierType
<1>2. KeysExact'
  BY DEF TierInv, KeysExact
<1>3. TokensIssued'
  BY DEF TierInv, TokensIssued
<1>4. SubmittedTracked'
  <2> SUFFICES ASSUME NEW o \in sq', o.op = "write"
               PROVE  \A i \in 1 .. Len(cq') : cq'[i].token # o.token
    BY DEF TierInv, SubmittedTracked
  <2>1. \A j \in 1 .. Len(cq) : cq[j].token # o.token
    BY DEF TierInv, SubmittedTracked
  <2>2. QED
    BY <2>1
<1>5. HeapExact'
  BY DEF TierInv, HeapExact, Held
<1>6. QED
  BY <1>1, <1>2, <1>3, <1>4, <1>5 DEF TierInv

\* Written keeps the type of the disk.
LEMMA WrittenType ==
  ASSUME TierInv, NEW k \in Keys, NEW res, Written(k, res)
  PROVE  disk' \in [Keys -> {"zero", "torn", "whole"}]
BY DEF TierInv, TierType, Written

LEMMA KernelWriteTier ==
  ASSUME TierInv, NEW o \in sq, NEW res \in {"whole", "short", "error"},
         kernel_write(o, res)
  PROVE  TierInv'
<1> DEFINE c == [token |-> o.token, res |-> res]
<1>1. o \in WriteOp
  BY DEF kernel_write, TierInv, TierType, WriteOp, CancelOp
<1>2. o.token \in Tokens /\ o.key \in Keys /\ o.op = "write"
  BY <1>1 DEF WriteOp
<1>3. c \in Cqe /\ c.token = o.token
  BY <1>2 DEF Cqe
<1>4. sq' = sq \ {o} /\ cq' = Append(cq, c) /\ phase # "off"
  BY DEF kernel_write
<1> HIDE DEF c
<1>5. /\ cq' \in Seq(Cqe) /\ Len(cq') = Len(cq) + 1 /\ Len(cq) \in Nat
      /\ \A i \in 1 .. Len(cq) : cq'[i] = cq[i]
      /\ cq'[Len(cq) + 1] = c
  BY <1>3, <1>4 DEF TierInv, TierType
<1>6. disk' \in [Keys -> {"zero", "torn", "whole"}]
  BY <1>2, WrittenType DEF kernel_write, TierInv, TierType
<1>7. o.token < next_token /\ \A p \in sq' : p.op = "write" => o.token # p.token
  BY <1>2, <1>4 DEF TierInv, TokensIssued, SubmittedTracked
<1>8. \A i \in 1 .. Len(cq') :
         \/ \E j \in 1 .. Len(cq) : cq'[i] = cq[j]
         \/ /\ cq'[i].token < next_token
            /\ \A p \in sq' : p.op = "write" => cq'[i].token # p.token
  <2> TAKE i \in 1 .. Len(cq')
  <2>1. i \in 1 .. Len(cq) \/ i = Len(cq) + 1
    BY <1>5
  <2>2. QED
    BY <1>3, <1>5, <1>7, <2>1
<1>9. QED
  BY <1>4, <1>5, <1>6, <1>8, KernelTier DEF kernel_write

LEMMA KernelCancelTier ==
  ASSUME TierInv, NEW o \in sq, kernel_cancel(o)
  PROVE  TierInv'
<1> DEFINE w == {x \in sq : x.op = "write" /\ x.token = o.token}
           c == [token |-> o.token, res |-> "error"]
           done == [token |-> 0, res |-> "whole"]
           late == [token |-> 0, res |-> "error"]
<1>1. o \in CancelOp /\ phase # "off"
  BY DEF kernel_cancel, TierInv, TierType, WriteOp, CancelOp
<1>2. /\ c \in Cqe /\ done \in Cqe /\ late \in Cqe
      /\ c.token = o.token /\ done.token = 0 /\ late.token = 0
  BY <1>1 DEF Cqe, CancelOp
<1>3. /\ 0 < next_token
      /\ \A p \in sq : p.op = "write" => p.token # 0
  BY NvmeAssumption DEF TierInv, TierType, WriteOp, CancelOp, Tokens
<1>4. CASE /\ w # {} /\ sq' = sq \ (w \cup {o}) /\ cq' = cq \o <<c, done>>
  <2>1. PICK x \in sq : x.op = "write" /\ x.token = o.token
    BY <1>4
  <2>2. o.token < next_token
    BY <1>1, <2>1 DEF TierInv, TokensIssued, SubmittedTracked
  <2>3. \A p \in sq' : p.op = "write" => o.token # p.token /\ 0 # p.token
    BY <1>3, <1>4
  <2> HIDE DEF c, done, late
  <2>4. /\ cq' \in Seq(Cqe) /\ Len(cq') = Len(cq) + 2 /\ Len(cq) \in Nat
        /\ \A i \in 1 .. Len(cq) : cq'[i] = cq[i]
        /\ cq'[Len(cq) + 1] = c /\ cq'[Len(cq) + 2] = done
    BY <1>2, <1>4 DEF TierInv, TierType
  <2>5. \A i \in 1 .. Len(cq') :
           \/ \E j \in 1 .. Len(cq) : cq'[i] = cq[j]
           \/ /\ cq'[i].token < next_token
              /\ \A p \in sq' : p.op = "write" => cq'[i].token # p.token
    <3> TAKE i \in 1 .. Len(cq')
    <3>1. i \in 1 .. Len(cq) \/ i = Len(cq) + 1 \/ i = Len(cq) + 2
      BY <2>4
    <3>2. QED
      BY <1>2, <1>3, <2>2, <2>3, <2>4, <3>1
  <2>6. disk' \in [Keys -> {"zero", "torn", "whole"}] /\ sq' \subseteq sq
    BY <1>4 DEF kernel_cancel, TierInv, TierType
  <2>7. QED
    BY <1>1, <2>4, <2>5, <2>6, KernelTier DEF kernel_cancel
<1>5. CASE sq' = sq \ {o} /\ cq' = Append(cq, late)
  <2> HIDE DEF c, done, late
  <2>1. /\ cq' \in Seq(Cqe) /\ Len(cq') = Len(cq) + 1 /\ Len(cq) \in Nat
        /\ \A i \in 1 .. Len(cq) : cq'[i] = cq[i]
        /\ cq'[Len(cq) + 1] = late
    BY <1>2, <1>5 DEF TierInv, TierType
  <2>2. \A i \in 1 .. Len(cq') :
           \/ \E j \in 1 .. Len(cq) : cq'[i] = cq[j]
           \/ /\ cq'[i].token < next_token
              /\ \A p \in sq' : p.op = "write" => cq'[i].token # p.token
    <3> TAKE i \in 1 .. Len(cq')
    <3>1. i \in 1 .. Len(cq) \/ i = Len(cq) + 1
      BY <2>1
    <3>2. QED
      BY <1>2, <1>3, <1>5, <2>1, <3>1
  <2>3. disk' \in [Keys -> {"zero", "torn", "whole"}] /\ sq' \subseteq sq
    BY <1>5 DEF kernel_cancel, TierInv, TierType
  <2>4. QED
    BY <1>1, <2>1, <2>2, <2>3, KernelTier DEF kernel_cancel
<1>6. QED
  BY <1>4, <1>5 DEF kernel_cancel

\* Reaping completions frees the buffers of the entries it removes and no other;
\* no write the kernel still holds is among them.
LEMMA ReapTier ==
  ASSUME TierInv, NEW es \in Seq(Cqe), NEW good, Reap(es, good), phase # "off",
         \A i \in 1 .. Len(es) : \E j \in 1 .. Len(cq) : es[i] = cq[j],
         cq' \in Seq(Cqe),
         \A i \in 1 .. Len(cq') : \E j \in 1 .. Len(cq) : cq'[i] = cq[j],
         UNCHANGED <<disk, file, region, next_token, sq, cancels, phase, boots>>
  PROVE  TierInv'
<1> DEFINE toks == {es[i].token : i \in 1 .. Len(es)}
           mine == toks \cap DOMAIN pending
           full == {pending[t].key : t \in {u \in mine :
                      \E i \in 1 .. Len(es) : es[i].token = u /\ es[i].res \in good}}
           freed == {t \in mine : pending[t].owned} \cup
                    {t \in toks \cap DOMAIN cancelled_writes : cancelled_writes[t]}
<1>1. /\ slot_written' = [k \in Keys |-> slot_written[k] \/ k \in full]
      /\ heap' = heap \ freed
      /\ inflight_keys' = inflight_keys \ {pending[t].key : t \in mine}
      /\ pending' = Drop(pending, mine)
      /\ cancelled_writes' = Drop(cancelled_writes, toks)
      /\ num_inflight' = num_inflight - Len(es)
  BY DEF Reap
<1>2. \A o \in sq : o.op = "write" => o.token \notin toks
  <2> SUFFICES ASSUME NEW o \in sq, o.op = "write", NEW i \in 1 .. Len(es)
               PROVE  es[i].token # o.token
    OBVIOUS
  <2>1. PICK j \in 1 .. Len(cq) : es[i] = cq[j]
    OBVIOUS
  <2>2. QED
    BY <2>1 DEF TierInv, SubmittedTracked
<1>3. slot_written' \in [Keys -> BOOLEAN]
  <2> HIDE DEF full
  <2>1. \A k \in Keys : (slot_written[k] \/ k \in full) \in BOOLEAN
    OBVIOUS
  <2>2. QED
    BY <1>1, <2>1
<1>4. num_inflight' \in Int
  BY <1>1 DEF TierInv, TierType
<1> HIDE DEF toks, full
<1>5. /\ DOMAIN pending' = DOMAIN pending \ mine
      /\ \A u \in DOMAIN pending' : pending'[u] = pending[u]
  BY <1>1 DEF Drop
<1>6. /\ DOMAIN cancelled_writes' = DOMAIN cancelled_writes \ toks
      /\ \A u \in DOMAIN cancelled_writes' : cancelled_writes'[u] = cancelled_writes[u]
  BY <1>1 DEF Drop
<1>7. TierType'
  <2>1. \A u \in DOMAIN pending' : pending'[u] \in [key : Keys, owned : BOOLEAN]
    BY <1>5 DEF TierInv, TierType
  <2>2. \A u \in DOMAIN cancelled_writes' : cancelled_writes'[u] \in BOOLEAN
    BY <1>6 DEF TierInv, TierType
  <2>3. heap' \subseteq Tokens /\ inflight_keys' \subseteq Keys
    BY <1>1 DEF TierInv, TierType
  <2>4. QED
    BY <1>3, <1>4, <1>5, <1>6, <2>1, <2>2, <2>3 DEF TierInv, TierType
<1>8. KeysExact'
  BY <1>1, <1>5, KeysRemoved DEF TierInv
<1>9. TokensIssued'
  BY <1>5, <1>6 DEF TierInv, TokensIssued
<1>10. SubmittedTracked'
  <2> SUFFICES ASSUME NEW o \in sq, o.op = "write"
               PROVE  /\ \/ o.token \in DOMAIN pending' /\ pending'[o.token].owned = o.owned
                         \/ /\ o.token \in DOMAIN cancelled_writes'
                            /\ cancelled_writes'[o.token] = o.owned
                      /\ \A i \in 1 .. Len(cq') : cq'[i].token # o.token
                      /\ \A p \in sq : p.op = "write" /\ p.token = o.token => p = o
    BY DEF SubmittedTracked
  <2>1. o.token \notin toks
    BY <1>2
  <2>2. \A j \in 1 .. Len(cq) : cq[j].token # o.token
    BY DEF TierInv, SubmittedTracked
  <2>3. \/ o.token \in DOMAIN pending /\ pending[o.token].owned = o.owned
        \/ o.token \in DOMAIN cancelled_writes /\ cancelled_writes[o.token] = o.owned
    BY DEF TierInv, SubmittedTracked
  <2>4. \/ o.token \in DOMAIN pending' /\ pending'[o.token].owned = o.owned
        \/ /\ o.token \in DOMAIN cancelled_writes'
           /\ cancelled_writes'[o.token] = o.owned
    BY <1>5, <1>6, <2>1, <2>3
  <2>5. \A i \in 1 .. Len(cq') : cq'[i].token # o.token
    BY <2>2
  <2>6. QED
    BY <2>4, <2>5 DEF TierInv, SubmittedTracked
<1>11. HeapExact'
  <2>1. \A u : u \in Held' <=> u \in Held \ freed
    <3> SUFFICES ASSUME NEW u PROVE u \in Held' <=> u \in Held \ freed
      OBVIOUS
    <3>1. u \in DOMAIN pending => u \notin DOMAIN cancelled_writes
      BY DEF TierInv, TokensIssued
    <3>2. QED
      BY <1>5, <1>6, <3>1 DEF Held
  <2>2. QED
    BY <1>1, <2>1 DEF TierInv, HeapExact
<1>12. QED
  BY <1>7, <1>8, <1>9, <1>10, <1>11 DEF TierInv

\* The kernel's queue and the tables when the daemon stops and starts again.
LEMMA StopTier ==
  ASSUME TierInv, drained \/ killed
  PROVE  TierInv'
<1>1. /\ phase' = "off" /\ sq' = {}
      /\ UNCHANGED <<file, tier_vars, cancels, boots>>
  BY DEF drained, killed
<1>2. disk' \in [Keys -> {"zero", "torn", "whole"}]
  <2>1. CASE drained
    BY <2>1 DEF drained, TierInv, TierType
  <2>2. CASE killed
    <3> DEFINE hit == {o.key : o \in {x \in sq : x.op = "write" /\ x.owned}}
    <3>1. PICK after \in [hit -> {"whole", "torn", "none"}] :
            disk' = [k \in Keys |->
                       IF k \notin hit \/ disk[k] = "whole" THEN disk[k]
                       ELSE IF after[k] = "none" THEN disk[k] ELSE after[k]]
      BY <2>2 DEF killed
    <3> HIDE DEF hit
    <3>2. QED
      BY <3>1 DEF TierInv, TierType
  <2>3. QED
    BY <2>1, <2>2
<1>3. TierType'
  BY <1>1, <1>2 DEF TierInv, TierType, tier_vars, Phases
<1>4. KeysExact' /\ TokensIssued'
  BY <1>1 DEF TierInv, KeysExact, TokensIssued, tier_vars
<1>5. SubmittedTracked' /\ HeapExact'
  BY <1>1 DEF SubmittedTracked, HeapExact
<1>6. QED
  BY <1>3, <1>4, <1>5 DEF TierInv

LEMMA RestartTier ==
  ASSUME TierInv, restart
  PROVE  TierInv'
<1> USE NvmeAssumption
<1>1. /\ region' = [e \in Experts |-> region_at_boot(e)]
      /\ slot_written' = [k \in Keys |-> region_at_boot(k[1]) # "none"]
      /\ pending' = Empty /\ inflight_keys' = {} /\ cancelled_writes' = Empty
      /\ num_inflight' = 0 /\ cq' = <<>> /\ heap' = {} /\ phase' = "run"
      /\ cancels' = FALSE /\ boots' = boots + 1 /\ boots < MaxBoots
      /\ UNCHANGED <<disk, file, next_token, sq>> /\ sq = {}
  BY DEF restart, Boot, TierInv, SubmittedTracked
<1>2. DOMAIN pending' = {} /\ DOMAIN cancelled_writes' = {}
  BY <1>1, EmptyFacts
<1>3. TierType'
  <2>1. /\ region' \in [Experts -> {"none", "own", "borrowed"}]
        /\ slot_written' \in [Keys -> BOOLEAN]
    BY <1>1 DEF region_at_boot
  <2>2. boots' \in 1 .. MaxBoots /\ cq' \in Seq(Cqe)
    BY <1>1 DEF TierInv, TierType
  <2>3. cancels' \in BOOLEAN /\ phase' \in Phases
    BY <1>1 DEF Phases
  <2>4. QED
    BY <1>1, <1>2, <2>1, <2>2, <2>3 DEF TierInv, TierType
<1>4. KeysExact' /\ TokensIssued'
  BY <1>1, <1>2 DEF KeysExact, TokensIssued
<1>5. SubmittedTracked' /\ HeapExact'
  BY <1>1, <1>2 DEF SubmittedTracked, HeapExact, Held
<1>6. QED
  BY <1>3, <1>4, <1>5 DEF TierInv

\* The spill: file and mapping, then an asynchronous or a synchronous write.
LEMMA WriteExpertTier ==
  ASSUME TierInv, NEW k \in Keys, write_expert(k)
  PROVE  TierInv'
<1>1. /\ phase = "run" /\ k \notin inflight_keys /\ k[1] \in Experts
      /\ UNCHANGED <<cancelled_writes, cq, cancels, phase, boots>>
  BY DEF write_expert, Keys
<1>2. /\ file' \subseteq Experts
      /\ region' \in [Experts -> {"none", "own", "borrowed"}]
  BY <1>1 DEF write_expert, ensure_mmap, TierInv, TierType
<1>3. CASE /\ Submit(k, TRUE) /\ heap' = heap \cup {next_token}
           /\ UNCHANGED <<disk, slot_written>>
  <2>1. heap' = IF TRUE THEN heap \cup {next_token} ELSE heap
    BY <1>3
  <2>2. QED
    BY <1>1, <1>2, <1>3, <2>1, SubmitTier
<1>4. CASE /\ write_expert_sync(k)
           /\ UNCHANGED <<pending, inflight_keys, num_inflight, next_token, sq, heap>>
  <2>1. /\ disk' \in [Keys -> {"zero", "torn", "whole"}]
        /\ slot_written' \in [Keys -> BOOLEAN]
    <3>1. CASE UNCHANGED <<disk, slot_written>>
      BY <3>1 DEF TierInv, TierType
    <3>2. CASE \E res \in {"whole", "short"} :
                 /\ Written(k, res)
                 /\ slot_written' = [slot_written EXCEPT ![k] = @ \/ res = "whole"]
      <4>1. PICK res \in {"whole", "short"} :
                 /\ Written(k, res)
                 /\ slot_written' = [slot_written EXCEPT ![k] = @ \/ res = "whole"]
        BY <3>2
      <4>2. (slot_written[k] \/ res = "whole") \in BOOLEAN
        OBVIOUS
      <4>3. slot_written' \in [Keys -> BOOLEAN]
        BY <4>1, <4>2 DEF TierInv, TierType
      <4>4. QED
        BY <4>1, <4>3, WrittenType
    <3>3. QED
      BY <1>4, <3>1, <3>2 DEF write_expert_sync
  <2>2. QED
    BY <1>1, <1>2, <1>4, <2>1, TierUnchanged DEF TierInv, TierType
<1>5. QED
  BY <1>3, <1>4 DEF write_expert

\* Every step keeps the tier's half.
LEMMA NextTier ==
  ASSUME TierInv, [Next]_vars
  PROVE  TierInv'
<1>1. ASSUME NEW k \in Keys, handle_nvme_read(k) PROVE TierInv'
  BY <1>1, TierUnchanged DEF handle_nvme_read, tier_vars, TierInv, TierType
<1>2. ASSUME NEW k \in Keys, handle_nvme_write(k) PROVE TierInv'
  <2>1. UNCHANGED <<disk, file, region, slot_written, cancelled_writes, cq, heap,
                    cancels, phase, boots>> /\ phase = "run"
    BY <1>2 DEF handle_nvme_write, Command
  <2>2. CASE Writable(k) /\ Submit(k, FALSE)
    <3>1. heap' = IF FALSE THEN heap \cup {next_token} ELSE heap
      BY <2>1
    <3>2. k \notin inflight_keys
      BY <2>2 DEF Writable
    <3>3. file' \subseteq Experts /\ region' \in [Experts -> {"none", "own", "borrowed"}]
      BY <2>1 DEF TierInv, TierType
    <3>4. QED
      BY <2>1, <2>2, <3>1, <3>2, <3>3, SubmitTier
  <2>3. CASE UNCHANGED <<pending, inflight_keys, num_inflight, next_token, sq>>
    BY <2>1, <2>3, TierUnchanged DEF TierInv, TierType
  <2>4. QED
    BY <1>2, <2>2, <2>3 DEF handle_nvme_write
<1>3. ASSUME handle_nvme_evict_host \/ orchestrator_read \/ shutdown PROVE TierInv'
  <2>1. /\ UNCHANGED <<disk, file, tier_vars, sq, cancels, boots>>
        /\ phase' \in Phases /\ (phase' = "off" <=> phase = "off")
    BY <1>3 DEF handle_nvme_evict_host, orchestrator_read, shutdown, TierInv, TierType,
                Phases
  <2>2. QED
    BY <2>1, TierUnchanged DEF tier_vars, TierInv, TierType
<1>4. ASSUME NEW s \in Seqs, handle_cancel_transfer(s) PROVE TierInv'
  <2>1. UNCHANGED <<disk, file, region, slot_written, num_inflight, next_token, cq,
                    phase, boots>> /\ phase = "run"
    BY <1>4 DEF handle_cancel_transfer, Command
  <2>2. CASE cancel(seq2tok[s])
    BY <2>1, <2>2, CancelTier
  <2>3. CASE UNCHANGED <<cancelled_writes, heap, inflight_keys, pending, sq, cancels>>
    BY <2>1, <2>3, TierUnchanged DEF TierInv, TierType
  <2>4. QED
    BY <1>4, <2>2, <2>3 DEF handle_cancel_transfer
<1>5. ASSUME NEW t \in Tokens, Kernel(t) PROVE TierInv'
  <2>1. PICK o \in sq :
          \/ \E res \in {"whole", "short", "error"} : kernel_write(o, res)
          \/ kernel_cancel(o)
    BY <1>5 DEF Kernel
  <2>2. QED
    BY <2>1, KernelWriteTier, KernelCancelTier
<1>6. ASSUME poll_nvme_completions PROVE TierInv'
  <2>1. /\ Reap(cq, {"whole"}) /\ cq' = <<>> /\ phase # "off"
        /\ UNCHANGED <<disk, file, region, next_token, sq, cancels, phase, boots>>
    BY <1>6 DEF poll_nvme_completions
  <2>2. cq \in Seq(Cqe) /\ cq' \in Seq(Cqe) /\ Len(cq') = 0
    BY <2>1 DEF TierInv, TierType
  <2>3. /\ \A i \in 1 .. Len(cq) : \E j \in 1 .. Len(cq) : cq[i] = cq[j]
        /\ \A i \in 1 .. Len(cq') : \E j \in 1 .. Len(cq) : cq'[i] = cq[j]
    BY <2>2
  <2>4. QED
    BY <2>1, <2>2, <2>3, ReapTier
<1>7. ASSUME drain PROVE TierInv'
  <2> DEFINE es == <<Head(cq)>>
  <2>1. /\ Reap(es, {"whole", "short"}) /\ cq' = Tail(cq) /\ cq # <<>> /\ phase # "off"
        /\ UNCHANGED <<disk, file, region, next_token, sq, cancels, phase, boots>>
    BY <1>7 DEF drain
  <2>2. /\ cq \in Seq(Cqe) /\ cq' \in Seq(Cqe)
        /\ Len(cq) \in Nat \ {0} /\ Len(cq') = Len(cq) - 1
        /\ \A i \in 1 .. Len(cq') : cq'[i] = cq[i + 1]
        /\ Head(cq) = cq[1] /\ Head(cq) \in Cqe
    BY <2>1 DEF TierInv, TierType
  <2>3. es \in Seq(Cqe) /\ Len(es) = 1 /\ es[1] = cq[1]
    BY <2>2
  <2> HIDE DEF es
  <2>4. /\ \A i \in 1 .. Len(es) : \E j \in 1 .. Len(cq) : es[i] = cq[j]
        /\ \A i \in 1 .. Len(cq') : \E j \in 1 .. Len(cq) : cq'[i] = cq[j]
    <3>1. \A i \in 1 .. Len(cq') : i + 1 \in 1 .. Len(cq)
      BY <2>2
    <3>2. \A i \in 1 .. Len(es) : i = 1 /\ 1 \in 1 .. Len(cq)
      BY <2>2, <2>3
    <3>3. QED
      BY <2>2, <2>3, <3>1, <3>2
  <2>5. QED
    BY <2>1, <2>2, <2>3, <2>4, ReapTier
<1>8. CASE UNCHANGED vars
  BY <1>8, TierUnchanged DEF vars, tier_vars, TierInv, TierType
<1>9. QED
  BY <1>1, <1>2, <1>3, <1>4, <1>5, <1>6, <1>7, <1>8, WriteExpertTier, StopTier,
     RestartTier DEF Next
-------------------------------------------------------------------------------
(* The dispatcher and the completion ring.                                    *)

LEMMA InitDisp == Init => DispInv
<1> SUFFICES ASSUME Init PROVE DispInv
  OBVIOUS
<1>1. DOMAIN tok2seq = {} /\ DOMAIN seq2tok = {} /\ accepted = {}
  BY EmptyFacts DEF Init
<1>2. /\ cmp_ring \in Seq(Seqs \cup {0}) /\ Len(cmp_ring) <= RingSize
      /\ next_seq \in 1 .. MaxSeqs + 1
  BY NvmeAssumption DEF Init
<1>3. QED
  BY <1>1, <1>2 DEF DispInv, DispType, AcceptedNotForgotten

\* Every element of a sequence is still in it after something was appended.
LEMMA AppendRange ==
  ASSUME NEW S, NEW q \in Seq(S), NEW v \in S
  PROVE  Range(q) \subseteq Range(Append(q, v))
BY DEF Range

\* What leaves a sequence with Tail is its head.
LEMMA TailRange ==
  ASSUME NEW S, NEW q \in Seq(S), q # <<>>
  PROVE  Range(q) \subseteq Range(Tail(q)) \cup {Head(q)}
<1> SUFFICES ASSUME NEW i \in 1 .. Len(q), i # 1 PROVE q[i] \in Range(Tail(q))
  BY DEF Range
<1>1. i - 1 \in 1 .. Len(Tail(q)) /\ Tail(q)[i - 1] = q[i]
  OBVIOUS
<1>2. DOMAIN Tail(q) = 1 .. Len(Tail(q))
  OBVIOUS
<1>3. QED
  BY <1>1, <1>2 DEF Range

\* A concatenation holds both sequences, one behind the other.
LEMMA ConcatFacts ==
  ASSUME NEW S, NEW q \in Seq(S), NEW r \in Seq(S)
  PROVE  /\ q \o r \in Seq(S) /\ Len(q \o r) = Len(q) + Len(r)
         /\ \A i \in 1 .. Len(q) : (q \o r)[i] = q[i]
         /\ \A i \in 1 .. Len(r) : (q \o r)[Len(q) + i] = r[i]
<1>1. q \o r \in Seq(S) /\ Len(q \o r) = Len(q) + Len(r)
  OBVIOUS
<1>2. \A i \in 1 .. Len(q) + Len(r) :
        (q \o r)[i] = IF i <= Len(q) THEN q[i] ELSE r[i - Len(q)]
  OBVIOUS
<1>3. QED
  BY <1>1, <1>2

\* A completion that finds the ring full is lost; none that is in it is.
LEMMA TryWriteDisp ==
  ASSUME DispType, NEW c \in Seqs \cup {0}, TryWrite(c)
  PROVE  /\ cmp_ring' \in Seq(Seqs \cup {0}) /\ Len(cmp_ring') <= RingSize
         /\ Range(cmp_ring) \subseteq Range(cmp_ring')
<1>1. CASE Len(cmp_ring) < RingSize
  <2>1. cmp_ring' = Append(cmp_ring, c)
    BY <1>1 DEF TryWrite
  <2>2. QED
    BY <1>1, <2>1, AppendRange, NvmeAssumption DEF DispType
<1>2. CASE ~(Len(cmp_ring) < RingSize)
  BY <1>2 DEF TryWrite, DispType
<1>3. QED
  BY <1>1, <1>2

\* The sequence number of a command.
LEMMA CommandSeq ==
  ASSUME DispType, Command
  PROVE  next_seq \in Seqs /\ next_seq' \in 1 .. MaxSeqs + 1 /\ phase = "run"
BY NvmeAssumption DEF Command, DispType, Seqs

\* Registering the token of a command makes the command one the dispatcher knows.
LEMMA RegisterDisp ==
  ASSUME DispInv, Command, NEW t \in Tokens \cup {0}, register_nvme_token(t, next_seq),
         accepted' = accepted \cup {next_seq}, cmp_ring' = cmp_ring
  PROVE  DispInv'
<1>1. next_seq \in Seqs /\ next_seq' \in 1 .. MaxSeqs + 1 /\ phase = "run"
  BY CommandSeq DEF DispInv
<1>2. /\ DOMAIN tok2seq' = DOMAIN tok2seq \cup {t} /\ tok2seq'[t] = next_seq
      /\ \A u \in DOMAIN tok2seq : u # t => tok2seq'[u] = tok2seq[u]
      /\ DOMAIN seq2tok' = DOMAIN seq2tok \cup {next_seq}
  BY DEF register_nvme_token, Bind
<1>3. DispType'
  BY <1>1, <1>2 DEF DispInv, DispType
<1>4. AcceptedNotForgotten'
  BY <1>1, <1>2 DEF DispInv, AcceptedNotForgotten
<1>5. QED
  BY <1>3, <1>4 DEF DispInv

\* An immediate answer changes the ring only.
LEMMA AnswerDisp ==
  ASSUME DispInv, Command, TryWrite(next_seq), UNCHANGED <<tok2seq, seq2tok, accepted>>
  PROVE  DispInv'
<1>1. next_seq \in Seqs /\ next_seq' \in 1 .. MaxSeqs + 1 /\ phase = "run"
  BY CommandSeq DEF DispInv
<1>2. /\ cmp_ring' \in Seq(Seqs \cup {0}) /\ Len(cmp_ring') <= RingSize
      /\ Range(cmp_ring) \subseteq Range(cmp_ring')
  BY <1>1, TryWriteDisp DEF DispInv
<1>3. QED
  BY <1>1, <1>2 DEF DispInv, DispType, AcceptedNotForgotten

\* The cancelled command leaves the tables and stops being waited for.
LEMMA CancelDisp ==
  ASSUME DispInv, NEW target \in Seqs, handle_cancel_transfer(target)
  PROVE  DispInv'
<1>1. Command /\ TryWrite(next_seq) /\ phase' = phase
  BY DEF handle_cancel_transfer
<1>2. next_seq \in Seqs /\ next_seq' \in 1 .. MaxSeqs + 1 /\ phase = "run"
  BY <1>1, CommandSeq DEF DispInv
<1>3. /\ cmp_ring' \in Seq(Seqs \cup {0}) /\ Len(cmp_ring') <= RingSize
      /\ Range(cmp_ring) \subseteq Range(cmp_ring')
  BY <1>1, <1>2, TryWriteDisp DEF DispInv
<1>4. CASE UNCHANGED <<tok2seq, seq2tok, accepted>>
  BY <1>1, <1>4, AnswerDisp
<1>5. CASE /\ tok2seq' = Drop(tok2seq, {seq2tok[target]})
           /\ seq2tok' = Drop(seq2tok, {target}) /\ accepted' = accepted \ {target}
  <2>1. /\ DOMAIN tok2seq' = DOMAIN tok2seq \ {seq2tok[target]}
        /\ \A u \in DOMAIN tok2seq' : tok2seq'[u] = tok2seq[u]
        /\ DOMAIN seq2tok' = DOMAIN seq2tok \ {target}
    BY <1>5 DEF Drop
  <2>2. DispType'
    BY <1>2, <1>3, <1>5, <2>1 DEF DispInv, DispType
  <2>3. AcceptedNotForgotten'
    BY <1>2, <1>3, <1>5, <2>1 DEF DispInv, AcceptedNotForgotten
  <2>4. QED
    BY <2>2, <2>3 DEF DispInv
<1>6. QED
  BY <1>4, <1>5 DEF handle_cancel_transfer

\* The poll forgets the token of a command only with the answer in the ring.
LEMMA CompletionsDisp ==
  ASSUME DispInv, phase = "run", NEW done, Len(done) \in Nat,
         write_nvme_completions(done), UNCHANGED <<next_seq, accepted, phase>>
  PROVE  DispInv'
<1> DEFINE n == IF Len(done) <= RingSize - Len(cmp_ring) THEN Len(done)
                ELSE RingSize - Len(cmp_ring)
           sent == {done[i].token : i \in 1 .. n} \cap DOMAIN tok2seq
           answers == [i \in 1 .. n |-> resolve_nvme_cmd_seq(done[i].token)]
<1>1. /\ cmp_ring' = cmp_ring \o answers
      /\ seq2tok' = Drop(seq2tok, {tok2seq[t] : t \in sent})
      /\ tok2seq' = Drop(tok2seq, sent)
  BY DEF write_nvme_completions
<1>2. n \in Nat /\ Len(cmp_ring) \in Nat /\ Len(cmp_ring) + n <= RingSize
  BY NvmeAssumption DEF DispInv, DispType
<1> HIDE DEF n
<1>3. \A i \in 1 .. n : resolve_nvme_cmd_seq(done[i].token) \in Seqs \cup {0}
  BY DEF DispInv, DispType, resolve_nvme_cmd_seq
<1>4. answers \in Seq(Seqs \cup {0}) /\ Len(answers) = n
  BY <1>2, <1>3
<1>5. \A i \in 1 .. n : answers[i] = resolve_nvme_cmd_seq(done[i].token)
  OBVIOUS
<1> HIDE DEF answers
<1>6. /\ cmp_ring' \in Seq(Seqs \cup {0}) /\ Len(cmp_ring') = Len(cmp_ring) + n
      /\ \A i \in 1 .. Len(cmp_ring) : cmp_ring'[i] = cmp_ring[i]
      /\ \A i \in 1 .. n : cmp_ring'[Len(cmp_ring) + i] = answers[i]
  <2> DEFINE S == Seqs \cup {0}
  <2>1. cmp_ring \in Seq(S) /\ answers \in Seq(S)
    BY <1>4 DEF DispInv, DispType
  <2> HIDE DEF S
  <2>2. /\ cmp_ring \o answers \in Seq(S)
        /\ Len(cmp_ring \o answers) = Len(cmp_ring) + Len(answers)
        /\ \A i \in 1 .. Len(cmp_ring) : (cmp_ring \o answers)[i] = cmp_ring[i]
        /\ \A i \in 1 .. Len(answers) :
             (cmp_ring \o answers)[Len(cmp_ring) + i] = answers[i]
    BY <2>1, ConcatFacts
  <2>3. QED
    BY <1>1, <1>4, <2>2, Zenon DEF S
<1>7. Range(cmp_ring) \subseteq Range(cmp_ring')
  <2>1. /\ DOMAIN cmp_ring = 1 .. Len(cmp_ring) /\ DOMAIN cmp_ring' = 1 .. Len(cmp_ring')
        /\ 1 .. Len(cmp_ring) \subseteq 1 .. Len(cmp_ring')
    BY <1>2, <1>6 DEF DispInv, DispType
  <2>2. QED
    BY <1>6, <2>1 DEF Range
<1>8. \A t \in sent : tok2seq[t] \in Range(cmp_ring')
  <2> TAKE t \in sent
  <2>1. PICK i \in 1 .. n : t = done[i].token
    OBVIOUS
  <2>2. answers[i] = tok2seq[t]
    BY <1>5, <2>1 DEF resolve_nvme_cmd_seq
  <2>3. Len(cmp_ring) + i \in DOMAIN cmp_ring'
    BY <1>2, <1>6
  <2>4. QED
    BY <1>6, <2>2, <2>3 DEF Range
<1> HIDE DEF sent
<1>9. /\ DOMAIN tok2seq' = DOMAIN tok2seq \ sent
      /\ \A u \in DOMAIN tok2seq' : tok2seq'[u] = tok2seq[u]
      /\ DOMAIN seq2tok' = DOMAIN seq2tok \ {tok2seq[t] : t \in sent}
  BY <1>1 DEF Drop
<1>10. DispType'
  BY <1>2, <1>6, <1>9 DEF DispInv, DispType
<1>11. AcceptedNotForgotten'
  BY <1>7, <1>8, <1>9 DEF DispInv, AcceptedNotForgotten
<1>12. QED
  BY <1>10, <1>11 DEF DispInv

LEMMA OrchestratorDisp ==
  ASSUME DispInv, orchestrator_read
  PROVE  DispInv'
<1>1. /\ cmp_ring # <<>> /\ cmp_ring' = Tail(cmp_ring)
      /\ accepted' = accepted \ {Head(cmp_ring)}
      /\ UNCHANGED <<tok2seq, seq2tok, next_seq, phase>>
  BY DEF orchestrator_read
<1>2. Range(cmp_ring) \subseteq Range(cmp_ring') \cup {Head(cmp_ring)}
  BY <1>1, TailRange DEF DispInv, DispType
<1>3. cmp_ring' \in Seq(Seqs \cup {0}) /\ Len(cmp_ring') <= RingSize
  BY <1>1, NvmeAssumption DEF DispInv, DispType
<1>4. DispType'
  BY <1>1, <1>3 DEF DispInv, DispType
<1>5. AcceptedNotForgotten'
  BY <1>1, <1>2 DEF DispInv, AcceptedNotForgotten
<1>6. QED
  BY <1>4, <1>5 DEF DispInv

LEMMA RestartDisp ==
  ASSUME DispInv, restart
  PROVE  DispInv'
<1>1. /\ tok2seq' = Empty /\ seq2tok' = Empty /\ cmp_ring' = <<>> /\ accepted' = {}
      /\ next_seq' = next_seq
  BY DEF restart, Boot
<1>2. DOMAIN tok2seq' = {} /\ DOMAIN seq2tok' = {}
  BY <1>1, EmptyFacts
<1>3. cmp_ring' \in Seq(Seqs \cup {0}) /\ Len(cmp_ring') <= RingSize
  BY <1>1, NvmeAssumption
<1>4. QED
  BY <1>1, <1>2, <1>3 DEF DispInv, DispType, AcceptedNotForgotten

\* The dispatcher's half is not touched, whatever the phase becomes.
LEMMA DispUnchanged ==
  ASSUME DispInv, UNCHANGED disp_vars, phase' = "run" => phase = "run"
  PROVE  DispInv'
BY DEF DispInv, DispType, AcceptedNotForgotten, disp_vars

\* Every step keeps the dispatcher's half.
LEMMA NextDisp ==
  ASSUME NvmeInv, [Next]_vars
  PROVE  DispInv'
<1>1. DispInv /\ next_token \in Nat
  BY NvmeAssumption DEF NvmeInv, TierInv, TierType
<1>2. ASSUME NEW k \in Keys, handle_nvme_read(k) PROVE DispInv'
  BY <1>1, <1>2, RegisterDisp, AnswerDisp DEF handle_nvme_read
<1>3. ASSUME NEW k \in Keys, handle_nvme_write(k) PROVE DispInv'
  <2>1. CASE Submit(k, FALSE) /\ register_nvme_token(next_token, next_seq) /\
             accepted' = accepted \cup {next_seq} /\ UNCHANGED cmp_ring
    <3>1. next_token \in Tokens \cup {0} /\ Command
      BY <1>3, <2>1 DEF Submit, handle_nvme_write
    <3>2. QED
      BY <1>1, <2>1, <3>1, RegisterDisp
  <2>2. CASE TryWrite(next_seq) /\ UNCHANGED <<tok2seq, seq2tok, accepted>>
    BY <1>1, <1>3, <2>2, AnswerDisp DEF handle_nvme_write
  <2>3. QED
    BY <1>3, <2>1, <2>2 DEF handle_nvme_write
<1>4. ASSUME handle_nvme_evict_host PROVE DispInv'
  BY <1>1, <1>4, AnswerDisp DEF handle_nvme_evict_host
<1>5. ASSUME NEW k \in Keys, write_expert(k) PROVE DispInv'
  BY <1>1, <1>5, DispUnchanged DEF write_expert
<1>6. ASSUME NEW t \in Tokens, Kernel(t) PROVE DispInv'
  BY <1>1, <1>6, DispUnchanged DEF Kernel, kernel_write, kernel_cancel
<1>7. ASSUME poll_nvme_completions PROVE DispInv'
  <2> DEFINE done == SelectSeq(cq, LAMBDA c : c.token \in DOMAIN pending)
  <2>1. /\ write_nvme_completions(done) /\ phase = "run"
        /\ UNCHANGED <<next_seq, accepted, phase>>
    BY <1>7 DEF poll_nvme_completions
  <2>2. Len(done) \in Nat
    BY DEF NvmeInv, TierInv, TierType
  <2> HIDE DEF done
  <2>3. QED
    BY <1>1, <2>1, <2>2, CompletionsDisp
<1>8. ASSUME shutdown \/ drain \/ drained \/ killed PROVE DispInv'
  BY <1>1, <1>8, DispUnchanged DEF shutdown, drain, drained, killed
<1>9. CASE UNCHANGED vars
  BY <1>1, <1>9, DispUnchanged DEF vars, disp_vars
<1>10. QED
  BY <1>1, <1>2, <1>3, <1>4, <1>5, <1>6, <1>7, <1>8, <1>9, CancelDisp,
     OrchestratorDisp, RestartDisp DEF Next
-------------------------------------------------------------------------------
(* The theorems.                                                              *)

\* The strengthened invariant holds in every reachable state.
LEMMA NvmeSafety == Spec => []NvmeInv
<1>1. Init => NvmeInv
  BY InitTier, InitDisp DEF NvmeInv
<1>2. NvmeInv /\ [Next]_vars => NvmeInv'
  BY NextTier, NextDisp DEF NvmeInv
<1>3. QED
  BY <1>1, <1>2, PTL DEF Spec

\* A buffer given to the tier is allocated while the kernel may read it, and the
\* allocated buffers are always those some table entry will free: through good,
\* short and failed completions, cancellations that win or lose the race with
\* their write, the drain of the destructor, kills and restarts.
THEOREM BufferLifetimeHolds == Spec => []BufferLifetime
BY NvmeSafety, NvmeInvParts, PTL

\* inflight_keys_ is exactly the keys of pending_ and no key is written twice at a
\* time, with the types of all the state.
THEOREM InflightExactHolds == Spec => []InflightExact
BY NvmeSafety, NvmeInvParts, PTL

\* A command that got a token keeps it or has its answer in the ring until it is
\* cancelled, also when a full ring drops completions.
THEOREM AcceptedNotForgottenHolds == Spec => []AcceptedNotForgotten
BY NvmeSafety, NvmeInvParts, PTL
===============================================================================
