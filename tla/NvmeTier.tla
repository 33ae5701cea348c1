------------------------------- MODULE NvmeTier -------------------------------
(***************************************************************************)
(* The NVMe tier of one drive (core/memory/nvme_tier.cpp), the commands of  *)
(* the dispatcher that use it and the part of the daemon loop that reports  *)
(* its completions.  An expert has one file with a slot per layer; a spill   *)
(* writes a slot through io_uring, a read is a look at the mapping.          *)
(*                                                                         *)
(* The daemon is one thread: a command or a poll is one step.  Beside it the *)
(* kernel executes what was submitted and the orchestrator reads the        *)
(* completion ring.  The daemon may be killed anywhere; files survive.       *)
(***************************************************************************)
EXTENDS Integers, Sequences, FiniteSets, SequencesExt

CONSTANTS Experts,      \* expert indices whose files live on this drive
          Layers,       \* MoE layers: the slots of a file
          Borrowed,     \* experts mapped by the prepacked source
          QueueDepth,   \* opts_.queue_depth
          RingSize,     \* slots of the completion ring
          MaxTokens,    \* bound: writes submitted in one behaviour
          MaxSeqs,      \* bound: commands sent in one behaviour
          MaxBoots      \* bound: starts of the daemon

ASSUME NvmeAssumption ==
  /\ Borrowed \subseteq Experts
  /\ QueueDepth \in Nat \ {0} /\ RingSize \in Nat \ {0}
  /\ MaxTokens \in Nat /\ MaxSeqs \in Nat /\ MaxBoots \in Nat \ {0}

Keys   == Experts \X Layers
Tokens == 1 .. MaxTokens
Seqs   == 1 .. MaxSeqs

VARIABLES
  disk,              \* content of a slot: "zero", "torn" or "whole"
  file,              \* experts whose file exists, pre-sized for every layer
  region,            \* mmap_regions_: "none", "own" or "borrowed"
  slot_written,      \* slot_written_
  pending,           \* pending_: token -> [key, owned]
  inflight_keys,     \* keys of inflight_keys_
  cancelled_writes,  \* cancelled_writes_: token -> owned
  num_inflight,      \* DriveState::num_inflight
  next_token,
  sq,                \* submitted to the kernel, not completed
  cq,                \* completion queue of the kernel
  heap,              \* tokens whose owned buffer is allocated
  tok2seq,           \* nvme_token_to_cmd_seq_
  seq2tok,           \* cmd_seq_to_token_
  cmp_ring,          \* completions the orchestrator has not read
  next_seq,
  accepted,          \* commands that got a token and no answer was read
  cancels,           \* some write was cancelled since the start
  phase,             \* "run", "drain" (destructor) or "off"
  boots

tier_vars  == <<region, slot_written, pending, inflight_keys, cancelled_writes,
                num_inflight, next_token, cq, heap>>
disp_vars  == <<tok2seq, seq2tok, cmp_ring, next_seq, accepted>>
vars == <<disk, file, tier_vars, sq, disp_vars, cancels, phase, boots>>

Empty == [x \in {} |-> 0]
Drop(f, S) == [x \in DOMAIN f \ S |-> f[x]]
Bind(f, x, v) == [y \in DOMAIN f \cup {x} |-> IF y = x THEN v ELSE f[y]]

TypeOK ==
  /\ disk \in [Keys -> {"zero", "torn", "whole"}] /\ file \subseteq Experts
  /\ region \in [Experts -> {"none", "own", "borrowed"}]
  /\ slot_written \in [Keys -> BOOLEAN]
  /\ DOMAIN pending \subseteq Tokens /\ inflight_keys \subseteq Keys
  /\ DOMAIN cancelled_writes \subseteq Tokens /\ num_inflight \in Int
  /\ next_token \in 1 .. MaxTokens + 1 /\ heap \subseteq Tokens
  /\ DOMAIN tok2seq \subseteq Tokens \cup {0} /\ DOMAIN seq2tok \subseteq Seqs
  /\ Len(cmp_ring) <= RingSize /\ next_seq \in 1 .. MaxSeqs + 1
  /\ accepted \subseteq Seqs /\ cancels \in BOOLEAN
  /\ phase \in {"run", "drain", "off"} /\ boots \in 1 .. MaxBoots
-------------------------------------------------------------------------------
(* Start: the constructor scans the drive, the engine attaches the prepacked  *)
(* source.  Every slot of a file that is found counts as written.             *)

scanned(e)  == e \in file
region_at_boot(e) == IF scanned(e) THEN "own"
                     ELSE IF e \in Borrowed THEN "borrowed" ELSE "none"

Boot ==
  /\ region' = [e \in Experts |-> region_at_boot(e)]
  /\ slot_written' = [k \in Keys |-> region_at_boot(k[1]) # "none"]
  /\ pending' = Empty /\ inflight_keys' = {} /\ cancelled_writes' = Empty
  /\ num_inflight' = 0 /\ cq' = <<>> /\ heap' = {}
  /\ tok2seq' = Empty /\ seq2tok' = Empty /\ cmp_ring' = <<>> /\ accepted' = {}
  /\ phase' = "run"

Init ==
  /\ disk = [k \in Keys |-> IF k[1] \in Borrowed THEN "whole" ELSE "zero"]
  /\ file = {}
  /\ region = [e \in Experts |-> region_at_boot(e)]
  /\ slot_written = [k \in Keys |-> region_at_boot(k[1]) # "none"]
  /\ pending = Empty /\ inflight_keys = {} /\ cancelled_writes = Empty
  /\ num_inflight = 0 /\ next_token = 1 /\ sq = {} /\ cq = <<>> /\ heap = {}
  /\ tok2seq = Empty /\ seq2tok = Empty /\ cmp_ring = <<>> /\ next_seq = 1
  /\ accepted = {} /\ cancels = FALSE /\ phase = "run" /\ boots = 1
-------------------------------------------------------------------------------
(* Completions of the dispatcher and the loop: a full ring loses them.        *)

\* try_write of one completion; c is the cmd_seq it answers, 0 for nobody.
TryWrite(c) ==
  cmp_ring' = IF Len(cmp_ring) < RingSize THEN Append(cmp_ring, c) ELSE cmp_ring

register_nvme_token(t, s) ==
  /\ tok2seq' = Bind(tok2seq, t, s)
  /\ seq2tok' = Bind(seq2tok, s, t)

host_ptr(k) == region[k[1]] # "none" /\ slot_written[k]

\* Mutant: the submitted write is not counted.
SubmitUncounted(k, owned) ==
  /\ next_token \in Tokens
  /\ next_token' = next_token + 1
  /\ sq' = sq \cup {[op |-> "write", token |-> next_token, key |-> k, owned |-> owned]}
  /\ pending' = Bind(pending, next_token, [key |-> k, owned |-> owned])
  /\ inflight_keys' = inflight_keys \cup {k}
  /\ UNCHANGED num_inflight

\* What an accepted asynchronous write changes; owned tells the two overloads.
Submit(k, owned) ==
  /\ next_token \in Tokens
  /\ next_token' = next_token + 1
  /\ sq' = sq \cup {[op |-> "write", token |-> next_token, key |-> k, owned |-> owned]}
  /\ pending' = Bind(pending, next_token, [key |-> k, owned |-> owned])
  /\ inflight_keys' = inflight_keys \cup {k}
  /\ num_inflight' = num_inflight + 1

\* The non-owning overload takes a write only with all of these.
Writable(k) ==
  k \notin inflight_keys /\ num_inflight < QueueDepth /\ region[k[1]] = "own"
-------------------------------------------------------------------------------
(* Commands.  Each takes the next cmd_seq.                                    *)

Command == phase = "run" /\ next_seq \in Seqs /\ next_seq' = next_seq + 1

\* CMD_NVME_READ, CMD_STAGE_EXPERT and one entry of CMD_NVME_BATCH_READ: data in
\* the mapping is an immediate token 0, which is registered like any other.
handle_nvme_read(k) ==
  /\ Command
  /\ \/ /\ host_ptr(k)
        /\ register_nvme_token(0, next_seq)
        /\ accepted' = accepted \cup {next_seq}
        /\ UNCHANGED cmp_ring
     \/ /\ ~host_ptr(k)
        /\ TryWrite(next_seq)
        /\ UNCHANGED <<tok2seq, seq2tok, accepted>>
  /\ UNCHANGED <<disk, file, tier_vars, sq, cancels, phase, boots>>

handle_nvme_write(k) ==
  /\ Command
  /\ \/ /\ host_ptr(k) /\ Writable(k)
        /\ Submit(k, FALSE)
        /\ register_nvme_token(next_token, next_seq)
        /\ accepted' = accepted \cup {next_seq}
        /\ UNCHANGED cmp_ring
     \/ /\ ~(host_ptr(k) /\ Writable(k))
        /\ TryWrite(next_seq)
        /\ UNCHANGED <<pending, inflight_keys, num_inflight, next_token, sq,
                       tok2seq, seq2tok, accepted>>
  /\ UNCHANGED <<disk, file, region, slot_written, cancelled_writes, cq, heap,
                 cancels, phase, boots>>

\* The mapping lives as long as the process: there is nothing to discard.
handle_nvme_evict_host ==
  /\ Command
  /\ TryWrite(next_seq)
  /\ UNCHANGED <<disk, file, tier_vars, sq, tok2seq, seq2tok, accepted, cancels,
                 phase, boots>>

\* Mutant: the key of a cancelled write stays in flight.
cancel_keeps_key(t) ==
  IF t \in DOMAIN pending
  THEN /\ cancelled_writes' = Bind(cancelled_writes, t, pending[t].owned)
       /\ pending' = Drop(pending, {t})
       /\ sq' = sq \cup {[op |-> "cancel", token |-> t]}
       /\ cancels' = TRUE
       /\ UNCHANGED <<heap, inflight_keys>>
  ELSE UNCHANGED <<cancelled_writes, heap, inflight_keys, pending, sq, cancels>>

\* NvmeTier::cancel: the entry is forgotten, the buffer waits for the kernel,
\* and a cancellation is submitted whose own completion carries token 0.
cancel(t) ==
  IF t \in DOMAIN pending
  THEN /\ cancelled_writes' = Bind(cancelled_writes, t, pending[t].owned)
       /\ inflight_keys' = inflight_keys \ {pending[t].key}
       /\ pending' = Drop(pending, {t})
       /\ sq' = sq \cup {[op |-> "cancel", token |-> t]}
       /\ cancels' = TRUE
       /\ UNCHANGED heap
  ELSE UNCHANGED <<cancelled_writes, heap, inflight_keys, pending, sq, cancels>>

handle_cancel_transfer(target) ==
  /\ Command
  /\ \/ /\ target \in DOMAIN seq2tok
        /\ cancel(seq2tok[target])
        /\ tok2seq' = Drop(tok2seq, {seq2tok[target]})
        /\ seq2tok' = Drop(seq2tok, {target})
        /\ accepted' = accepted \ {target}
     \/ /\ target \notin DOMAIN seq2tok
        /\ UNCHANGED <<cancelled_writes, heap, inflight_keys, pending, sq, cancels,
                       tok2seq, seq2tok, accepted>>
  /\ TryWrite(next_seq)
  /\ UNCHANGED <<disk, file, region, slot_written, num_inflight, next_token, cq,
                 phase, boots>>
-------------------------------------------------------------------------------
(* Spill: the owning overload, called when the copy of an expert to host      *)
(* memory is done.  Its token is not registered: nobody waits for it.         *)

Written(k, res) ==
  disk' = [disk EXCEPT ![k] = IF res = "whole" THEN "whole"
                              ELSE IF @ = "whole" THEN @ ELSE "torn"]

\* ensure_mmap creates the file with room for every layer; it may fail.
ensure_mmap(e) ==
  IF region[e] # "none" THEN UNCHANGED <<region, file>>
  ELSE \/ /\ region' = [region EXCEPT ![e] = "own"]
          /\ file' = file \cup {e}
       \/ UNCHANGED <<region, file>>

write_expert_sync(k) ==
  \/ /\ region'[k[1]] = "own"
     /\ \E res \in {"whole", "short"} :
          /\ Written(k, res)
          /\ slot_written' = [slot_written EXCEPT ![k] = @ \/ res = "whole"]
  \/ region'[k[1]] # "own" /\ UNCHANGED <<disk, slot_written>>

write_expert(k) ==
  /\ phase = "run" /\ k \notin inflight_keys
  /\ ensure_mmap(k[1])
  /\ \/ /\ num_inflight < QueueDepth /\ region'[k[1]] = "own"
        /\ Submit(k, TRUE)
        /\ heap' = heap \cup {next_token}
        /\ UNCHANGED <<disk, slot_written>>
     \/ /\ ~(num_inflight < QueueDepth /\ region'[k[1]] = "own")
        /\ write_expert_sync(k)
        /\ UNCHANGED <<pending, inflight_keys, num_inflight, next_token, sq, heap>>
  /\ UNCHANGED <<cancelled_writes, cq, disp_vars, cancels, phase, boots>>
-------------------------------------------------------------------------------
(* The kernel and the orchestrator.                                           *)

\* A write from the mapping onto itself changes nothing.
kernel_write(o, res) ==
  /\ o \in sq /\ o.op = "write" /\ phase # "off"
  /\ sq' = sq \ {o}
  /\ cq' = Append(cq, [token |-> o.token, res |-> res])
  /\ IF o.owned /\ res # "error" THEN Written(o.key, res) ELSE UNCHANGED disk
  /\ UNCHANGED <<file, region, slot_written, pending, inflight_keys,
                 cancelled_writes, num_inflight, next_token, heap, disp_vars,
                 cancels, phase, boots>>

\* The cancellation completes; it stops the write or comes too late for it.
kernel_cancel(o) ==
  /\ o \in sq /\ o.op = "cancel" /\ phase # "off"
  /\ LET w == {x \in sq : x.op = "write" /\ x.token = o.token}
     IN \/ /\ w # {}
           /\ sq' = sq \ (w \cup {o})
           /\ cq' = cq \o <<[token |-> o.token, res |-> "error"],
                            [token |-> 0, res |-> "whole"]>>
        \/ /\ sq' = sq \ {o}
           /\ cq' = Append(cq, [token |-> 0, res |-> "error"])
  /\ UNCHANGED <<disk, file, region, slot_written, pending, inflight_keys,
                 cancelled_writes, num_inflight, next_token, heap, disp_vars,
                 cancels, phase, boots>>

orchestrator_read ==
  /\ cmp_ring # <<>>
  /\ cmp_ring' = Tail(cmp_ring)
  /\ accepted' = accepted \ {Head(cmp_ring)}
  /\ UNCHANGED <<disk, file, tier_vars, sq, tok2seq, seq2tok, next_seq, cancels,
                 phase, boots>>
-------------------------------------------------------------------------------
(* The poll of the loop: all completions of a drive with something in flight. *)

resolve_nvme_cmd_seq(t) == IF t \in DOMAIN tok2seq THEN tok2seq[t] ELSE 0

\* Mutant: the mapping is removed although the completion was dropped.
write_nvme_completions_forget(done) ==
  LET n == IF Len(done) <= RingSize - Len(cmp_ring) THEN Len(done)
           ELSE RingSize - Len(cmp_ring)
      sent == {done[i].token : i \in 1 .. Len(done)} \cap DOMAIN tok2seq
  IN /\ cmp_ring' = cmp_ring \o [i \in 1 .. n |-> resolve_nvme_cmd_seq(done[i].token)]
     /\ seq2tok' = Drop(seq2tok, {tok2seq[t] : t \in sent})
     /\ tok2seq' = Drop(tok2seq, sent)

\* In order into the ring; the mapping of a token goes only with its completion.
write_nvme_completions(done) ==
  LET n == IF Len(done) <= RingSize - Len(cmp_ring) THEN Len(done)
           ELSE RingSize - Len(cmp_ring)
      sent == {done[i].token : i \in 1 .. n} \cap DOMAIN tok2seq
  IN /\ cmp_ring' = cmp_ring \o [i \in 1 .. n |-> resolve_nvme_cmd_seq(done[i].token)]
     /\ seq2tok' = Drop(seq2tok, {tok2seq[t] : t \in sent})
     /\ tok2seq' = Drop(tok2seq, sent)

\* Mutant: a write that failed keeps its buffer.
Reap_frees_good(es, good) ==
  LET toks == {es[i].token : i \in 1 .. Len(es)}
      mine == toks \cap DOMAIN pending
      full == {pending[t].key : t \in {u \in mine :
                 \E i \in 1 .. Len(es) : es[i].token = u /\ es[i].res \in good}}
  IN /\ slot_written' = [k \in Keys |-> slot_written[k] \/ k \in full]
     /\ heap' = heap \ ({t \in mine : pending[t].owned /\ pending[t].key \in full} \cup
                        {t \in toks \cap DOMAIN cancelled_writes : cancelled_writes[t]})
     /\ inflight_keys' = inflight_keys \ {pending[t].key : t \in mine}
     /\ pending' = Drop(pending, mine)
     /\ cancelled_writes' = Drop(cancelled_writes, toks)
     /\ num_inflight' = num_inflight - Len(es)

\* Effect of reaping the entries es of the completion queue: good is the set of
\* results after which the slot counts as written.
Reap(es, good) ==
  LET toks == {es[i].token : i \in 1 .. Len(es)}
      mine == toks \cap DOMAIN pending
      full == {pending[t].key : t \in {u \in mine :
                 \E i \in 1 .. Len(es) : es[i].token = u /\ es[i].res \in good}}
  IN /\ slot_written' = [k \in Keys |-> slot_written[k] \/ k \in full]
     /\ heap' = heap \ ({t \in mine : pending[t].owned} \cup
                        {t \in toks \cap DOMAIN cancelled_writes : cancelled_writes[t]})
     /\ inflight_keys' = inflight_keys \ {pending[t].key : t \in mine}
     /\ pending' = Drop(pending, mine)
     /\ cancelled_writes' = Drop(cancelled_writes, toks)
     /\ num_inflight' = num_inflight - Len(es)

poll_nvme_completions ==
  /\ phase = "run" /\ num_inflight # 0 /\ cq # <<>>
  /\ Reap(cq, {"whole"})
  /\ write_nvme_completions(SelectSeq(cq, LAMBDA c : c.token \in DOMAIN pending))
  /\ cq' = <<>>
  /\ UNCHANGED <<disk, file, region, next_token, sq, next_seq, accepted, cancels,
                 phase, boots>>
-------------------------------------------------------------------------------
(* Shutdown, death and restart.                                               *)

shutdown ==
  /\ phase = "run" /\ phase' = "drain"
  /\ UNCHANGED <<disk, file, tier_vars, sq, disp_vars, cancels, boots>>

\* NvmeTier::drain, one completion: here a short write counts as written.
drain ==
  /\ phase = "drain" /\ num_inflight # 0 /\ cq # <<>>
  /\ Reap(<<Head(cq)>>, {"whole", "short"})
  /\ cq' = Tail(cq)
  /\ UNCHANGED <<disk, file, region, next_token, sq, disp_vars, cancels, phase, boots>>

drained ==
  /\ phase = "drain" /\ DOMAIN pending = {} /\ DOMAIN cancelled_writes = {}
  /\ phase' = "off" /\ sq' = {}
  /\ UNCHANGED <<disk, file, tier_vars, disp_vars, cancels, boots>>

\* The process dies; what was submitted may be written wholly, partly or not.
killed ==
  /\ phase # "off" /\ phase' = "off"
  /\ LET hit == {o.key : o \in {x \in sq : x.op = "write" /\ x.owned}}
     IN \E after \in [hit -> {"whole", "torn", "none"}] :
          disk' = [k \in Keys |->
                     IF k \notin hit \/ disk[k] = "whole" THEN disk[k]
                     ELSE IF after[k] = "none" THEN disk[k] ELSE after[k]]
  /\ sq' = {}
  /\ UNCHANGED <<file, tier_vars, disp_vars, cancels, boots>>

restart ==
  /\ phase = "off" /\ boots < MaxBoots /\ boots' = boots + 1
  /\ Boot
  /\ cancels' = FALSE
  /\ UNCHANGED <<disk, file, next_token, sq, next_seq>>
-------------------------------------------------------------------------------
Kernel(t) == \E o \in {x \in sq : x.token = t} :
               \/ o.op = "write" /\ \E res \in {"whole", "short", "error"} : kernel_write(o, res)
               \/ o.op = "cancel" /\ kernel_cancel(o)

Next ==
  \/ \E k \in Keys : handle_nvme_read(k)
  \/ \E k \in Keys : handle_nvme_write(k)
  \/ handle_nvme_evict_host
  \/ \E s \in Seqs : handle_cancel_transfer(s)
  \/ \E k \in Keys : write_expert(k)
  \/ \E t \in Tokens : Kernel(t)
  \/ orchestrator_read
  \/ poll_nvme_completions
  \/ shutdown \/ drain \/ drained \/ killed \/ restart

Spec == Init /\ [][Next]_vars

\* The loop polls in every cycle, drain loops until it is done, and the kernel
\* completes what was submitted.
Fairness ==
  /\ WF_vars(poll_nvme_completions) /\ WF_vars(drain)
  /\ \A t \in Tokens : WF_vars(Kernel(t))

FairSpec == Spec /\ Fairness
-------------------------------------------------------------------------------
Held == {t \in DOMAIN pending : pending[t].owned} \cup
        {t \in DOMAIN cancelled_writes : cancelled_writes[t]}
Reading == {o.token : o \in {x \in sq : x.op = "write" /\ x.owned}}

\* A buffer handed to the tier stays allocated while the kernel may read it, and a
\* buffer that is allocated is some entry's to free: neither a completion, good or bad,
\* nor a cancel nor the drain of the destructor frees it early or loses track of it.
BufferLifetime == phase # "off" => Reading \subseteq heap /\ heap = Held

\* At most one write per expert and layer is tracked, and inflight_keys_ names
\* exactly the tracked ones: a cancelled, failed or completed write neither
\* blocks the next one nor lets two run as current.
InflightExact ==
  /\ TypeOK
  /\ inflight_keys = {pending[t].key : t \in DOMAIN pending}
  /\ \A t, u \in DOMAIN pending : pending[t].key = pending[u].key => t = u

\* A command that got a token is never forgotten: until it is cancelled its
\* answer is in the ring or the dispatcher still has its token, so that a
\* completion dropped by a full ring leaves a command that can be cancelled.
AcceptedNotForgotten ==
  phase = "run" => \A s \in accepted : s \in DOMAIN seq2tok \/ s \in Range(cmp_ring)

\* As long as no write is cancelled, every write the tier took is reaped by a
\* poll, by the drain of the destructor, or ends with the process, also while other
\* writes of the drive are accepted, completed short or refused beside it.
WritesSettle ==
  \A t \in Tokens : (t \in DOMAIN pending) ~>
                      (t \notin DOMAIN pending \/ cancels \/ phase = "off")

\* What NvmeTier::cancel says of the completions it leaves to poll_completions and
\* drain ("io_uring guarantees a CQE for every submitted SQE, so the buffer will be
\* freed"): every write that was submitted, cancelled or not, is reaped in the end.
EveryWriteReaped ==
  \A t \in Tokens :
    (t \in DOMAIN pending \cup DOMAIN cancelled_writes) ~>
      (t \notin DOMAIN pending \cup DOMAIN cancelled_writes \/ phase = "off")

\* The tier's host pointer leads to the weights of the expert: what
\* scan_and_mmap_existing_files says of the files it finds ("fully populated").
HostPtrHasWeights ==
  phase = "run" => \A k \in Keys : host_ptr(k) => disk[k] = "whole"
===============================================================================
