---------------------------- MODULE ExpertLifecycle ----------------------------
(***************************************************************************)
(* src/daemon/expert_lifecycle_manager.{h,cpp} (ELM): brings experts into  *)
(* the VRAM of a GPU on request, from the NVMe tier or through the pinned  *)
(* arena, and answers every request by a later poll.                       *)
(*                                                                         *)
(* The parts it drives are here as far as the ELM can tell: the expert     *)
(* cache (entry, slot, ready, lock; see ExpertCache), the transfer engine  *)
(* (staged copies, one FIFO copy stream per GPU; see TransferEngine), the  *)
(* arena with its loader, and the writes of the NVMe tier.  So are the     *)
(* commands of dispatch_io.cpp and dispatch_lifecycle.cpp that use the     *)
(* same cache and engine without the ELM.                                  *)
(*                                                                         *)
(* Everything but the copies and loads runs on the daemon thread.  poll    *)
(* takes a batch of completions; here it takes one, and a batch is several *)
(* polls in a row (poll adds nothing to pending_completions_).  The loops  *)
(* of poll over waiters are steps of their own: nothing else runs until    *)
(* todo is empty.                                                          *)
(***************************************************************************)
EXTENDS Integers, Sequences, FiniteSets

CONSTANTS Keys, Gpus,
          Slots,        \* VRAM slots on every GPU
          ArenaSlots,   \* slots of the pinned arena
          OnNvme,       \* experts that only the NVMe tier has, if there is one
          Clients,      \* sets of what clients do besides ensure_resident
          MaxTokens,    \* bound: requests
          MaxCopies     \* bound: copies on a stream for atomic commands

ASSUME LifecycleAssumption ==
  /\ OnNvme \subseteq Keys
  /\ Slots \in Nat /\ ArenaSlots \in Nat /\ MaxTokens \in Nat /\ MaxCopies \in Nat

Entries == Keys \X Gpus
Tokens  == 1..MaxTokens
SlotIds == 1..Slots
Unused  == <<>>          \* neither an entry nor an expert

VARIABLES
  ent,                   \* gpu_entries_
  host, waiters,         \* host_entries_: tier, gpu_waiters
  arena_load_waiters_, slot_pressure_waiters_,
  token_index_, pending_completions_, next_token_,
  todo,                  \* what is left of the loop poll is in
  request,               \* what the clients were told
  cache, content,        \* VRAM: cache entries; the expert whose bytes a slot has
  staged, stream, drains,\* copies: admitted, on the H2D stream, on the D2H stream
  arena, nvme,           \* host tiers
  commands               \* what the clients of this behaviour do, and its set-up

elmVars   == <<arena_load_waiters_, slot_pressure_waiters_, todo>>
tokenVars == <<token_index_, pending_completions_, next_token_, request>>
copyVars  == <<staged, stream, drains>>
state == <<ent, host, waiters, elmVars, tokenVars, cache, content, copyVars, arena, nvme>>
vars  == <<state, commands>>

GpuTiers == {"absent", "reserved", "transferring", "draining", "hot"}
GpuEntry == [tier : GpuTiers, xfer : {"none", "own", "joined"},
             interests : SUBSET Tokens, pin : {"yes", "no"}]
NoEntry  == [tier |-> "absent", xfer |-> "none", interests |-> {}, pin |-> "no"]

CacheEntry == [slot : SlotIds \cup {0}, ready : {"yes", "no"}, locks : {0, 1}]
NotCached  == [slot |-> 0, ready |-> "no", locks |-> 0]

Copy == [key : Keys, gpu : Gpus, slot : SlotIds, by : {"elm", "command"},
         state : {"live", "cancelled"}]
Drain == [key : Keys, gpu : Gpus, state : {"live", "cancelled"}]
\* live: the cell is still part of the vector the loop runs over.
Work == [op : {"start", "fail", "wake", "drop"}, key : Keys, gpu : Gpus, live : {"yes", "no"}]

\* The set-up of a behaviour: the slot source has no mmap to fall back to, and
\* the daemon has an NVMe tier.
Direct   == "direct" \in commands
NvmeKeys == IF "nvme" \in commands THEN OnNvme ELSE {}

Init ==
  /\ ent = [e \in Entries |-> NoEntry]
  /\ host = [k \in Keys |-> "cold"]
  /\ waiters = [k \in Keys |-> <<>>]
  /\ arena_load_waiters_ = [k \in Keys |-> <<>>]
  /\ slot_pressure_waiters_ = <<>> /\ todo = <<>>
  /\ token_index_ = [t \in Tokens |-> Unused]
  /\ pending_completions_ = {} /\ next_token_ = 1
  /\ request = [t \in Tokens |-> "none"]
  /\ cache = [e \in Entries |-> NotCached]
  /\ content = [g \in Gpus |-> [s \in SlotIds |-> Unused]]
  /\ staged = {} /\ stream = [g \in Gpus |-> <<>>] /\ drains = {}
  /\ arena = [k \in Keys |-> "absent"]
  /\ commands \in Clients
  /\ nvme \in {f \in [Keys -> {"none", "writing", "written"}] : \A k \in Keys \ NvmeKeys : f[k] = "none"}

-------------------------------------------------------------------------------
(* The tiers below: host source, cache and transfer engine.                *)

Listed(q)      == {q[i] : i \in 1..Len(q)}

\* What std::remove_if leaves of q when it keeps the members of S: of every
\* prefix of q, and of q.  (SelectSeq, in a form that proofs can unfold.)
Filtered(q, S) ==
  LET F[n \in 0..Len(q)] ==
        IF n = 0 THEN <<>> ELSE IF q[n] \in S THEN Append(F[n - 1], q[n]) ELSE F[n - 1]
  IN F

Filter(q, S)   == Filtered(q, S)[Len(q)]
Without(q, x)  == Filter(q, Listed(q) \ {x})
Push(q, x)     == IF x \in Listed(q) THEN q ELSE Append(q, x)

SlotWritten(k) == nvme[k] \in {"written", "rewriting"}
Writing(k)     == nvme[k] \in {"writing", "rewriting"}

compute_host_tier(k) ==
  CASE k \notin NvmeKeys -> "warm"
    [] k \in NvmeKeys /\ Writing(k) -> "loading"
    [] k \in NvmeKeys /\ nvme[k] = "written" -> "warm"
    [] OTHER -> "cold"

\* A copy reads the arena slot: the keep-alive is in the entry or the callback.
Pinned(k) ==
  \/ \E g \in Gpus : ent[<<k, g>>].pin = "yes"
  \/ \E c \in staged : c.key = k /\ c.by = "command"
  \/ \E g \in Gpus : \E c \in Listed(stream[g]) : c.key = k /\ c.by = "command"

\* Mutant: a slot a copy reads from is taken for another expert.
RoomForUnpinned(k) ==
  IF arena[k] # "absent" \/ Cardinality({j \in Keys : arena[j] # "absent"}) < ArenaSlots
  THEN {arena}
  ELSE {[arena EXCEPT ![v] = "absent"] : v \in {j \in Keys : arena[j] \in {"reserved", "ready"}}}

\* reserve_for_fill: the arena with room for k, in every way it can get it.
RoomFor(k) ==
  IF arena[k] # "absent" \/ Cardinality({j \in Keys : arena[j] # "absent"}) < ArenaSlots
  THEN {arena}
  ELSE {[arena EXCEPT ![v] = "absent"] :
          v \in {j \in Keys : arena[j] \in {"reserved", "ready"} /\ ~Pinned(j)}}

\* resolve_expert_host_source: res is its status ("none": no pointer), pin is
\* "yes" when the source is an arena slot.  The loader may refuse the load (its
\* ring is full): it is then done here, and may fail.
HostSource(k, res, pin) ==
  \/ /\ k \in NvmeKeys
     /\ res = (IF SlotWritten(k) THEN "ready" ELSE "none") /\ pin = "no"
     /\ UNCHANGED arena
  \/ /\ k \notin NvmeKeys /\ arena[k] = "ready"
     /\ res = "ready" /\ pin = "yes" /\ UNCHANGED arena
  \/ /\ k \notin NvmeKeys /\ arena[k] = "loading"
     /\ res = "pending" /\ pin = "no" /\ UNCHANGED arena
  \/ /\ k \notin NvmeKeys /\ arena[k] \in {"absent", "reserved"}
     /\ \E room \in RoomFor(k) :
          \/ /\ res = "pending" /\ pin = "no"
             /\ arena' = [room EXCEPT ![k] = "loading"]
          \/ /\ "ring_full" \in commands
             /\ res = "ready" /\ pin = "yes"
             /\ arena' = [room EXCEPT ![k] = "ready"]
          \/ /\ "ring_full" \in commands
             /\ res = (IF Direct THEN "none" ELSE "ready") /\ pin = "no"
             /\ arena' = [room EXCEPT ![k] = "reserved"]
  \/ /\ k \notin NvmeKeys /\ arena[k] \in {"absent", "reserved"} /\ RoomFor(k) = {}
     /\ res = (IF Direct THEN "backpressure" ELSE "ready") /\ pin = "no"
     /\ UNCHANGED arena

FreeSlots(g) == SlotIds \ {cache[<<k, g>>].slot : k \in Keys}

\* TransferEngine::inflight_: a live copy of the entry, staged or dispatched.
InFlight(e) ==
  \/ \E c \in staged : c.key = e[1] /\ c.gpu = e[2]
  \/ \E c \in Listed(stream[e[2]]) : c.key = e[1] /\ c.state = "live"

\* TransferEngine::cancel: a staged copy is dropped, a dispatched one runs on.
CancelCopy(e) ==
  LET mine == {c \in staged : c.key = e[1] /\ c.gpu = e[2]} IN
  IF mine # {}
  THEN staged' = staged \ mine /\ UNCHANGED stream
  ELSE /\ UNCHANGED staged
       /\ stream' = [stream EXCEPT ![e[2]] =
            [i \in 1..Len(@) |-> IF @[i].key = e[1] THEN [@[i] EXCEPT !.state = "cancelled"]
                                                    ELSE @[i]]]

-------------------------------------------------------------------------------
(* Answers and the way back to ABSENT.                                     *)

\* The answers poll returns, with the immediate ones it finds waiting.
Deliver(T, how) ==
  /\ request' = [t \in Tokens |->
       IF t \in T THEN how
       ELSE IF <<t, "ok">> \in pending_completions_ THEN "ok"
       ELSE IF <<t, "failed">> \in pending_completions_ THEN "failed"
       ELSE request[t]]
  /\ pending_completions_' = {}

Forget(T) == token_index_' = [t \in Tokens |-> IF t \in T THEN Unused ELSE token_index_[t]]

\* Mutant: the reverted transfer is not cancelled in the engine.
revert_keeps_copy(e) ==
  /\ ent' = [ent EXCEPT ![e] = NoEntry]
  /\ cache' = IF ent[e].tier \in {"reserved", "transferring", "draining"} /\ cache[e].locks = 0
              THEN [cache EXCEPT ![e] = NotCached] ELSE cache
  /\ UNCHANGED <<staged, stream, drains>>
  /\ waiters' = [waiters EXCEPT ![e[1]] = Without(@, e[2])]

\* The evict may be refused (the entry is locked); the result is ignored.
revert_gpu_entry(e) ==
  /\ ent' = [ent EXCEPT ![e] = NoEntry]
  /\ cache' = IF ent[e].tier \in {"reserved", "transferring", "draining"} /\ cache[e].locks = 0
              THEN [cache EXCEPT ![e] = NotCached] ELSE cache
  /\ IF ent[e].tier = "transferring" /\ ent[e].xfer = "own"
     THEN CancelCopy(e) ELSE UNCHANGED <<staged, stream>>
  /\ drains' = IF ent[e].tier # "draining" THEN drains
               ELSE {IF d.key = e[1] /\ d.gpu = e[2] /\ d.state = "live"
                     THEN [d EXCEPT !.state = "cancelled"] ELSE d : d \in drains}
  /\ waiters' = [waiters EXCEPT ![e[1]] = Without(@, e[2])]

-------------------------------------------------------------------------------
(* try_start_h2d, for the entry with value v (RESERVED).                   *)

\* Mutant: an entry whose load is pending is not recorded as a waiter.
start_forgets_waiter(e, v, cached) ==
  \E res \in {"ready", "pending", "backpressure", "none"}, pin \in {"yes", "no"} :
     /\ HostSource(e[1], res, pin)
     /\ slot_pressure_waiters_' = IF res = "backpressure" THEN Push(slot_pressure_waiters_, e)
                                  ELSE slot_pressure_waiters_
     /\ IF res # "ready" \/ cached[e].slot = 0
        THEN ent' = [ent EXCEPT ![e] = v] /\ UNCHANGED staged
        ELSE /\ ent' = [ent EXCEPT ![e] = [v EXCEPT !.tier = "transferring", !.pin = pin,
                                             !.xfer = IF InFlight(e) THEN "joined" ELSE "own"]]
             /\ staged' = IF InFlight(e) THEN staged
                          ELSE staged \cup {[key |-> e[1], gpu |-> e[2], slot |-> cached[e].slot,
                                             by |-> "elm", state |-> "live"]}
     /\ UNCHANGED arena_load_waiters_

try_start_h2d(e, v, cached) ==
  \E res \in {"ready", "pending", "backpressure", "none"}, pin \in {"yes", "no"} :
     /\ HostSource(e[1], res, pin)
     /\ arena_load_waiters_' = IF res = "pending"
                               THEN [arena_load_waiters_ EXCEPT ![e[1]] = Push(@, e[2])]
                               ELSE arena_load_waiters_
     /\ slot_pressure_waiters_' = IF res = "backpressure" THEN Push(slot_pressure_waiters_, e)
                                  ELSE slot_pressure_waiters_
     /\ IF res # "ready" \/ cached[e].slot = 0
        THEN ent' = [ent EXCEPT ![e] = v] /\ UNCHANGED staged
        ELSE /\ ent' = [ent EXCEPT ![e] = [v EXCEPT !.tier = "transferring", !.pin = pin,
                                             !.xfer = IF InFlight(e) THEN "joined" ELSE "own"]]
             /\ staged' = IF InFlight(e) THEN staged
                          ELSE staged \cup {[key |-> e[1], gpu |-> e[2], slot |-> cached[e].slot,
                                             by |-> "elm", state |-> "live"]}

\* Nothing starts: the fields try_start_h2d may touch stay as they are.
NoStart == UNCHANGED <<arena, arena_load_waiters_, slot_pressure_waiters_, staged>>

\* reserve a slot for e and start, with interests T; cache refuses a resident key.
ReserveAndStart(e, T) ==
  \E s \in FreeSlots(e[2]) :
     /\ cache[e].slot = 0
     /\ cache' = [cache EXCEPT ![e] = [NotCached EXCEPT !.slot = s]]
     /\ try_start_h2d(e, [NoEntry EXCEPT !.tier = "reserved", !.interests = T], cache')

Refused(e) == cache[e].slot # 0 \/ FreeSlots(e[2]) = {}


-------------------------------------------------------------------------------
(* Operations of the clients.                                              *)

\* A cold host entry nobody waits for is looked at again.
HostTier(k) == IF host[k] = "cold" /\ waiters[k] = <<>> THEN compute_host_tier(k) ELSE host[k]

\* read_expert is never asynchronous: a written slot is warm at once.
Warm(k) == HostTier(k) = "warm" \/ (HostTier(k) = "cold" /\ SlotWritten(k))

\* An answer the next poll gives; the token stays in token_index_.
Immediate(t, e, how) ==
  /\ pending_completions_' = pending_completions_ \cup {<<t, how>>}
  /\ token_index_' = [token_index_ EXCEPT ![t] = e]
  /\ UNCHANGED <<ent, waiters, cache>> /\ NoStart

Interested(t, e) ==
  /\ token_index_' = [token_index_ EXCEPT ![t] = e]
  /\ UNCHANGED pending_completions_

ensure_resident(e) ==
  LET t    == next_token_
      v    == ent[e]
      T    == v.interests \cup {t}
      gone == v.tier = "absent" \/ (v.tier = "hot" /\ cache[e].slot = 0) IN
  /\ t \in Tokens /\ next_token_' = t + 1
  /\ request' = [request EXCEPT ![t] = "open"]
  /\ host' = [host EXCEPT ![e[1]] = IF gone /\ Warm(e[1]) THEN "warm" ELSE HostTier(e[1])]
  /\ \/ v.tier = "hot" /\ ~gone /\ Immediate(t, e, "ok")
     \/ v.tier = "draining" /\ Immediate(t, e, "failed")
     \/ /\ v.tier = "transferring" /\ Interested(t, e)
        /\ ent' = [ent EXCEPT ![e].interests = T]
        /\ UNCHANGED <<waiters, cache>> /\ NoStart
     \/ /\ v.tier = "reserved" /\ Interested(t, e) /\ UNCHANGED <<waiters, cache>>
        /\ IF HostTier(e[1]) = "warm"
           THEN try_start_h2d(e, [v EXCEPT !.interests = T], cache)
           ELSE ent' = [ent EXCEPT ![e].interests = T] /\ NoStart
     \/ /\ gone /\ HostTier(e[1]) = "loading" /\ Interested(t, e)
        /\ ent' = [ent EXCEPT ![e] = [NoEntry EXCEPT !.interests = T]]
        /\ waiters' = [waiters EXCEPT ![e[1]] = Append(@, e[2])]
        /\ UNCHANGED cache /\ NoStart
     \/ /\ gone /\ Warm(e[1]) /\ ~Refused(e)
        /\ Interested(t, e) /\ ReserveAndStart(e, T) /\ UNCHANGED waiters
     \/ /\ gone /\ HostTier(e[1]) # "loading" /\ (~Warm(e[1]) \/ Refused(e))
        /\ pending_completions_' = pending_completions_ \cup {<<x, "failed">> : x \in T}
        /\ Forget(T) /\ ent' = [ent EXCEPT ![e] = NoEntry]
        /\ waiters' = [waiters EXCEPT ![e[1]] = Without(@, e[2])]
        /\ UNCHANGED cache /\ NoStart
  /\ UNCHANGED <<todo, content, stream, drains, nvme>>

\* Mutant: the entry is ABSENT even when the cache refuses.
evict_ignores_refusal(e) ==
  /\ "evict" \in commands
  /\ ent[e].interests = {} /\ ent[e].tier \notin {"transferring", "draining"}
  /\ cache[e].slot # 0
  /\ cache' = IF cache[e].locks = 0 THEN [cache EXCEPT ![e] = NotCached] ELSE cache
  /\ ent' = [ent EXCEPT ![e] = NoEntry]
  /\ UNCHANGED <<host, waiters, elmVars, tokenVars, content, copyVars, arena, nvme>>

request_evict(e) ==
  /\ "evict" \in commands
  /\ ent[e].interests = {} /\ ent[e].tier \notin {"transferring", "draining"}
  /\ cache[e].slot # 0 /\ cache[e].locks = 0
  /\ cache' = [cache EXCEPT ![e] = NotCached]
  /\ ent' = [ent EXCEPT ![e] = NoEntry]
  /\ UNCHANGED <<host, waiters, elmVars, tokenVars, content, copyVars, arena, nvme>>

\* enqueue_d2h refuses an entry whose drain is still in flight.
request_drain(e) ==
  /\ "drain" \in commands
  /\ ent[e].tier = "hot" /\ ent[e].interests = {} /\ cache[e].slot # 0
  /\ ~\E d \in drains : d.key = e[1] /\ d.gpu = e[2]
  /\ ent' = [ent EXCEPT ![e].tier = "draining"]
  /\ drains' = drains \cup {[key |-> e[1], gpu |-> e[2], state |-> "live"]}
  /\ UNCHANGED <<host, waiters, elmVars, tokenVars, cache, content, staged, stream, arena, nvme>>

\* Mutant: one cancelled interest reverts the entry for everybody.
cancel_reverts_all(t) ==
  LET e == token_index_[t] IN
  /\ "cancel" \in commands /\ e # Unused /\ t \in ent[e].interests
  /\ token_index_' = [token_index_ EXCEPT ![t] = Unused]
  /\ request' = [request EXCEPT ![t] = "cancelled"]
  /\ revert_gpu_entry(e)
  /\ UNCHANGED <<host, elmVars, pending_completions_, next_token_, content, arena, nvme>>

\* Mutant: an entry others wait for keeps the cancelled interest.
cancel_keeps_interest(t) ==
  LET e == token_index_[t] IN
  /\ "cancel" \in commands /\ e # Unused /\ t \in ent[e].interests
  /\ token_index_' = [token_index_ EXCEPT ![t] = Unused]
  /\ request' = [request EXCEPT ![t] = "cancelled"]
  /\ IF ent[e].interests = {t} THEN revert_gpu_entry(e)
     ELSE UNCHANGED <<ent, cache, waiters, copyVars>>
  /\ UNCHANGED <<host, elmVars, pending_completions_, next_token_, content, arena, nvme>>

\* handle_cancel_transfer for a request of the ELM.  A late cancel is one of a
\* request answered at once, whose token never left token_index_.
cancel(t) ==
  LET e == token_index_[t] IN
  /\ e # Unused
  /\ \/ "cancel" \in commands /\ t \in ent[e].interests
     \/ "late_cancel" \in commands
  /\ token_index_' = [token_index_ EXCEPT ![t] = Unused]
  /\ pending_completions_' = {p \in pending_completions_ : p[1] # t}
  /\ request' = [request EXCEPT ![t] = IF @ = "open" THEN "cancelled" ELSE @]
  /\ IF ent[e].interests \subseteq {t}
     THEN revert_gpu_entry(e)
     ELSE /\ ent' = [ent EXCEPT ![e].interests = @ \ {t}]
          /\ UNCHANGED <<cache, waiters, copyVars>>
  /\ UNCHANGED <<host, elmVars, next_token_, content, arena, nvme>>

-------------------------------------------------------------------------------
(* Commands that use the cache, the engine and the NVMe tier directly.     *)

\* A MoE step locks the experts it computes with when it finds them ready.
lock(e) ==
  /\ "lock" \in commands /\ cache[e].ready = "yes" /\ cache[e].locks = 0
  /\ cache' = [cache EXCEPT ![e].locks = 1]
  /\ UNCHANGED <<ent, host, waiters, elmVars, tokenVars, content, copyVars, arena, nvme>>

unlock(e) ==
  /\ cache[e].locks = 1
  /\ cache' = [cache EXCEPT ![e].locks = 0]
  /\ UNCHANGED <<ent, host, waiters, elmVars, tokenVars, content, copyVars, arena, nvme>>

handle_cache_evict(e) ==
  /\ "cache_evict" \in commands
  /\ cache[e].slot # 0 /\ cache[e].locks = 0
  /\ cache' = [cache EXCEPT ![e] = NotCached]
  /\ UNCHANGED <<ent, host, waiters, elmVars, tokenVars, content, copyVars, arena, nvme>>

handle_cache_reserve(e) ==
  /\ "atomic" \in commands
  /\ cache[e].slot = 0
  /\ \E s \in FreeSlots(e[2]) : cache' = [cache EXCEPT ![e] = [NotCached EXCEPT !.slot = s]]
  /\ UNCHANGED <<ent, host, waiters, elmVars, tokenVars, content, copyVars, arena, nvme>>

\* The status of the source is not looked at, only its pointer.
handle_transfer_h2d(e) ==
  /\ "atomic" \in commands
  /\ cache[e].slot # 0 /\ ~InFlight(e) /\ Len(stream[e[2]]) < MaxCopies
  /\ \E pin \in {"yes", "no"} : HostSource(e[1], "ready", pin)
  /\ staged' = staged \cup {[key |-> e[1], gpu |-> e[2], slot |-> cache[e].slot,
                             by |-> "command", state |-> "live"]}
  /\ UNCHANGED <<ent, host, waiters, elmVars, tokenVars, cache, content, stream, drains, nvme>>

\* The legacy path of handle_cancel_transfer, for a copy of the command above.
handle_cancel_transfer(e) ==
  /\ "atomic" \in commands
  /\ \/ \E c \in staged : c.key = e[1] /\ c.gpu = e[2] /\ c.by = "command"
     \/ \E c \in Listed(stream[e[2]]) : c.key = e[1] /\ c.by = "command" /\ c.state = "live"
  /\ CancelCopy(e)
  /\ cache' = IF cache[e].locks = 0 THEN [cache EXCEPT ![e] = NotCached] ELSE cache
  /\ UNCHANGED <<ent, host, waiters, elmVars, tokenVars, content, drains, arena, nvme>>

handle_nvme_write(k) ==
  /\ "nvme_write" \in commands /\ k \in NvmeKeys
  /\ nvme[k] = "written"
  /\ nvme' = [nvme EXCEPT ![k] = "rewriting"]
  /\ UNCHANGED <<ent, host, waiters, elmVars, tokenVars, cache, content, copyVars, arena>>

\* NvmeTier::cancel: no completion follows.
cancel_nvme_write(k) ==
  /\ "nvme_cancel" \in commands
  /\ nvme[k] = "rewriting"
  /\ nvme' = [nvme EXCEPT ![k] = "written"]
  /\ UNCHANGED <<ent, host, waiters, elmVars, tokenVars, cache, content, copyVars, arena>>

\* TransferEngine::flush_staged, one copy at a time.
flush_staged ==
  /\ \E c \in staged :
       /\ staged' = staged \ {c}
       /\ stream' = [stream EXCEPT ![c.gpu] = Append(@, c)]
  /\ UNCHANGED <<ent, host, waiters, elmVars, tokenVars, cache, content, drains, arena, nvme>>

-------------------------------------------------------------------------------
(* poll: first the answers that wait, then one completion and what follows.*)

Works(op, k, gs, live) == [i \in 1..Len(gs) |-> [op |-> op, key |-> k, gpu |-> gs[i], live |-> live]]

poll_nothing ==
  /\ pending_completions_ # {}
  /\ Deliver({}, "ok")
  /\ UNCHANGED <<ent, host, waiters, elmVars, token_index_, next_token_, cache, content,
                 copyVars, arena, nvme>>

\* process_arena_loads
poll_arena(k, ok) ==
  /\ arena[k] = "loading"
  /\ Deliver({}, "ok")
  /\ arena' = [arena EXCEPT ![k] = IF ok THEN "ready" ELSE "reserved"]
  /\ todo' = Works(IF ok THEN "start" ELSE "fail", k, arena_load_waiters_[k], "no")
  /\ arena_load_waiters_' = [arena_load_waiters_ EXCEPT ![k] = <<>>]
  /\ UNCHANGED <<ent, host, waiters, slot_pressure_waiters_, token_index_, next_token_, cache,
                 content, copyVars, nvme>>

\* A write of the NVMe tier is over.  The loop runs over gpu_waiters itself.
poll_nvme(k, ok) ==
  /\ Writing(k)
  /\ Deliver({}, "ok")
  /\ nvme' = [nvme EXCEPT ![k] = IF ok \/ SlotWritten(k) THEN "written" ELSE "none"]
  /\ IF host[k] = "loading"
     THEN /\ host' = [host EXCEPT ![k] = IF ok THEN "warm" ELSE "cold"]
          /\ todo' = Works(IF ok THEN "wake" ELSE "drop", k, waiters[k], "yes")
          /\ waiters' = [waiters EXCEPT ![k] = <<>>]
     ELSE UNCHANGED <<host, todo, waiters>>
  /\ UNCHANGED <<ent, arena_load_waiters_, slot_pressure_waiters_, token_index_, next_token_,
                 cache, content, copyVars, arena>>

\* A copy of an entry that is TRANSFERRING is over.
h2d_done(c, ok) ==
  LET e == <<c.key, c.gpu>> IN
  /\ Forget(ent[e].interests)
  /\ IF ok
     THEN /\ ent' = [ent EXCEPT ![e] = [NoEntry EXCEPT !.tier = "hot"]]
          /\ cache' = IF cache[e].slot = 0 THEN cache ELSE [cache EXCEPT ![e].ready = "yes"]
          /\ Deliver(ent[e].interests, "ok")
          /\ todo' = [i \in 1..Len(slot_pressure_waiters_) |->
                        [op |-> "start", key |-> slot_pressure_waiters_[i][1],
                         gpu |-> slot_pressure_waiters_[i][2], live |-> "no"]]
          /\ slot_pressure_waiters_' = <<>>
          /\ UNCHANGED waiters
     ELSE /\ ent' = [ent EXCEPT ![e] = NoEntry]
          /\ cache' = IF cache[e].locks = 0 THEN [cache EXCEPT ![e] = NotCached] ELSE cache
          /\ Deliver(ent[e].interests, "failed")
          /\ waiters' = [waiters EXCEPT ![c.key] = Without(@, c.gpu)]
          /\ UNCHANGED <<todo, slot_pressure_waiters_>>

\* The next copy of the stream of g is over and its completion, if it was not
\* cancelled, is polled.  mark_ready is the callback of handle_transfer_h2d.
poll_h2d(g, ok) ==
  /\ stream[g] # <<>>
  /\ LET c == Head(stream[g])
         e == <<c.key, g>> IN
     /\ stream' = [stream EXCEPT ![g] = Tail(@)]
     /\ content' = [content EXCEPT ![g][c.slot] = IF ok THEN c.key ELSE Unused]
     /\ IF c.state = "live" /\ ent[e].tier = "transferring"
        THEN h2d_done(c, ok)
        ELSE /\ Deliver({}, "ok")
             /\ cache' = IF c.state = "live" /\ c.by = "command" /\ ok /\ cache[e].slot # 0
                         THEN [cache EXCEPT ![e].ready = "yes"] ELSE cache
             /\ UNCHANGED <<ent, waiters, todo, slot_pressure_waiters_, token_index_>>
  /\ UNCHANGED <<host, arena_load_waiters_, next_token_, staged, drains, arena, nvme>>

\* A drain is over.  write_expert refuses while a write is in flight.
poll_d2h(d, ok) ==
  LET e == <<d.key, d.gpu>> IN
  /\ d \in drains /\ drains' = drains \ {d}
  /\ Deliver({}, "ok")
  /\ IF d.state = "live" /\ ent[e].tier = "draining"
     THEN /\ ent' = [ent EXCEPT ![e] = NoEntry]
          /\ cache' = IF cache[e].locks = 0 THEN [cache EXCEPT ![e] = NotCached] ELSE cache
          /\ nvme' = [nvme EXCEPT ![d.key] = CASE ok /\ @ = "none" -> "writing"
                                               [] ok /\ @ = "written" -> "rewriting"
                                               [] OTHER -> @]
     ELSE UNCHANGED <<ent, cache, nvme>>
  /\ UNCHANGED <<host, waiters, elmVars, token_index_, next_token_, content, staged, stream,
                 arena>>

\* vector::erase while a range-for is at the first of these cells: the cells of
\* the vector that stay move up, the ones behind them keep what they had.
Erased(cells, g) ==
  LET kept == Filter(cells, {c \in Listed(cells) : c.live = "yes" /\ c.gpu # g}) IN
  [i \in 1..Len(cells) |-> IF i <= Len(kept) THEN kept[i] ELSE [cells[i] EXCEPT !.live = "no"]]

\* complete_interests(false) out of a loop of poll
FailEntry(e) ==
  /\ Deliver(ent[e].interests, "failed") /\ Forget(ent[e].interests)
  /\ revert_gpu_entry(e)
  /\ todo' = Tail(Erased(todo, e[2]))
  /\ UNCHANGED <<arena, arena_load_waiters_, slot_pressure_waiters_, next_token_>>

poll_continues ==
  LET w == Head(todo)
      e == <<w.key, w.gpu>> IN
  /\ todo # <<>>
  /\ \/ /\ \/ w.op = "drop"
           \/ w.op = "fail" /\ ent[e].tier = "reserved"
           \/ w.op = "wake" /\ ent[e].tier = "absent" /\ Refused(e)
        /\ FailEntry(e)
     \/ /\ w.op = "wake" /\ ent[e].tier = "absent" /\ ~Refused(e)
        /\ ReserveAndStart(e, ent[e].interests)
        /\ todo' = Tail(todo) /\ UNCHANGED <<waiters, stream, drains, tokenVars>>
     \/ /\ w.op \in {"wake", "start"} /\ ent[e].tier = "reserved"
        /\ try_start_h2d(e, ent[e], cache)
        /\ todo' = Tail(todo) /\ UNCHANGED <<cache, waiters, stream, drains, tokenVars>>
     \/ /\ \/ w.op \in {"start", "fail"} /\ ent[e].tier # "reserved"
           \/ w.op = "wake" /\ ent[e].tier \notin {"absent", "reserved"}
        /\ todo' = Tail(todo) /\ NoStart
        /\ UNCHANGED <<ent, cache, waiters, stream, drains, tokenVars>>
  /\ UNCHANGED <<host, content, nvme>>

-------------------------------------------------------------------------------
Client ==
  \/ \E e \in Entries : ensure_resident(e) \/ request_evict(e) \/ request_drain(e)
  \/ \E t \in Tokens : cancel(t)
  \/ \E e \in Entries : lock(e) \/ unlock(e) \/ handle_cache_evict(e) \/ handle_cache_reserve(e)
  \/ \E e \in Entries : handle_transfer_h2d(e) \/ handle_cancel_transfer(e)
  \/ \E k \in Keys : handle_nvme_write(k) \/ cancel_nvme_write(k)

Poll ==
  \/ poll_nothing
  \/ \E k \in Keys, ok \in BOOLEAN : poll_arena(k, ok) \/ poll_nvme(k, ok)
  \/ \E g \in Gpus, ok \in BOOLEAN : poll_h2d(g, ok)
  \/ \E d \in drains, ok \in BOOLEAN : poll_d2h(d, ok)

Next ==
  /\ UNCHANGED commands
  /\ poll_continues \/ (todo = <<>> /\ (Client \/ flush_staged \/ Poll))

Spec == Init /\ [][Next]_vars

\* The daemon polls in every cycle, copies and loads end, a lock is released.
Fairness ==
  /\ WF_state(poll_continues)
  /\ WF_state(todo = <<>> /\ flush_staged)
  /\ WF_state(todo = <<>> /\ poll_nothing)
  /\ \A k \in Keys : /\ WF_state(todo = <<>> /\ \E ok \in BOOLEAN : poll_arena(k, ok))
                     /\ WF_state(todo = <<>> /\ \E ok \in BOOLEAN : poll_nvme(k, ok))
  /\ \A g \in Gpus : WF_state(todo = <<>> /\ \E ok \in BOOLEAN : poll_h2d(g, ok))

FairSpec == Spec /\ Fairness

-------------------------------------------------------------------------------
(* Properties.                                                             *)

TypeOK ==
  /\ ent \in [Entries -> GpuEntry]
  /\ host \in [Keys -> {"cold", "loading", "warm"}]
  /\ waiters \in [Keys -> Seq(Gpus)] /\ arena_load_waiters_ \in [Keys -> Seq(Gpus)]
  /\ slot_pressure_waiters_ \in Seq(Entries) /\ todo \in Seq(Work)
  /\ token_index_ \in [Tokens -> Entries \cup {Unused}]
  /\ pending_completions_ \subseteq Tokens \X {"ok", "failed"}
  /\ next_token_ \in 1..(MaxTokens + 1)
  /\ request \in [Tokens -> {"none", "open", "ok", "failed", "cancelled"}]
  /\ cache \in [Entries -> CacheEntry]
  /\ content \in [Gpus -> [SlotIds -> Keys \cup {Unused}]]
  /\ staged \subseteq Copy /\ stream \in [Gpus -> Seq(Copy)] /\ drains \subseteq Drain
  /\ arena \in [Keys -> {"absent", "reserved", "loading", "ready"}]
  /\ nvme \in [Keys -> {"none", "writing", "written", "rewriting"}]
  /\ commands \in Clients

\* The clients go through the manager only: nobody uses the cache, the engine or
\* the NVMe tier on their own, or cancels what was answered.
ThroughManager == commands \cap {"cache_evict", "atomic", "late_cancel", "nvme_cancel"} = {}

\* An expert that the cache calls ready is in its slot: neither a reverted
\* transfer whose copy still runs nor a slot given to another expert meanwhile
\* leaves the wrong bytes there (the copies of a GPU run in order).
ReadyMeansContent ==
  ThroughManager => \A e \in Entries : cache[e].ready = "yes" => content[e[2]][cache[e].slot] = e[1]

\* A request that is open is known to the manager: it is an interest of its entry
\* or an answer the next poll returns.
EveryOpenTracked ==
  \A t \in Tokens : request[t] = "open" =>
     \/ \E e \in Entries : t \in ent[e].interests /\ token_index_[t] = e
     \/ \E how \in {"ok", "failed"} : <<t, how>> \in pending_completions_

\* Between two polls an entry somebody waits for, of an expert the arena serves, is
\* driven by something that is under way and will look at it again: a load of its
\* slot, which has it as a waiter, or a copy.  It holds for a source that can fall
\* back to the mmap; a direct one parks entries, and leaves them there (ParkedProgress).
ReservedIsDriven(e) ==
  arena[e[1]] = "loading" /\ e[2] \in Listed(arena_load_waiters_[e[1]])

WaitedForIsDriven ==
  ThroughManager /\ ~Direct /\ todo = <<>> =>
    \A e \in Entries : e[1] \notin NvmeKeys /\ ent[e].interests # {} =>
       \/ ent[e].tier = "reserved" /\ ReservedIsDriven(e)
       \/ ent[e].tier = "transferring" /\ InFlight(e)

\* What poll says of the entries that wait for a slot of the arena ("Each completion
\* frees one slot -> guaranteed progress"): none of them waits for ever.
Parked(e) == ent[e].tier = "reserved" /\ e \in Listed(slot_pressure_waiters_)
ParkedProgress == \A e \in Entries : Parked(e) ~> ~Parked(e)

\* The tier agrees with the cache: a slot is held exactly by the entries that are
\* not ABSENT, it is ready exactly when the entry is HOT or DRAINING, and no
\* entry is left RESERVED or TRANSFERRING with nobody waiting for it.
TierCacheAgree ==
  ThroughManager => \A e \in Entries :
     /\ ent[e].tier = "absent" <=> cache[e].slot = 0
     /\ cache[e].ready = "yes" <=> ent[e].tier \in {"hot", "draining"}
     /\ ent[e].tier \in {"reserved", "transferring"} => ent[e].interests # {}

\* The books of the manager: types, the index of open requests, and the tiers
\* against the cache, whatever was cancelled, refused or evicted in between.
LifecycleInv == TypeOK /\ EveryOpenTracked /\ TierCacheAgree

\* The arena slot a copy reads from keeps its expert until the copy is over.
SourceStable ==
  \A e \in Entries : ent[e].tier = "transferring" /\ ent[e].pin = "yes" => arena[e[1]] = "ready"

\* Every request is answered once or cancelled, and (of clients that go through the
\* manager, with a source that can fall back to the mmap) none stays open.
LS == INSTANCE LifecycleService
Service == LS!Spec
EveryRequestCloses == ThroughManager /\ ~Direct => LS!EveryRequestCloses
===============================================================================
