# LayerStoRm: a TLA+ model of the serving daemon

LayerStoRm serves mixture-of-experts models whose experts do not fit in GPU
memory. A C++ daemon thread owns the GPUs and streams experts between NVMe, a
pinned host arena and VRAM; a Python orchestrator decides what to run and talks
to the daemon through two shared-memory rings and a seqlocked state snapshot.
This directory models the parts that keep state over a long life and on which
correctness rests: the two IPC mechanisms; the four places an expert can be (NVMe
tier, pinned arena, copies under way, VRAM cache) with the lifecycle manager that
moves it between them; the rebalancer that lends KV memory to experts; and the
tiered, shared KV cache of sequences.

Source paths are relative to the repository's root.

## 1. Inventory

The system has one concurrent boundary of its own making (Python thread and
daemon thread over shared memory) and one given by the hardware (GPU copies that
run beside the daemon thread). Inside the daemon everything is one thread: the
difficulty there is the order of calls over long lives, and the copies of state
that several components keep.

| Component | State | Operations | Hard behaviour | What makes it correct |
|---|---|---|---|---|
| Rings (`src/daemon/spsc_ring.h`, `python/orchestrator/spsc_ring.py`) | two cursors, slots | try_write, try_read, drain | two threads, no lock, callbacks working in place, wrap-around | nothing lost, reordered or torn; a slot is not reused under a callback |
| State snapshot (`src/daemon/state_transaction.h`, `src/daemon/ipc_protocol.h`, `python/orchestrator/spsc_ring.py`) | seqlock, fields, two nesting counters | begin/end, reads with retry | reads during writes, two transaction objects on one lock, a writer that dies | a read that returns is of one moment; every read ends |
| Transfer engine (`src/core/transfer/transfer_engine.cpp`) | dedup map, staged queues with index and bin counters, pending table, pinned pool | enqueue, flush, forced dispatch, poll, cancel, reprioritize, drain | a copy cannot be stopped, so cancels race completions; bounded pool; delays | a token settles once; a staging slot belongs to one running copy; nothing waits for ever |
| Expert cache (`src/core/memory/expert_cache.cpp`) | residents, slot allocators, elastic zones, spill mode, counters | reserve, evict, lock, promote, demote, grant/drain/remove zones, spill mode | the owner of a slot is derived from tags that change; zones come and go | a slot has one owner and is never lost; zones outlive residents |
| Evict board, REEF (`src/daemon/dispatch_loader.cpp`, `dispatch_reef.cpp`) | copies of residency and capacity | seeding, listening, generation check | copies that go stale | the copies agree with the cache |
| Lifecycle manager (`src/daemon/expert_lifecycle_manager.cpp`) | tier per (expert, GPU), interests, three kinds of waiters, answers to give | ensure_resident(s), evict, drain, cancel, poll | completions after cancels; state split over four owners; loops that change what they run over | tier, cache entry and transfer agree; every request is answered once |
| Pinned arena, loader, migrator, arena cache (`src/core/memory/pinned_expert_arena.cpp`, `arena_*.cpp`) | slots with load state and pins, location of experts, records that outlive the daemon | reserve, submit, poll, mark_ready, promote, swap, attach | worker threads; a daemon that dies at any step; files replaced in between | what a record, a ready flag or a pin promises is true |
| Zone rebalancer (`src/daemon/expert_zone_rebalancer.cpp`, `src/core/memory/expert_zone_math.h`) | grants and their reclaim stage, marks, cooldown | tick: reclaim, pressure, grant | several GPUs in step; cancelled copies and unlocked kernels still running | slabs go back to KV only when nothing can touch them, and do go back |
| NVMe tier (`src/core/memory/nvme_tier.cpp`) | mappings, written slots, pending and cancelled writes | write_expert, poll, cancel, drain, scan | kernel queue, full completion ring, buffers owned by the kernel, death of the process | buffers outlive their use; no accepted command is forgotten |
| KV tiering, page allocator (`src/daemon/kv_tiering_manager.cpp`, `src/core/memory/page_allocator.cpp`) | pages and cold slots with reference counts, tier of every page, row cache, spill file | demote, flush, poll, fork, rewind, hibernate, unspill, free | copies beside the steps, pages shared by forks, two counts of one thing | no row is lost or mixed up; references are exact |
| Daemon loop, dispatcher (`src/daemon/daemon_loop.cpp`, `dispatch_*.cpp`) | cycle, compute in flight | drain commands, poll, publish | backpressure, dropped completions | every command is answered |
| Progressive MoE (`src/daemon/moe_progressive.cpp`) | locked experts, pending compute | lock, dispatch, finalize, reap | locks released before the kernels ran | nothing a kernel reads is taken away |
| Orchestrator, server (`python/`) | requests, batches, commands in flight | schedule, verify, stream | replies out of order | every request ends |

How they interact: the orchestrator writes commands into the command ring; the
daemon loop drains it, each handler calling the lifecycle manager, the transfer
engine or the cache; the loop then polls transfers, lets the lifecycle manager
turn completions into residency (`mark_all_ready`), writes completions into the
other ring, flushes staged transfers and publishes the snapshot. The cache calls
the evict board on every change of stable residency; REEF reads the cache's
capacity when its generation has moved; the rebalancer takes slabs from the page
allocator, adds them to the cache as elastic zones and brings them back. The
lifecycle manager asks the arena for a source, the arena loads it, and pins it
while the transfer engine copies. Attention dispatches and sequence commands call
the KV tiering manager layer by layer, which copies pages to the host on a stream
of its own.

`PROJECT.json` lists every component with its status and, under `hazards`, the
places where this code can go wrong in ways a test hardly reaches.

## 2. Modules

| Module | Models |
|---|---|
| `FifoQueue` | abstract: a bounded FIFO queue |
| `SpscRing` | the ring; refines `FifoQueue` |
| `TransferService` | abstract: what callers of the transfer engine rely on |
| `TransferEngine` | the transfer engine; refines `TransferService` |
| `ExpertCache` | the cache of one GPU with its two mirrors, the evict board and the REEF capacity |
| `StateSnapshot` | the seqlock, its nested writer transactions and the retrying reader |
| `LifecycleService` | abstract: a request is open until it is answered, once, or cancelled |
| `ExpertLifecycle` | the lifecycle manager composed with reduced cache, engine, arena and NVMe tier; refines `LifecycleService` |
| `PinnedArena` | arena, loader, migrator and arena cache, with the death of the daemon |
| `ZoneGeometry` | the arithmetic of slots in slabs, as operators |
| `ZoneRebalancer` | the rebalancer composed with slabs, elastic zones, streams and MoE dispatch; extends `ZoneGeometry` |
| `NvmeTier` | one drive, the commands that use it, the completion ring, the kernel's queue |
| `KvTiering` | page allocator, tiering manager and sequence commands of one rank |
| `MC*` | instances for TLC |
| `*Proofs` | the inductive invariants and theorems of a module (section 4); `SharedMemoryProofs` has those of `SpscRing` and `StateSnapshot`, whose names differ for that reason |

Definitions whose comment begins with "Mutant:" are not part of a
specification: each is a plausible mistake in the definition that follows it,
kept to show that the properties notice it.

### SpscRing

`producer_seq`, `consumer_seq` and `slots` are the shared region; `w*` and `r*`
are the locals of the calls in progress. `try_write` is WriteLoad (load of the
other side's cursor), then WriteFull or WriteCopy, WriteCopied, WritePublish.
The copy is two steps with the slot `Torn` in between, so that a reader that
looks too early sees it. `drain` is ReadLoad, a CbBegin/CbEnd pair for every
slot (the callback works on the slot in place), ReadPublish; `try_read` is
`drain` with max_count 1. The fences of the code fix the order of these steps,
which is why the model has no reordering of its own; mutant
`WriteCopiedUnfenced` is the ring without the release fence. The 64-bit
counters do not wrap in any life of the program and are unbounded here (the
bound `MaxSeq` limits a behaviour for TLC). `init` has been called before
either side starts.

### StateSnapshot

A `StateTransaction` is its nesting `counter`; `begin` and `end` move `seqlock`
on the outermost level only. There are two such objects over one snapshot, the
loop's and the lifecycle manager's; each field has one of them as `Owner`. The
guard of `begin` that the other transaction is closed is a property of the call
graph (publish groups do not call the lifecycle manager, and its updates do not
publish), on one thread; mutant `begin_inside_another` drops it and breaks
atomicity. Python's `read_with_retry` is StartRead, TxBegin or TxBeginConflict,
CopyField for every field of the function it is given, TxEnd; `Conflict` counts
towards `MaxRetries` and ends in TimeoutError. The single-field readers are the
case of one field. `sched_yield` and the backoff stages have no effect on state.

### TransferEngine

| Variable | Code |
|---|---|
| `inflight` | `inflight_`, 0 for an absent key |
| `staged` | `staged_` of all GPUs; ties in the heap are any order |
| `staged_token_gpu`, `bins` | the index and counters kept beside the queues |
| `pending` | `pending_`, with the `cancelled` flag as `state` |
| `in_use` | slots of `pinned_pool_` |
| `sweep` | which dispatch loop runs, over which GPUs |
| `dma` | copies the GPU has not finished: the environment |
| `outcome` | history: what was reported for every token |

Methods are atomic (one thread), except that the iterations of the four
dispatch loops are steps, so that one definition serves replenish_gpu,
flush_staged, dispatch_staged_at_least and drain; only DmaFinishes interleaves
with a loop. A start delay is "waiting" or "elapsed". `Poll` takes any subset of
the finished transfers because events are queried one after the other. Enqueue
that meets a live id is refused and is no step. After `drain` (the destructor)
only polling remains. Priorities are natural numbers; `bin_for` is
`upper_bound` on the thresholds. The callback of a transfer, a function of the
caller, is its `outcome`. Bytes, bandwidth estimates and tracing are left out.

### ExpertCache

An entry of `residents` is a `CacheEntry` plus `home`, the allocator its slot
was really taken from (in the code: the base of `vram_address`). The cache
itself never reads `home`: `evict` uses `SlotOwner`, computed from the tags as
the code does. Free lists are the LIFO vectors of `SlotAllocator`.
Allocators: `Stable`, `Spill`, `Prefetch` of the boot carve, and elastic zones
by id. A refused call is no step.

Promote, demote and exit_spill_mode have no guard that the code has not: any resident
may be retagged, and spill mode may be left over a locked expert in a spill slot. Of the
slots of the boot carve the code then loses track (run `cache_retag`); elastic residents
are safe, because `evict` looks at their zone id before the tag. So `SlotsExclusive`, the
claim for all slots, is refuted, and the run and the theorems say what holds for every
order of calls: `ElasticSlotsExact`, the zone counters, the locks and the two mirrors.
GPUs share only `elastic_generation`, so one GPU is modelled.

### ExpertLifecycle

`ent` is `gpu_entries_` (tier, interests, whether the copy is the manager's own or
joined, pin), `host` and `waiters` are `host_entries_`; the two other waiter lists,
`token_index_` and `pending_completions_` have their names. `cache`, `content`,
`staged`, `stream`, `drains`, `arena` and `nvme` are the parts the manager drives,
reduced to what it can tell apart; `content` (whose bytes are in a VRAM slot) is
what makes a late copy visible. `request` is what the clients were told. The
copies of a GPU run in order on one stream, as in the code.

A call is one step. `poll` takes one completion at a time; a batch is several
polls in a row, because poll adds nothing to `pending_completions_` that the same
poll returns. Its loops over waiters are steps (`todo`), with nothing else between
them. `Clients` is a set of client behaviours, one of which is chosen initially
together with the set-up of the daemon: `direct` (the slot source has no mmap to fall
back to) and `nvme` (the experts `OnNvme` are on an NVMe tier);
`evict`, `cancel`, `lock`, `drain`, `nvme_write` and `ring_full` go through the
manager or are ordinary life; `cache_evict`, `atomic`, `late_cancel` and
`nvme_cancel` are commands of the dispatcher that use the cache, the engine or the
NVMe tier behind the manager's back, or cancel what was answered. `ThroughManager`
restricts the properties that such clients break (see the disagreements); those
that hold for all clients (`EveryOpenTracked`, `SourceStable`, `Service`) are not
restricted. `ensure_residents` is a sequence of the single calls. Priorities,
snapshot publication and timing are left out.

### PinnedArena

A cell is a `Slot` (key, ready, loading, inflight); the per-node `index_` follows
from the keys. `rec` and `bytes` belong to the holder process and survive
`restart_warm` and `restart_cold`; everything else is rebuilt. The daemon thread is
one action at a time; loader, migrator copy, copies to GPUs (`Readers`) and the
death of the daemon interleave. `files` is the version of an expert's file, `ident`
the one seen at boot: a file replaced under a running daemon must not be believed
by the next. `bytes` goes through `Torn` in every copy. The migrator's promotion
and swap through a spare are its five phases; frequencies and bandwidth budget only
choose the moves, so any move is allowed. LRU order and spill weights choose among
the victims the code allows, here any of them. A swap whose eviction fails is not
begun; that `spare_node_` is already set then makes no difference to the next one.

### ZoneRebalancer

`slab` is the owner of every slab of every GPU, `zones` the elastic zones by first
slab, `grants_` the grant records with stage and barriers. A tick is three steps
(`advance_reclaims`, `pressure`, `try_grant`; `stage`) with nothing of the loop
between them. A barrier recorded on a stream is the number of operations ahead of
it, counted down as the stream runs (h2d and ffn). Copies that were cancelled stay
on the stream; `moe_finalize` releases the locks while the kernels are still queued,
as the code does. A reservation dispatches its copy at once: entries whose copy is still
staged in the transfer engine are not told apart. Sequences take slabs from the bottom, KDA state from the top. A
page is a slab. Marks, floors and the sizes of grants come from `ZoneGeometry` and
the formulas of the constructor. A failed event query, which the code treats as
completed, is not modelled; neither is the time between ticks.

### NvmeTier

One drive; io_uring is `sq` and `cq`, moved by `Kernel`. `heap` is which owned
buffers are allocated. `handle_nvme_*` and `handle_cancel_transfer` are the
dispatcher's commands with `tok2seq` and `seq2tok`; a completion that finds the
ring full is dropped, as in the code. `killed` leaves every submitted slot whole,
torn or untouched; `restart` scans the files. Completions routed to the lifecycle
manager are in `ExpertLifecycle`. Striping and capacity counters are left out.
`io_uring_get_sqe` does not fail: every entry is submitted at once, so the queue of
entries is never full.

### KvTiering

All state is one record `kv`, because an operation of the code is a pipeline of
helpers over the allocator, the dispatcher and the manager; each helper takes and
returns that record. The pages of all sequences are the `Cells` (sequence, layer,
logical page), so that the tables of the code are functions on them, and an
operation on some pages of a sequence changes a set of cells at once: the pages of
a loop that stops when slots or handles run out are the `First` ones in the loop's
order, and `Place` hands out the free pages (which free page is taken makes no
difference to any property). A step is the attention dispatch of one layer (`decode`,
`prefill`, with the hooks before and after it), a sequence command, or `d2h`, one
group of copies landing on the host. A row's value is the place and the sequence
that wrote it, so that a page shared wrongly shows. `txt` is what the rows are
meant to be. The sweeps run over sequences in id order (the code's map order). A
reload of a spilled holder stops when slots run out or the file fails (`blocks`), and a
fork is rolled back when pages, slots or the child's indexer reservation (`reserved`)
are not to be had. The parent keeps its raised rewind floor after a rolled-back fork.

`AnyFork` and `AnyRewind` widen the clients: full forks of a holder whose pages were
allocated ahead (finding below), and rewinds into the middle of a demoted page or over
a batch of the sequence that is still pending.
`Superchunk` is within `Retention`, as a comment in `arch_mla.cpp` (line 3660)
assumes; the configuration does not enforce it. Restoring a snapshot, prefetching rows,
sharding over ranks and the fake block tables of a cohort are not modelled.

## 3. Runs

| Run | Instance | Properties |
|---|---|---|
| `ipc` | ring: 2 slots, batches of 1 or 2, 5 writes, 2 contents; snapshot: 3 fields in 2 transactions, nesting 2, 2 retries, lock up to 4 | `CallbackSlotStable`, `IsFifoQueue`, `EverySlotConsumed`, `ReadsAreAtomic`, `EveryReadEnds` |
| `transfer` | 2 experts, one larger than a slot, 2 GPUs, 1 staging slot, limits of 1, 2 tokens, forced dispatch on | `StagingSlotExclusive`, `StagedIndexExact`, `TransferInv`, `IsTransferService`, `EveryTransferSettles` |
| `cache` | 2 experts, one spill slot, two zones of 1 slot, 3 topology changes, 1 lock | `CacheInv`, `ElasticSlotsExact`, `BoardMirrorsStable`, `ZonesOutliveResidents`, `CapacityFresh`, `LockedStays` |
| `cache_retag` | 2 experts, one slot each of stable, spill and prefetch, one zone | violates `SlotsExclusive` (finding) |
| `elm` | 2 experts, 1 GPU, 2 VRAM slots, 1 arena slot, 3 requests, six kinds of clients, one expert on NVMe for two of them | `ReadyMeansContent`, `LifecycleInv`, `WaitedForIsDriven`, `SourceStable`, `Service`, `EveryRequestCloses` |
| `elm_parked` | the same sizes, a direct source, a client that only asks | violates `ParkedProgress` (finding) |
| `arena` | 3 experts, 2 DDR slots, 1 HBM slot, 2 readers, 2 versions of one file | `ArenaInv`, `RecordTruthful`, `ReadyIsWhole`, `ReadsAreStable`, `WritersOwnTheirSlot`, `MigrationKeepsResident`, `WarmRestartKeeps` |
| `rebalance` | 2 GPUs of 6 slabs, one with state, admissions of 4 or 5 slabs | `ZoneInv`, `HandbackQuiet`, `DemandMet` |
| `nvme` | 3 experts (one borrowed), queue of 2, completion ring of 1, 3 writes, 3 commands, 2 boots | `BufferLifetime`, `InflightExact`, `AcceptedNotForgotten`, `WritesSettle` |
| `nvme_cancel` | 2 experts, queue of 2, completion ring of 2, 3 writes, 2 commands, 1 boot | violates `EveryWriteReaped` (finding) |
| `kv` | 3 sequences of 3 pages of 2 rows, 2 layers, 5 VRAM pages, 2 cold slots, file of 1 page | `KvContentKept`, `KvAccountsExact`, `KvNeverFailsLoud` |
| `kv_fork` | the same without the restriction on forks, 1 layer, pages allocated ahead | violates `KvContentKept` (finding) |

What they show. `ipc`: the producer laps the ring twice while a batch is open, and
callbacks still see whole messages in order; reads of the snapshot are of one moment,
and end even if the writer dies inside a transaction. (The two structures share no
memory; a behaviour of `MCSharedMemory` uses one of them.) `transfer`: tokens are
cancelled and requested again around one staging slot, and slots, dedup map, index
and bins stay exact; none waits for ever. `cache`: with residents retagged at will, the
slots of zones that come and go are neither lost nor shared, and both mirrors are
current. `elm`: what is called ready has its bytes although reverted copies go on; with
a source to fall back to, every open request is driven by something that is really under
way, and closes. `arena`: at every step at which the daemon may
die the records are true, a slot being read or written belongs to one expert, and
an expert that moves stays readable. `rebalance`: slabs reach KV only when no
copy and no kernel can touch them, and a refused admission gets what was lent. `nvme`:
buffers outlive the kernel's use, a completion dropped by a full ring leaves a
command that can be cancelled, and of two writes out at once both are reaped as long as
nobody cancels. `kv`: forks, rewinds, hibernation and frees lose and
mix up no row, and every count of a page equals its holders.

Several invariants are conjunctions of named parts: `TransferInv` is types,
`TokensUnique`, `DedupExact`, `SlotsOwned` and `NoSlotLeak`; `LifecycleInv` is types,
`EveryOpenTracked` and `TierCacheAgree`; `ArenaInv` is types, `PinsExact` and
`PlacementExact`; `ZoneInv` is types, `LentExactly`, `NothingLeaks` and `LockedStays`;
`InflightExact` includes the types of its module.

### Bounds

The ring is symmetric in its wrap-around: two slots and five writes reach every
position of both cursors, full, empty and lapped. Two tokens are a running cancelled
copy and its successor, or two transfers that compete for the slot; an instance with
three on one GPU passed as well. Two experts over single-slot allocators exhaust every
allocator and force the fallbacks of `reserve`; two zones are needed for the oldest-first
order, three generations for grant, grant and drain, or grant, drain and remove. Of the
boot carve the run `cache` has the spill slot only, which retagging and spill mode touch;
stable and prefetch slots are in `cache_retag`, and the theorems cover every size. The
snapshot's lock allows two complete transactions against one read, which needs one to be
spoilt. In `elm`, two experts and one arena slot make
back-pressure, three requests a cancel, its successor and a joint interest. In `nvme`,
two experts can be written, so that two writes are out while a third command comes. In
`arena`, three experts for three slots make every load evict something, and the
swap needs a spare; two readers let one slot be evicted while another is read. Six slabs
leave room for one grant and an admission that does not fit beside it; an instance
with two grants and five slabs (608 thousand states) passed as well. Three
sequences are a root, a holder and a child; three pages have one cold, one in
flight and one hot; rewinds go back to the middle of the second page or to its
beginning, where the page may be cold. KV instances with rewinds to any row, with
six VRAM pages, with two sequences and three cold slots, or with one layer and pages
allocated ahead passed as well. Symmetry is used over experts, keys and readers
that no definition distinguishes, and only with safety properties.

Deadlock is not checked in the runs of `ExpertLifecycle`, `PinnedArena`, `NvmeTier` and
`KvTiering`: bounded
identifiers, versions or tokens end their behaviours. The others always have a next
call (the transfer engine ends in `Stopped` after `drain`).

### Fairness

`SpscRing`: the consumer drains on every cycle of its loop
(`DaemonLoop::run_one_cycle`; the orchestrator's loop on the other ring), and a
`try_write` that was entered returns. Backpressure (`pending_compute_count_fn`)
delays a drain and is assumed to end. `TransferEngine`: the daemon cycle polls
and flushes whatever commands come in between (`pump_completions`), hence strong
fairness of both; a loop that began ends; the GPU finishes its copies; time
passes. `StateSnapshot`: only the reader is fair; the writer may stop anywhere.
`ExpertLifecycle`: weak fairness of every branch of `poll`, of its loops and of
`flush_staged`; loads, copies and writes end, well or badly. `ZoneRebalancer`: the
tick and the streams are weakly fair; the retry of a refused admission is strongly
fair (the orchestrator tries again); no new layer and no new state claims slabs
while an admission waits. `NvmeTier`: poll, drain and the kernel are weakly fair.

### Findings

* `kv_fork`, `KvContentKept`. `handle_seq_fork` splits the last logical page of a full
  fork and shares the others, which a comment calls read-only. Pages are allocated
  ahead of the rows, so the last page may be an empty one and the half-full page
  before it is shared. A root with such a page is frozen into a holder and goes on
  writing; a child forked from the holder writes its first row over the root's.
* `cache_retag`, `SlotsExclusive`. `evict` picks the allocator by the entry's zone tag
  ("return to correct sub-allocator", `expert_cache.cpp:306`), and promote and demote
  change only the tag. Reserve in a stable slot, demote, evict: the slot number is now
  free in the streaming allocator, whose slot of that number may have an owner, and lost
  to the stable one. Leaving spill mode over a locked expert in a spill slot
  (`exit_spill_mode` refills the list) has the same effect.
* `elm_parked`, `ParkedProgress`. Entries parked for back-pressure of the arena are
  driven again by a copy that succeeds ("Each completion frees one slot → guaranteed
  progress", `expert_lifecycle_manager.cpp:1030`), not by one that fails or is cancelled,
  although that frees the slot too. With one slot the parked request stays open.
* `nvme_cancel`, `EveryWriteReaped`. The completion of a cancel request is counted off
  like that of a write (`nvme_tier.cpp:187`, `412`) but was never counted. With two
  writes out, one of them cancelled, the counter is 0 while the other is out: poll and
  drain pass over the drive, its buffer is never freed, and drain does not return.

### Disagreements not kept as runs

These were met while modelling; all are about what comments or callers rely on. Where
an instance or a client set excludes one, it says so.

* Transfer engine: max_inflight_per_gpu is called a hard cap on concurrent DMA
  (`transfer_engine.h:95`); cancelled copies keep running outside it. flush_staged
  "skips" delayed items (`transfer_engine.h:126`); it stops at the first one, so a
  delayed transfer holds back the rest of its GPU until the delay is over.
* Lifecycle manager: a cancel of a request that was answered reverts a hot entry
  (`late_cancel`); atomic commands make experts ready without the manager, which then
  refuses them (`atomic`); CMD_CACHE_EVICT frees slots behind the manager
  (`cache_evict`); a cancelled NVMe write never completes for those who wait for it
  (`nvme_cancel`). These clients are in run `elm`, where `Service`, `SourceStable` and
  the index of open requests hold for them; `ThroughManager` excepts them from the
  others. A loop of poll erases from the vector it runs over (`gpu_waiters`), which
  needs three GPUs to show. With a direct source and a full loader ring
  `try_start_h2d` leaves an entry reserved that is neither parked nor loading. A drain
  that ends while a MoE step holds its expert leaves the entry ABSENT with the slot still
  in the cache, since the answer of `evict` is not looked at; and an expert that drains is
  refused although its bytes are still there. The client sets have none that drains and
  locks.
* NVMe tier: a file found at start counts as fully populated although only one layer
  may have been written; `HostPtrHasWeights` states the claim and fails with two
  layers. CMD_NVME_READ registers token 0 and is
  answered by nobody (`ipc_protocol.h` promises an answer).
* KV tiering, all excluded from run `kv` by `AnyRewind = FALSE` and `Superchunk <= Retention`:
  the row cache of a sequence keeps rows above the frontier after two
  rewinds into demoted pages; the rewind hook is skipped for a sequence
  that has only pending pages (`attention_driver.cpp:470`), and the next layer then
  throws INV-KVT-2; with a retention window smaller than the superchunk another
  sequence's pressure sweep demotes a page that a later layer must write (the comment
  says it can not), with the same result. The instance of `kv` with `AnyRewind = TRUE` and
  `RewindTo = {0, 1}` violates `KvNeverFailsLoud` after six steps: four rows are written,
  the first page is pending, and a rewind into it is not seen by the hook.

## 4. Theorems

TLAPS checks them for every value of the constants that satisfies the module's
named assumption (sizes are natural numbers, symbols are distinct, ...).

| Theorem | Statement |
|---|---|
| `SharedMemoryProofs!CallbackSlotStability` | `Spec => []CallbackSlotStable` |
| `SharedMemoryProofs!RingIsFifoQueue` | `Spec => IsFifoQueue` |
| `TransferEngineProofs!TransferInvariant` | `Spec => []TransferInv` |
| `TransferEngineProofs!StagingSlotSafety` | `Spec => []StagingSlotExclusive` |
| `TransferEngineProofs!DedupExactness` | `Spec => []DedupExact` |
| `TransferEngineProofs!EngineIsTransferService` | `Spec => IsTransferService` |
| `ExpertCacheProofs!CacheInvariant` | `Spec => []CacheInv` |
| `ExpertCacheProofs!ElasticSlotSafety` | `Spec => []ElasticSlotsExact` |
| `ExpertCacheProofs!ElasticSafety` | `Spec => []ZonesOutliveResidents` |
| `ExpertCacheProofs!CapacitySafety` | `Spec => []CapacityFresh` |
| `ExpertCacheProofs!LockSafety` | `Spec => LockedStays` |
| `ExpertCacheProofs!BoardSafety` | `Spec => []BoardMirrorsStable` |
| `SharedMemoryProofs!AtomicReads` | `SnapshotSpec => []ReadsAreAtomic` |
| `TransferEngineProofs!StagedIndexSafety` | `Spec => []StagedIndexExact` |
| `NvmeTierProofs!BufferLifetimeHolds` | `Spec => []BufferLifetime` |
| `NvmeTierProofs!InflightExactHolds` | `Spec => []InflightExact` |
| `NvmeTierProofs!AcceptedNotForgottenHolds` | `Spec => []AcceptedNotForgotten` |
| `PinnedArenaProofs!ArenaTablesAgree` | `Spec => []ArenaInv` |
| `PinnedArenaProofs!RecordsAreTruthful` | `Spec => []RecordTruthful` |
| `PinnedArenaProofs!ReadySlotsAreWhole` | `Spec => []ReadyIsWhole` |
| `PinnedArenaProofs!ReadsStayStable` | `Spec => []ReadsAreStable` |
| `PinnedArenaProofs!WritersHaveTheirSlot` | `Spec => []WritersOwnTheirSlot` |
| `PinnedArenaProofs!MigrationIsSeamless` | `Spec => MigrationKeepsResident` |
| `PinnedArenaProofs!WarmRestartIsComplete` | `Spec => WarmRestartKeeps` |
| `ExpertLifecycleProofs!ManagerIsService` | `Spec => Service` |
| `ExpertLifecycleProofs!SourcesAreStable` | `Spec => []SourceStable` |
| `ExpertLifecycleProofs!ReadyHasContent` | `Spec => []ReadyMeansContent` |
| `ExpertLifecycleProofs!LifecycleBooksAgree` | `Spec => []LifecycleInv` |
| `ExpertLifecycleProofs!NothingIsForgotten` | `Spec => []WaitedForIsDriven` |
| `ZoneRebalancerProofs!ZoneBooksAgree` | `Spec => []ZoneInv` |
| `ZoneRebalancerProofs!HandbackIsQuiet` | `Spec => []HandbackQuiet` |
| `KvTieringProofs!AccountsExact` | `Spec => []KvAccountsExact` |
| `KvTieringProofs!OnlyWritesFail` | `Spec => []KvOnlyWritesFail` |

The cache's theorems have no hypothesis on its callers. The arena's need that the
symbols `Free` and `Torn` are no experts and that there are
finitely many readers (a pin count is a cardinality). Of the lifecycle manager's one has
a hypothesis on the clients, the boundary of a disagreement of section 3, met by the
instance of run `elm`: no client both drains and locks (`LifecycleBooksAgree`). The
others hold for every set of clients; `WaitedForIsDriven` itself speaks of arena experts,
a source that can fall back, and clients that go through the manager, because the parked
entries of a direct source are not driven (`elm_parked`). The rebalancer's need only
that marks, sizes and bounds are natural numbers, and that the pool is not too small
for it (otherwise it disables itself).

The arguments:

* Ring. That a callback's slot is stable does not follow from itself: the
  producer works with a stale `wcons`. `CursorsInOrder` says that the distance of
  the cursors never exceeds the slot count and that the batch lies between them;
  `WriterInvariant` that the stale cursor only errs on the safe side;
  `PublishedAreWhole` that every published slot holds a message. Two sequence
  numbers less than SlotCount apart have different indices (a lemma on `%`), so
  the producer's slot is none of the batch's. The refinement maps the slots from
  `consumer_seq + ri` on to the queue: CbEnd is Get, WritePublish is Put.
* Transfer engine. `TokensUnique` (a token is in one table, once, and its
  outcome is known) makes `DedupExact` inductive; `SlotsOwned` (running copies are in the
  pending table, slots of its entries are in use and distinct) makes
  `StagingSlotExclusive` follow. Refinement: `inflight` is `live`; sweeps and the
  environment stutter.
* Cache. `ElasticTellsHome` (an entry with an elastic zone id has its slot from that
  zone, and no other entry has) is what ties `evict` to `reserve`; for the boot carve
  there is no such conjunct, since retagging breaks it. `ZonesNumbered` keeps unborn zone
  ids unused.
* Snapshot. `LockTellsWriter` (the lock is odd exactly while a transaction is
  open) and `ReadWindow` (as long as the lock still has the value the reader
  loaded, nothing was written since).
* Staged index. `IndexInv` adds to `StagedIndexExact` that the queues are finite. A
  bin is a cardinality: what a step adds to or takes from a queue changes one bin by
  one, and a dispatch loop is one such step at a time.
* NVMe tier. `TierInv`: a write that the kernel holds has an entry in exactly one of
  `pending_` and the cancelled writes, and no completion yet (`SubmittedTracked`), so
  the entry that a completion finds is the one whose buffer it may free (`HeapExact`:
  the allocated buffers are those of the two tables). A cancel that loses its race
  leaves the write in the queue with its buffer held by the cancelled table; without
  that conjunct `BufferLifetime` is not inductive. `DispInv` has the types of the
  dispatcher's two token maps.
* Arena. `ArenaSound`. The tables have to be related while the migrator has moved half
  of a swap, and its steps go through intermediate tables, so the parts (`Placed`,
  `NoTwins`, `Located`, `Pins`, ...) take the tables as parameters and every primitive
  (evict, begin, commit, abort) has a lemma about them. That a record is true when the
  daemon dies needs the order of writes in the code (the record is set to loading before
  the first byte, to active after the last); that a warm attach may trust it needs
  `FilesGrow` (no bytes are newer than their file, so an unchanged version is an unchanged
  content).
* Lifecycle manager. `TokensExact` (a token is the interest of one entry or has an answer
  waiting) gives the refinement; `PinsHold` gives `SourceStable`. Content needs
  `ManagerInv`: `Held` (tier, interests and cache entry of one expert fit together),
  `SlotsDistinct`, and `CopyInv`: a live copy is the one of an entry that is TRANSFERRING,
  into its slot; whatever else writes to that slot is cancelled and ahead of it on the
  same stream; and nothing writes to a ready slot. The transitions are first sorted
  into kinds (one entry changes and copies do not; a copy starts; a copy is cancelled and
  its slot dropped; the engine flushes; a copy ends), each kind preserves `CopyInv`, and
  each action is of a kind; so no action is looked at twice. `WaitersAbsent` holds the loops over
  waiters to the entries they can meet. `DrivenInv` says for the time between the steps
  of a poll what `WaitedForIsDriven` says between polls: a reserved entry has a load under
  way that has it as a waiter, or is still in the loop's `todo`.

* Zone rebalancer. `ZoneSound`. Neither property is inductive: that a slab goes back
  with nothing on its way to it rests on the whole history of its reclaim, which
  `Fenced` states. From the drain on the zone is marked, so nothing is reserved in it;
  a grant with barriers has empty zones on every GPU, so no dispatch can lock one of
  its experts and no live copy is left (`CopiesOwn`: the slot of a live copy is
  arriving, and of no other copy); and every copy or kernel that still names the zone
  is at a position of its stream that the grant's recorded distance covers. Every
  operation that a stream completes moves both by one, so that distances of zero mean
  that none is left. The same facts show that `remove_elastic_zone` cannot refuse
  (`NothingLeaks`): a grant whose barriers are complete has zones to remove, all empty.
  `LentExactly` gives that erasing a grant takes away its slabs and its zone and
  nobody else's. The proof does not use the `moe_quiesced` check: a dispatch enqueues
  its kernels before it unlocks their experts, so the kernels that are pending when a
  zone has drained are on their streams already, ahead of the barriers.

* KV tiering. `AccountsExact` has no hypothesis: it holds for rewinds and forks of
  every kind, and in the state in which a check has thrown. The references cannot be
  proved alone: a poll frees the page that an item of the stream names, so items,
  handles and slots have to agree. `Good`: a cell has a slot exactly if it is in flight
  or cold, and no page if it is cold or in the file; pages and slots have as many
  references as cells name them; the counters are right for each sequence, and the
  totals are their sums; the deferred batch is of hot pages of one sequence; the copies
  under way and landed are of distinct cells, in flight, with their page and slot, and
  every cell in flight has one; what has a page or was demoted is a page that the
  sequence has, and the sequence is held. The last two have the child of a fork as an
  exception, because it has slots before it has pages and pages before it is held.
  `Worded` and `PassOk` say what texts are, and that a later layer trails the first by
  whole steps of its pass, so that only a rewind cuts rows off. Every helper has a lemma
  that names the fields that it changes and another that it keeps `Good`; a cardinality
  that changes (a counter, a reference) does so by a lemma on disjoint sets, and the sum
  over the sequences by the least counterexample, as for `Filtered` below.

  `OnlyWritesFail` has none either: of the three checks that throw, the fork of a
  sequence with a file and the release of a slot without references are never met, as a
  part of the same invariant (`PassOk`). The third, INV-KVT-2, is met by the code (end of
  section 3). The module also says when it is not, `NeverFailsLoud`: a sufficient
  condition (`Windowed`) that nothing in the code enforces, namely that the window is at
  least as long as a chunk and as a superchunk, and that no rewind goes into the middle of
  a demoted page or over a batch of its sequence that is pending. That no check throws is not inductive: INV-KVT-2 is checked when a layer begins, and
  the page that it would write was demoted by an earlier layer, by the pressure of
  another sequence, or as a page of the parent of a fork. `Tame` adds to the accounts,
  for each sequence (`Safe`): every page that was demoted or is in the deferred batch
  (`Going`) ends before the row that its layer writes next, which is the row of the
  decode step under way, or else the number of rows that the layer has (`Limit`); the
  position that the manager has seen is at most the rows of the first layer, and these
  fit into the pages; and during a prefill the first layer is at most a window ahead of
  `base`, which every layer has reached. The last is where the window is needed:
  pressure demotes what is a window behind the position seen (`Stale`), and so behind
  `base` (`StaleBehind`). Helpers have lemmas of the form `Ebbs(k, g, B)`, nothing new
  is demoted but cells of B, with B empty for what only moves pages on, `Stale(k)` for
  growth and its sweeps (`Calm`, `Grows`), the layer's own past for the hook after the
  attention (`Past`), the pages before the last row for a hibernating holder (`Reach`)
  and the child's cells for a fork. A sequence whose rows and pass do not change stays
  safe under these (`SafeKept`), so that one sequence per action is left: the one whose
  layer ran, that ended, or that was born, with what it inherits behind its parent's rows
  or lifted to VRAM before it writes.

`Filtered` (the erase-remove idiom) is a recursive function. What it computes is
needed only as "its elements are those of the filter", which is proved by taking the least
counterexample, since induction over data is out of the prover's reach.

Only model-checked: liveness (`EverySlotConsumed`, `EveryTransferSettles`,
`EveryReadEnds`, `EveryRequestCloses`, `DemandMet`, `WritesSettle`), which is beyond
the prover; and `KvContentKept`, which holds for the clients that `AnyFork` and
`AnyRewind` leave and needs, besides `Tame`, what every page, slot, cached row and file
holds and who may still write a shared page.

## 5. What is left

1. `WaitedForIsDriven` for experts of the NVMe tier; a proof of `KvContentKept`; the
   rewinds that `AnyRewind` adds, as a run of their own.
2. The command dispatcher's compute throttle and the publication of the snapshot.
3. Placement of a sequence's pages in slabs, and KV tiering over several ranks.
4. The orchestrator: requests, commands in flight, speculative verification.

## 6. Not modelled

Most of the repository's lines are GPU kernels and their launches, tensor formats
and model loading, configuration parsing, and boot-time layout and wiring: code
without state that changes over a life, or whose correctness is numeric. They are
not modelled, and neither are numeric placement, statistics and prediction (their values matter for
speed, not for correctness), the policies of the Python orchestrator,
autoconfiguration, tokenizer and command line. In `TransferEngine` the order
of copies within one stream is weakened to any order (`ExpertLifecycle` and
`ZoneRebalancer` keep it). Device failures are modelled as
transfers that fail, not as the shutdown that follows.
