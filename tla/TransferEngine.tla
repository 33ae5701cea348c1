----------------------------- MODULE TransferEngine -----------------------------
(***************************************************************************)
(* src/core/transfer/transfer_engine.{h,cpp}: the asynchronous DMA engine  *)
(* of the daemon.  A transfer is either dispatched at once, or staged in a *)
(* per-GPU priority queue and dispatched by a later sweep (flush_staged,   *)
(* replenish_gpu, dispatch_staged_at_least, drain).  A dispatched transfer *)
(* may hold a slot of the pinned staging pool until its copy has finished. *)
(*                                                                         *)
(* The engine runs on the daemon thread only: its methods are atomic but   *)
(* for the sweeps, whose loop iterations are steps of their own (no other  *)
(* method runs until the sweep is over).  Concurrent with it are the GPUs, *)
(* which finish copies, and time, which lets start delays elapse.          *)
(***************************************************************************)
EXTENDS Integers, FiniteSets

CONSTANTS Experts,          \* expert keys
          Gpus,             \* indices of the GPUs
          Priorities,       \* priorities a transfer may have
          Thresholds,       \* priority_bin_thresholds_
          MinDispatch,      \* min_dispatch_per_gpu_
          MaxInflight,      \* max_inflight_per_gpu_
          PoolSize,         \* slots of the pinned staging pool
          NeedsStaging,     \* experts whose host source is not pinned
          Oversized,        \* experts larger than a staging slot
          FarGateDispatch,  \* LS_FAR_GATE_DISPATCH: forced dispatch is used
          MaxTokens         \* bound: transfers issued in one behaviour

ASSUME TransferAssumption ==
  /\ Gpus \subseteq Nat /\ IsFiniteSet(Gpus) /\ Gpus # {}
  /\ Priorities \subseteq Nat /\ Thresholds \subseteq Nat /\ IsFiniteSet(Thresholds)
  /\ MinDispatch \in Nat /\ MaxInflight \in Nat
  /\ PoolSize \in Nat /\ MaxTokens \in Nat
  /\ NeedsStaging \subseteq Experts /\ Oversized \subseteq Experts
  /\ FarGateDispatch \in BOOLEAN

VARIABLES
  next_token,
  inflight,           \* dedup map: the live token of every id, 0 when absent
  staged,             \* the staged_ queues, one set: st.id.gpu tells the queue
  staged_token_gpu,   \* tokens of the index beside the queues
  bins,               \* staged_bin_counts_
  pending,            \* dispatched transfers whose event was not seen yet
  in_use,             \* pinned_pool_: slots in use
  sweep,              \* the dispatch loop being run, if any
  closed,             \* drain() was called
  dma,                \* copies the GPUs have not finished, with their slot
  outcome             \* history: what became of every token

vars == <<next_token, inflight, staged, staged_token_gpu, bins, pending,
          in_use, sweep, closed, dma, outcome>>

Dirs   == {"H2D", "D2H"}
Ids    == [key : Experts, gpu : Gpus, dir : Dirs]
Tokens == 1..MaxTokens
Slots  == 1..PoolSize
Delays == {"waiting", "elapsed"}  \* delay_us > 0 and not over yet, or not
Staged == [token : Tokens, id : Ids, prio : Priorities, delay : Delays]
Pending == [token : Tokens, id : Ids, prio : Priorities, slot : 0..PoolSize,
            state : {"live", "cancelled"}]
Idle   == [kind |-> "idle", gpus |-> {}, prio |-> 0]

Bins == 0..Cardinality(Thresholds)
bin_for(p) == Cardinality({t \in Thresholds : t <= p})

Init ==
  /\ next_token = 1
  /\ inflight = [i \in Ids |-> 0]
  /\ staged = {} /\ staged_token_gpu = {}
  /\ bins = [g \in Gpus |-> [b \in Bins |-> 0]]
  /\ pending = {} /\ in_use = {} /\ dma = {}
  /\ sweep = Idle /\ closed = FALSE
  /\ outcome = [t \in Tokens |-> "none"]

-------------------------------------------------------------------------------
(* Counting.  inflight_count counts staged transfers too; the sweeps count *)
(* only what was dispatched, and neither counts a cancelled copy.          *)

inflight_count(g) == Cardinality({i \in Ids : i.gpu = g /\ inflight[i] # 0})

dispatched_count(g) ==
  Cardinality({i \in Ids : /\ i.gpu = g /\ inflight[i] # 0
                           /\ inflight[i] \notin staged_token_gpu})

\* The slot a copy is staged through (a singleton): the lowest free one, 0 when
\* none is needed, none is free, or the expert does not fit.
acquire_pinned_slot(id) ==
  LET Free == Slots \ in_use
  IN IF id.dir = "H2D" /\ id.key \in NeedsStaging /\ Free # {} /\ id.key \notin Oversized
     THEN {s \in Free : \A r \in Free : s <= r}
     ELSE {0}

\* memcpy_async + record_event + the entry of pending_.
Dispatch(t, id, p) ==
  \E slot \in acquire_pinned_slot(id) :
     /\ pending' = pending \cup {[token |-> t, id |-> id, prio |-> p, slot |-> slot,
                                 state |-> "live"]}
     /\ in_use' = in_use \cup ({slot} \ {0})
     /\ dma' = dma \cup {[token |-> t, slot |-> slot]}

-------------------------------------------------------------------------------
(* enqueue_impl.  An id that is live is refused (nullopt): no step.         *)

Enqueue(id, p, delay) ==
  LET t == next_token IN
  /\ sweep = Idle /\ ~closed
  /\ t <= MaxTokens
  /\ inflight[id] = 0
  /\ next_token' = t + 1
  /\ inflight' = [inflight EXCEPT ![id] = t]
  /\ outcome' = [outcome EXCEPT ![t] = "live"]
  /\ IF delay = "elapsed" /\ inflight_count(id.gpu) < MinDispatch
     THEN /\ Dispatch(t, id, p)
          /\ UNCHANGED <<staged, staged_token_gpu, bins>>
     ELSE /\ staged' = staged \cup
                {[token |-> t, id |-> id, prio |-> p, delay |-> delay]}
          /\ staged_token_gpu' = staged_token_gpu \cup {t}
          /\ bins' = [bins EXCEPT ![id.gpu][bin_for(p)] = @ + 1]
          /\ UNCHANGED <<pending, in_use, dma>>
  /\ UNCHANGED <<sweep, closed>>

-------------------------------------------------------------------------------
(* The sweeps.                                                             *)

StartSweep(kind, gpus, p) ==
  sweep' = IF gpus = {} THEN Idle ELSE [kind |-> kind, gpus |-> gpus, prio |-> p]

flush_staged ==
  /\ sweep = Idle /\ ~closed
  /\ StartSweep("flush", Gpus, 0)
  /\ UNCHANGED <<next_token, inflight, staged, staged_token_gpu, bins, pending,
                 in_use, closed, dma, outcome>>

dispatch_staged_at_least(g, p) ==
  /\ FarGateDispatch
  /\ sweep = Idle /\ ~closed
  /\ StartSweep("force", {g}, p)
  /\ UNCHANGED <<next_token, inflight, staged, staged_token_gpu, bins, pending,
                 in_use, closed, dma, outcome>>

\* Shutdown: everything staged is dispatched, delays or not, then polled away.
drain ==
  /\ sweep = Idle /\ ~closed
  /\ closed' = TRUE
  /\ StartSweep("drain", Gpus, 0)
  /\ UNCHANGED <<next_token, inflight, staged, staged_token_gpu, bins, pending,
                 in_use, dma, outcome>>

SweepGpu == CHOOSE g \in sweep.gpus : \A h \in sweep.gpus : g <= h

\* q.top(): any of the staged transfers of highest priority (ties are the heap's).
Top(st, g) == /\ st \in staged /\ st.id.gpu = g
              /\ \A o \in staged : o.id.gpu = g => o.prio <= st.prio

\* Mutant: the sweeps count staged transfers against the limit as well.
MayGoOnCountsStaged(st, g) ==
  \/ sweep.kind = "replenish" /\ inflight_count(g) < MinDispatch
  \/ sweep.kind = "flush" /\ inflight_count(g) < MaxInflight
  \/ sweep.kind = "force" /\ st.prio >= sweep.prio
  \/ sweep.kind = "drain"

\* The loop condition of the running sweep, with st on top of the queue.
MayGoOn(st, g) ==
  \/ sweep.kind = "replenish" /\ dispatched_count(g) < MinDispatch
  \/ sweep.kind = "flush" /\ dispatched_count(g) < MaxInflight
  \/ sweep.kind = "force" /\ st.prio >= sweep.prio
  \/ sweep.kind = "drain"

\* One iteration that dispatches (dispatch_staged).
SweepDispatch ==
  /\ sweep # Idle
  /\ LET g == SweepGpu IN
     \E st \in staged :
        /\ Top(st, g) /\ MayGoOn(st, g)
        /\ sweep.kind = "drain" \/ st.delay = "elapsed"
        /\ Dispatch(st.token, st.id, st.prio)
        /\ staged' = staged \ {st}
        /\ staged_token_gpu' = staged_token_gpu \ {st.token}
        /\ bins' = [bins EXCEPT ![g][bin_for(st.prio)] = @ - 1]
  /\ UNCHANGED <<next_token, inflight, sweep, closed, outcome>>

\* The loop of this GPU ends: queue empty, limit reached, or the item on top
\* still has to wait (it is pushed back and the loop breaks).
SweepGpuDone ==
  /\ sweep # Idle
  /\ LET g == SweepGpu IN
     /\ \/ \A st \in staged : st.id.gpu # g
        \/ \E st \in staged :
              /\ Top(st, g)
              /\ ~MayGoOn(st, g) \/ (sweep.kind # "drain" /\ st.delay = "waiting")
     /\ StartSweep(sweep.kind, sweep.gpus \ {g}, sweep.prio)
  /\ UNCHANGED <<next_token, inflight, staged, staged_token_gpu, bins, pending,
                 in_use, closed, dma, outcome>>

-------------------------------------------------------------------------------
(* poll_completions.                                                       *)

Ready == {p \in pending : \A d \in dma : d.token # p.token}

\* Mutant: the early-out for cancelled transfers is missing.
poll_reports_cancelled(D, Failed) ==
  /\ sweep = Idle
  /\ D \subseteq Ready
  /\ pending' = pending \ D
  /\ in_use' = in_use \ {p.slot : p \in D}
  /\ inflight' = [i \in Ids |-> IF \E p \in D : p.id = i THEN 0 ELSE inflight[i]]
  /\ outcome' = [t \in Tokens |->
                   IF \E p \in D : p.token = t
                   THEN IF t \in Failed THEN "failed" ELSE "completed"
                   ELSE outcome[t]]
  /\ StartSweep("replenish", {p.id.gpu : p \in D}, 0)
  /\ UNCHANGED <<next_token, staged, staged_token_gpu, bins, closed, dma>>

\* Mutant: a cancelled transfer that finishes erases the dedup entry of its id.
poll_erases_for_cancelled(D, Failed) ==
  LET Live == {p \in D : p.state = "live"} IN
  /\ sweep = Idle
  /\ D \subseteq Ready
  /\ pending' = pending \ D
  /\ in_use' = in_use \ {p.slot : p \in D}
  /\ inflight' = [i \in Ids |-> IF \E p \in D : p.id = i THEN 0 ELSE inflight[i]]
  /\ outcome' = [t \in Tokens |->
                   IF \E p \in Live : p.token = t
                   THEN IF t \in Failed THEN "failed" ELSE "completed"
                   ELSE outcome[t]]
  /\ StartSweep("replenish", {p.id.gpu : p \in Live}, 0)
  /\ UNCHANGED <<next_token, staged, staged_token_gpu, bins, closed, dma>>

\* Mutant: the early-out for cancelled transfers comes before the slot's release.
poll_leaks_cancelled_slot(D, Failed) ==
  LET Live == {p \in D : p.state = "live"} IN
  /\ sweep = Idle
  /\ D \subseteq Ready
  /\ pending' = pending \ D
  /\ in_use' = in_use \ {p.slot : p \in Live}
  /\ inflight' = [i \in Ids |-> IF \E p \in Live : p.id = i THEN 0 ELSE inflight[i]]
  /\ outcome' = [t \in Tokens |->
                   IF \E p \in Live : p.token = t
                   THEN IF t \in Failed THEN "failed" ELSE "completed"
                   ELSE outcome[t]]
  /\ StartSweep("replenish", {p.id.gpu : p \in Live}, 0)
  /\ UNCHANGED <<next_token, staged, staged_token_gpu, bins, closed, dma>>

\* D: the transfers whose event the scan of pending_ found signalled; a copy
\* that finishes during the scan may be missed.  Failed: events in error.
poll_completions(D, Failed) ==
  LET Live == {p \in D : p.state = "live"} IN
  /\ sweep = Idle
  /\ D \subseteq Ready
  /\ pending' = pending \ D
  /\ in_use' = in_use \ {p.slot : p \in D}
  /\ inflight' = [i \in Ids |-> IF \E p \in Live : p.id = i THEN 0 ELSE inflight[i]]
  /\ outcome' = [t \in Tokens |->
                   IF \E p \in Live : p.token = t
                   THEN IF t \in Failed THEN "failed" ELSE "completed"
                   ELSE outcome[t]]
  /\ StartSweep("replenish", {p.id.gpu : p \in Live}, 0)
  /\ UNCHANGED <<next_token, staged, staged_token_gpu, bins, closed, dma>>

-------------------------------------------------------------------------------
(* cancel and reprioritize.  Unknown tokens are refused: no step.           *)

CancelStaged(st) ==
  /\ sweep = Idle /\ ~closed
  /\ st.token \in staged_token_gpu
  /\ staged' = staged \ {st}
  /\ staged_token_gpu' = staged_token_gpu \ {st.token}
  /\ inflight' = [inflight EXCEPT ![st.id] = 0]
  /\ bins' = [bins EXCEPT ![st.id.gpu][bin_for(st.prio)] = @ - 1]
  /\ outcome' = [outcome EXCEPT ![st.token] = "cancelled"]
  /\ UNCHANGED <<next_token, pending, in_use, sweep, closed, dma>>

\* Mutant: the staging slot is given back at once (the defect TD-82k).
CancelDispatchedFreesSlot(p) ==
  /\ sweep = Idle /\ ~closed
  /\ p.state = "live"
  /\ pending' = (pending \ {p}) \cup {[p EXCEPT !.state = "cancelled", !.slot = 0]}
  /\ in_use' = in_use \ {p.slot}
  /\ inflight' = [inflight EXCEPT ![p.id] = 0]
  /\ outcome' = [outcome EXCEPT ![p.token] = "cancelled"]
  /\ UNCHANGED <<next_token, staged, staged_token_gpu, bins, sweep, closed, dma>>

\* The copy cannot be stopped: the entry stays, marked, with its slot.
CancelDispatched(p) ==
  /\ sweep = Idle /\ ~closed
  /\ p.state = "live"
  /\ pending' = (pending \ {p}) \cup {[p EXCEPT !.state = "cancelled"]}
  /\ inflight' = [inflight EXCEPT ![p.id] = 0]
  /\ outcome' = [outcome EXCEPT ![p.token] = "cancelled"]
  /\ UNCHANGED <<next_token, staged, staged_token_gpu, bins, in_use, sweep, closed, dma>>

\* Mutant: the raised transfer stays counted in the bin it was staged in.
reprioritize_keeps_bin(st, p) ==
  /\ sweep = Idle /\ ~closed
  /\ st.token \in staged_token_gpu /\ p > st.prio
  /\ staged' = (staged \ {st}) \cup {[st EXCEPT !.prio = p]}
  /\ UNCHANGED <<next_token, inflight, staged_token_gpu, bins, pending, in_use, sweep,
                 closed, dma, outcome>>

reprioritize(st, p) ==
  /\ sweep = Idle /\ ~closed
  /\ st.token \in staged_token_gpu /\ p > st.prio
  /\ staged' = (staged \ {st}) \cup {[st EXCEPT !.prio = p]}
  /\ bins' = [bins EXCEPT ![st.id.gpu] =
                [b \in Bins |-> @[b] - (IF b = bin_for(st.prio) THEN 1 ELSE 0)
                                     + (IF b = bin_for(p) THEN 1 ELSE 0)]]
  /\ UNCHANGED <<next_token, inflight, staged_token_gpu, pending, in_use, sweep,
                 closed, dma, outcome>>

-------------------------------------------------------------------------------
(* The environment.                                                        *)

\* A copy ends (the copies of one stream end in order; the model allows any).
DmaFinishes(d) ==
  /\ dma' = dma \ {d}
  /\ UNCHANGED <<next_token, inflight, staged, staged_token_gpu, bins, pending,
                 in_use, sweep, closed, outcome>>

\* A start delay elapses; a sweep reads the clock once, when it begins.
DelayElapses(st) ==
  /\ sweep = Idle
  /\ st.delay = "waiting"
  /\ staged' = (staged \ {st}) \cup {[st EXCEPT !.delay = "elapsed"]}
  /\ UNCHANGED <<next_token, inflight, staged_token_gpu, bins, pending, in_use,
                 sweep, closed, dma, outcome>>

\* The engine was drained and nothing is left to poll.
Stopped == closed /\ sweep = Idle /\ pending = {} /\ UNCHANGED vars

Poll == \E D \in SUBSET Ready :
          \E Failed \in SUBSET {p.token : p \in D} : poll_completions(D, Failed)

Next ==
  \/ \E id \in Ids, p \in Priorities, delay \in Delays : Enqueue(id, p, delay)
  \/ flush_staged
  \/ \E g \in Gpus, p \in Priorities : dispatch_staged_at_least(g, p)
  \/ drain
  \/ SweepDispatch
  \/ SweepGpuDone
  \/ Poll
  \/ \E st \in staged : CancelStaged(st)
  \/ \E p \in pending : CancelDispatched(p)
  \/ \E st \in staged, p \in Priorities : reprioritize(st, p)
  \/ \E d \in dma : DmaFinishes(d)
  \/ \E st \in staged : DelayElapses(st)
  \/ Stopped

Spec == Init /\ [][Next]_vars

\* run_one_cycle polls and flushes in every cycle, whatever commands arrive in
\* between; a loop that began ends; GPUs finish their copies; time passes.
FairSpec ==
  /\ Spec
  /\ SF_vars(\E Failed \in SUBSET Tokens :
               Ready # {} /\ poll_completions(Ready, Failed))
  /\ SF_vars(flush_staged)
  /\ WF_vars(SweepDispatch \/ SweepGpuDone)
  /\ WF_vars(\E d \in dma : DmaFinishes(d))
  /\ SF_vars(\E st \in staged : DelayElapses(st))

-------------------------------------------------------------------------------
(* Properties.                                                             *)

TypeOK ==
  /\ next_token \in 1..MaxTokens + 1
  /\ inflight \in [Ids -> 0..MaxTokens]
  /\ staged \subseteq Staged
  /\ staged_token_gpu \subseteq Tokens
  /\ bins \in [Gpus -> [Bins -> Int]]
  /\ pending \subseteq Pending
  /\ in_use \subseteq Slots
  /\ sweep \in [kind : {"idle", "flush", "replenish", "force", "drain"},
                gpus : SUBSET Gpus, prio : Nat]
  /\ closed \in BOOLEAN
  /\ dma \subseteq [token : Tokens, slot : 0..PoolSize]
  /\ outcome \in [Tokens -> {"none", "live", "completed", "failed", "cancelled"}]

\* A copy that a GPU has not finished, cancelled or not, has its pinned staging
\* slot to itself: the slot is marked in use and no other copy reads from it, so
\* no later memcpy into the pool changes what is being transferred (TD-82k).
StagingSlotExclusive ==
  \A d \in dma : d.slot # 0 =>
     /\ d.slot \in in_use
     /\ \A e \in dma : e.slot = d.slot => e = d

\* No pool slot leaks: one is in use only while a dispatched transfer holds it.
NoSlotLeak == \A s \in in_use : \E p \in pending : p.slot = s

\* inflight_ holds exactly the transfers that are staged, or dispatched and not
\* cancelled, each under its own token: a live one is never re-issued, and a
\* cancelled or finished one never blocks the next request for its expert.
DedupExact ==
  /\ \A st \in staged : inflight[st.id] = st.token
  /\ \A p \in pending : p.state = "live" => inflight[p.id] = p.token
  /\ \A i \in Ids : inflight[i] # 0 =>
        \/ \E st \in staged : st.id = i /\ st.token = inflight[i]
        \/ \E p \in pending : p.id = i /\ p.token = inflight[i] /\ p.state = "live"

\* staged_token_gpu_ and staged_bin_counts_, kept beside the queues, agree with
\* them (pending_bin_counts, cancel and the limits rely on it).
StagedIndexExact ==
  /\ staged_token_gpu = {st.token : st \in staged}
  /\ \A g \in Gpus, b \in Bins :
        bins[g][b] = Cardinality({st \in staged : st.id.gpu = g /\ bin_for(st.prio) = b})

\* What makes the two properties above inductive: tokens are fresh and name one
\* transfer, whose outcome is known; slots belong to the table's entries.
TokensUnique ==
  /\ \A r, q \in staged : r.token = q.token => r = q
  /\ \A r, q \in pending : r.token = q.token => r = q
  /\ \A st \in staged, p \in pending : st.token # p.token
  /\ \A st \in staged : st.token < next_token /\ outcome[st.token] = "live"
  /\ \A p \in pending : p.token < next_token /\ outcome[p.token] = p.state
  /\ \A t \in Tokens : t >= next_token => outcome[t] = "none"

SlotsOwned ==
  /\ \A p \in pending : p.slot # 0 => p.slot \in in_use
  /\ \A p, q \in pending : p.slot = q.slot /\ p.slot # 0 => p = q
  /\ \A d \in dma : \E p \in pending : p.token = d.token /\ p.slot = d.slot

TransferInv == TypeOK /\ TokensUnique /\ DedupExact /\ SlotsOwned /\ NoSlotLeak

Service == INSTANCE TransferService WITH live <- inflight

\* The engine implements TransferService: one live transfer per expert, GPU and
\* direction; every token settles once; a cancelled token never reports, although
\* its copy runs to the end.
IsTransferService == Service!Spec

\* Every transfer that was accepted is completed, failed or cancelled in the end:
\* neither delays, limits nor the priority queue hold one back for ever.
EveryTransferSettles ==
  \A t \in Tokens : outcome[t] = "live" ~> outcome[t] # "live"
===============================================================================
