----------------------------- MODULE ZoneRebalancer -----------------------------
(***************************************************************************)
(* The KV <-> expert zone rebalancer of                                    *)
(* src/daemon/expert_zone_rebalancer.cpp, with what it moves and what may  *)
(* still touch it: the KV slabs of every tensor-parallel GPU               *)
(* (page_allocator.cpp), the elastic zones of the expert cache             *)
(* (expert_cache.cpp), the copy stream and the FFN stream of every GPU,    *)
(* and the MoE dispatch (moe_progressive.cpp) that locks experts, enqueues *)
(* kernels that read them and unlocks them before those have run.          *)
(*                                                                         *)
(* The daemon thread runs one action at a time; the streams run by         *)
(* themselves, each in order.  A page is a slab (pages_per_slab = 1).      *)
(***************************************************************************)
EXTENDS ZoneGeometry, FiniteSets, SequencesExt

CONSTANTS Ranks,                  \* tp_gpus are 1..Ranks, 1 chooses
          Slabs,                  \* slabs of a GPU
          StateGpus, MaxState,    \* GPUs with state of their own, bound: its slabs
          Prompts,                \* slabs that an admission needs on every GPU
          Transient, Growth,      \* admission_transient_slabs, per_step_growth_slabs
          Concurrency,            \* max_concurrent_admissions
          FracLow, FracHigh,      \* the fraction floors of the marks, in slabs
          MainReserved,           \* the INV-4.9f floor
          MaxSlots,               \* max_slots_per_grant
          CooldownTicks,          \* grant_cooldown_ticks_
          StreamDepth             \* bound: operations on a stream

Gpus == 1..Ranks
Ids  == 0..(Slabs - 1)

VARIABLES
  slab,       \* PageAllocator: who has a slab of a GPU
  zones,      \* ExpertCache: per GPU the elastic zones, by their first slab
  grants_,    \* GrantRec, oldest first
  cooldown, eager,  \* grant_cooldown_left_; eager_demand_free_slabs_ if armed, else Unarmed
  stage,      \* "loop", or what comes next in a tick: "pressure", "grant"
  h2d, ffn,   \* the streams: copies and kernels, with the slabs they touch
  moe,        \* the dispatch: the zone residents it has locked, its pending compute
  waiting     \* slabs that a refused admission waits for

streamVars == <<h2d, ffn>>
vars == <<slab, zones, grants_, cooldown, eager, stage, h2d, ffn, moe, waiting>>

Unarmed == -1
NoMoe == [state |-> "idle", locked |-> {}, on |-> 1, ahead |-> 0]
Span(g) == g.start..(g.start + g.num - 1)

Init ==
  /\ slab = [g \in Gpus |-> [s \in Ids |-> "free"]]
  /\ zones = [g \in Gpus |-> <<>>]
  /\ grants_ = <<>> /\ cooldown = 0 /\ eager = Unarmed
  /\ h2d = [g \in Gpus |-> <<>>] /\ ffn = [g \in Gpus |-> <<>>]
  /\ moe = NoMoe /\ waiting = 0 /\ stage = "loop"

-------------------------------------------------------------------------------
(* The marks, and the pool.                                                *)

MaxOf(a, b) == IF a > b THEN a ELSE b
MinOf(a, b) == IF a < b THEN a ELSE b

TwoGrants == 2 * grant_slabs(MinOf(MaxSlots, best_fit(Slabs, Worst)), Slabs)
Low  == MaxOf(Concurrency * (Transient + Growth), FracLow)
Band == IF Growth > 0 THEN 2 * Growth ELSE MaxOf(2 * Transient, TwoGrants)
High == MaxOf(Low + Band, FracHigh)
grant_floor_slabs == MaxOf(High, Low + Transient + Growth)

\* The rebalancer disables itself on a pool that is too small.
ASSUME RebalancerAssumption ==
  /\ Ranks \in Nat \ {0} /\ Slabs \in Nat \ {0} /\ StateGpus \subseteq Gpus
  /\ Concurrency \in Nat \ {0} /\ Transient \in Nat /\ Growth \in Nat
  /\ FracLow \in Nat /\ FracHigh \in Nat /\ MainReserved \in Nat
  /\ MaxSlots \in Nat /\ CooldownTicks \in Nat /\ StreamDepth \in Nat
  /\ Prompts \subseteq 1..Slabs
  /\ TwoGrants > 0 /\ grant_floor_slabs < Slabs

Free(sl, g) == {s \in Ids : sl[g][s] = "free"}
min_free_slabs(sl) ==
  CHOOSE n \in 0..Slabs : /\ \E g \in Gpus : Cardinality(Free(sl, g)) = n
                          /\ \A g \in Gpus : Cardinality(Free(sl, g)) >= n

Filled(sl, g, span, what) ==
  [sl EXCEPT ![g] = [s \in Ids |-> IF s \in span THEN what ELSE sl[g][s]]]

InReclaim(g) == g.st \in {"draining", "barrier"}
slabs_in_reclaim(gs) == FoldSeq(LAMBDA g, n : IF InReclaim(g) THEN n + g.num ELSE n, 0, gs)
any_reclaim_in_flight(gs) == \E i \in DOMAIN gs : InReclaim(gs[i])

-------------------------------------------------------------------------------
(* Step (A): reclaims move on.                                             *)

Residents(zs, g, id) == {i \in DOMAIN zs[g][id].slots : zs[g][id].slots[i] # "free"}

Evictable(g, id, i) ==
  zones[g][id].slots[i] = "ready" /\ <<g, id, i>> \notin moe.locked

\* drain_residents on every draining grant: what is ready and unlocked is evicted.
\* (A resident that the lifecycle manager refuses to evict counts as arriving.)
Drained ==
  [g \in Gpus |-> [id \in DOMAIN zones[g] |->
     IF \E j \in DOMAIN grants_ : grants_[j].start = id /\ grants_[j].st = "draining"
     THEN [zones[g][id] EXCEPT !.slots =
             [i \in DOMAIN @ |-> IF Evictable(g, id, i) THEN "free" ELSE @[i]]]
     ELSE zones[g][id]]]

\* Mutant: the pipeline has to be idle.
moe_quiesced_idle == moe.state = "idle"

\* No kernel is pending; a layer that is stalled does not count.
moe_quiesced == moe.state # "pending"

\* Mutant: only the copies are waited for.
record_barriers_h2d(g) ==
  [g EXCEPT !.st = "barrier", !.h2d = [r \in Gpus |-> Len(h2d[r])]]

\* An event at the tail of a stream: what is ahead of it.
record_barriers(g) ==
  [g EXCEPT !.st = "barrier", !.h2d = [r \in Gpus |-> Len(h2d[r])],
                              !.ffn = [r \in Gpus |-> Len(ffn[r])]]

barriers_complete(g) == \A r \in Gpus : g.h2d[r] = 0 /\ g.ffn[r] = 0

\* A draining grant, once drained in every GPU while no kernel is pending, gets
\* its barriers.
Barriered(zs, g) ==
  IF /\ g.st = "draining" /\ \A r \in Gpus : Residents(zs, r, g.start) = {}
     /\ moe_quiesced
  THEN record_barriers(g) ELSE g

\* remove_elastic_zone refuses a zone that is not empty, or not there.
Removable(zs, r, g) == g.start \in DOMAIN zs[r] /\ Residents(zs, r, g.start) = {}
Finishing(g) == g.st = "barrier" /\ barriers_complete(g)
Reclaimed(zs, g) == Finishing(g) /\ \A r \in Gpus : Removable(zs, r, g)

release_expert_zone(sl, gone) ==
  [r \in Gpus |-> [s \in Ids |-> IF \E g \in gone : s \in Span(g) THEN "free" ELSE sl[r][s]]]

\* What is left of a vector when the positions outside K are erased.
InOrder(q, K) ==
  [j \in 1..Cardinality(K) |-> q[CHOOSE i \in K : Cardinality({k \in K : k <= i}) = j]]

\* finish_reclaim: where every zone could be removed the slabs go back, else the
\* grant is leaked (and the zones that could be removed are gone).
advance_reclaims ==
  LET zs   == Drained
      gs   == [i \in DOMAIN grants_ |-> Barriered(zs, grants_[i])]
      over == {g \in ToSet(gs) : Finishing(g)}
      gone == {g \in over : Reclaimed(zs, g)}
      kept == InOrder(gs, {i \in DOMAIN gs : gs[i] \notin gone})
      empty(r) == {g.start : g \in {h \in over : Removable(zs, r, h)}} IN
  /\ stage = "loop"
  /\ stage' = "pressure"
  /\ zones' = [r \in Gpus |-> [id \in DOMAIN zones[r] \ empty(r) |-> zs[r][id]]]
  /\ grants_' = [i \in DOMAIN kept |->
                   IF kept[i] \in over THEN [kept[i] EXCEPT !.st = "leaked"] ELSE kept[i]]
  /\ slab' = release_expert_zone(slab, gone)
  /\ cooldown' = IF gone # {} THEN CooldownTicks ELSE MaxOf(0, cooldown - 1)
  /\ UNCHANGED <<eager, streamVars, moe, waiting>>

-------------------------------------------------------------------------------
(* Step (B): pressure; the newest grants are drained first.                *)

Target == IF eager # Unarmed THEN MaxOf(High, eager) ELSE High

\* The grants to drain: from the newest on, until the target is covered.
ToDrain ==
  LET covered  == min_free_slabs(slab) + slabs_in_reclaim(grants_)
      newer(i) == SelectSeq(SubSeq(grants_, i + 1, Len(grants_)), LAMBDA g : g.st = "active")
      before(i) == FoldSeq(LAMBDA g, n : n + g.num, covered, newer(i)) IN
  {i \in DOMAIN grants_ : /\ grants_[i].st = "active"
                          /\ before(i) < Target \/ (eager # Unarmed /\ newer(i) = <<>>)}

begin_drain_elastic_zone(starts) ==
  [r \in Gpus |-> [id \in DOMAIN zones[r] |->
     IF id \in starts THEN [zones[r][id] EXCEPT !.draining = "yes"] ELSE zones[r][id]]]

\* Every grant that covers the target is draining now, or none is left to drain:
\* the eager reclaim is over in the tick that serves it.
pressure ==
  LET drain == ToDrain IN
  /\ stage = "pressure" /\ stage' = "grant" /\ eager' = Unarmed
  /\ IF min_free_slabs(slab) < Low \/ eager # Unarmed
     THEN /\ zones' = begin_drain_elastic_zone({grants_[i].start : i \in drain})
          /\ grants_' = [i \in DOMAIN grants_ |->
                           IF i \in drain THEN [grants_[i] EXCEPT !.st = "draining"] ELSE grants_[i]]
     ELSE UNCHANGED <<zones, grants_>>
  /\ UNCHANGED <<slab, cooldown, streamVars, moe, waiting>>

-------------------------------------------------------------------------------
(* Step (C): a grant.                                                      *)

Runs(g, n) == {s \in Ids : s + n - 1 \in Ids /\ s..(s + n - 1) \subseteq Free(slab, g)}
largest_free_run(g) ==
  CHOOSE n \in 0..Slabs : (n = 0 \/ Runs(g, n) # {}) /\ Runs(g, n + 1) = {}

\* claim_expert_zone(_at): headroom, and the whole span free.
Headroom(g, n) == Cardinality(Free(slab, g)) - n >= MainReserved + grant_floor_slabs
Claimable(g, start, n) == Headroom(g, n) /\ start \in Runs(g, n)

Misalign(start) == (start * SlabBytes) % Align

\* What try_grant asks for, before the address is known.
Ask ==
  LET run == MinOf(largest_free_run(1), min_free_slabs(slab) - grant_floor_slabs) IN
  IF run <= 0 THEN 0 ELSE grant_slabs(MinOf(best_fit(run, Worst), MaxSlots), run)

\* claim_expert_zone: the topmost run of the first GPU.
Topmost(num) == {s \in Runs(1, num) : Headroom(1, num) /\ \A t \in Runs(1, num) : t <= s}

\* Mutant: what the first GPU gave is not taken back.
rollback_partial_keeps(start, num) == slab' = Filled(slab, 1, start..(start + num - 1), "zone")

\* A GPU refused to mirror the claim: those before it give theirs back.
rollback_partial(start, num) == UNCHANGED slab

Mirrored(start, num) == \A r \in Gpus : Claimable(r, start, num)

Granted(start, num, n) ==
  /\ slab' = [r \in Gpus |-> [s \in Ids |-> IF s \in start..(start + num - 1) THEN "zone" ELSE slab[r][s]]]
  /\ zones' = [r \in Gpus |-> [id \in DOMAIN zones[r] \cup {start} |->
                 IF id = start THEN [draining |-> "no", slots |-> [i \in 1..n |-> "free"]]
                 ELSE zones[r][id]]]
  /\ grants_' = Append(grants_, [start |-> start, num |-> num, st |-> "active",
                                 h2d |-> [r \in Gpus |-> 0], ffn |-> [r \in Gpus |-> 0]])

MayGrant ==
  cooldown = 0 /\ ~any_reclaim_in_flight(grants_) /\ min_free_slabs(slab) > High

\* The address is known now, and with it how many slots there are.
try_grant ==
  LET num == Ask
      n(start) == slots_in(num, Misalign(start))
      fits == {start \in Topmost(num) : n(start) >= 1 /\ WithinWaste(num, n(start))} IN
  /\ stage = "grant" /\ stage' = "loop"
  /\ \/ /\ MayGrant /\ num > 0
        /\ \E start \in fits :
             IF Mirrored(start, num) THEN Granted(start, num, n(start))
             ELSE rollback_partial(start, num) /\ UNCHANGED <<zones, grants_>>
     \/ /\ ~MayGrant \/ num = 0 \/ fits = {}
        /\ UNCHANGED <<slab, zones, grants_>>
  /\ UNCHANGED <<cooldown, eager, streamVars, moe, waiting>>

-------------------------------------------------------------------------------
(* KV claims slabs and gives them back.                                    *)

Have(g, what) == {s \in Ids : slab[g][s] = what}

\* The state of a sequence on one GPU: the topmost free slab.
allocate_kda_state(g) ==
  /\ stage = "loop" /\ waiting = 0
  /\ Cardinality(Free(slab, g)) - 1 >= MainReserved /\ Cardinality(Have(g, "state")) < MaxState
  /\ \E s \in Free(slab, g) : /\ \A t \in Free(slab, g) : t <= s
                              /\ slab' = [slab EXCEPT ![g][s] = "state"]
  /\ UNCHANGED <<stage, zones, grants_, cooldown, eager, streamVars, moe, waiting>>

side_release(g, s) ==
  /\ stage = "loop" /\ slab[g][s] = "state"
  /\ slab' = [slab EXCEPT ![g][s] = "free"]
  /\ UNCHANGED <<stage, zones, grants_, cooldown, eager, streamVars, moe, waiting>>

\* The sequences that run are over.
free_sequence ==
  /\ stage = "loop" /\ \E g \in Gpus : Have(g, "kv") # {}
  /\ slab' = [g \in Gpus |-> Filled(slab, g, Have(g, "kv"), "free")[g]]
  /\ UNCHANGED <<stage, zones, grants_, cooldown, eager, streamVars, moe, waiting>>

\* note_pool_pressure_refusal: the drain is armed toward the demand.
note_pool_pressure_refusal(shortfall) ==
  IF \A i \in DOMAIN grants_ : grants_[i].st = "leaked" THEN eager
  ELSE MaxOf(eager, MinOf(Slabs, min_free_slabs(slab) + shortfall + Transient + Growth))

Lowest(g, n) == {s \in Free(slab, g) : Cardinality({t \in Free(slab, g) : t < s}) < n}

\* seq_create of a prompt of `need` slabs: all of them or a refusal, on which the
\* orchestrator waits and tries again; it may give up.  The shortfall is that of the
\* GPU the command names, whichever GPU ran out.
seq_create(need) ==
  /\ stage = "loop" /\ waiting \in {0, need}
  /\ IF min_free_slabs(slab) >= need
     THEN /\ slab' = [g \in Gpus |-> Filled(slab, g, Lowest(g, need), "kv")[g]]
          /\ waiting' = 0 /\ UNCHANGED eager
     ELSE /\ \E g \in Gpus :
               eager' = note_pool_pressure_refusal(MaxOf(0, need - Cardinality(Free(slab, g))))
          /\ waiting' = need /\ UNCHANGED slab
  /\ UNCHANGED <<stage, zones, grants_, cooldown, streamVars, moe>>

give_up ==
  /\ stage = "loop" /\ waiting > 0 /\ waiting' = 0
  /\ UNCHANGED <<stage, slab, zones, grants_, cooldown, eager, streamVars, moe>>

-------------------------------------------------------------------------------
(* Experts arrive in the zones, and are evicted from them.                 *)

SetSlot(g, id, i, what) == [zones EXCEPT ![g][id].slots[i] = what]

Offered(g, id) == zones[g][id].draining = "no" /\ "free" \in ToSet(zones[g][id].slots)

\* reserve, and a copy is dispatched to the slot.
reserve(g, id) ==
  /\ stage = "loop" /\ Offered(g, id) /\ Len(h2d[g]) < StreamDepth
  /\ \E i \in DOMAIN zones[g][id].slots :
       /\ zones[g][id].slots[i] = "free"
       /\ zones' = SetSlot(g, id, i, "arriving")
       /\ h2d' = [h2d EXCEPT ![g] = Append(@, [id |-> id, slot |-> i, live |-> "yes"])]
  /\ UNCHANGED <<stage, slab, grants_, cooldown, eager, ffn, moe, waiting>>

\* The request is cancelled: the slot is free, the copy goes on.
cancel(g, k) ==
  LET c == h2d[g][k] IN
  /\ stage = "loop" /\ c.live = "yes"
  /\ zones' = SetSlot(g, c.id, c.slot, "free")
  /\ h2d' = [h2d EXCEPT ![g][k].live = "no"]
  /\ UNCHANGED <<stage, slab, grants_, cooldown, eager, ffn, moe, waiting>>

evict(g, id, i) ==
  /\ stage = "loop" /\ Evictable(g, id, i)
  /\ zones' = SetSlot(g, id, i, "free")
  /\ UNCHANGED <<stage, slab, grants_, cooldown, eager, streamVars, moe, waiting>>

Minus1(n) == MaxOf(0, n - 1)

\* The copy at the head of the stream has landed.
h2d_step(g) ==
  LET c == Head(h2d[g]) IN
  /\ h2d[g] # <<>>
  /\ h2d' = [h2d EXCEPT ![g] = Tail(@)]
  /\ zones' = IF c.live = "yes" THEN SetSlot(g, c.id, c.slot, "ready") ELSE zones
  /\ grants_' = [i \in DOMAIN grants_ |-> [grants_[i] EXCEPT !.h2d[g] = Minus1(@)]]
  /\ UNCHANGED <<stage, slab, cooldown, eager, ffn, moe, waiting>>

-------------------------------------------------------------------------------
(* The MoE dispatch.                                                       *)

ReadySlots ==
  UNION {UNION {{<<g, id, i>> : i \in {j \in DOMAIN zones[g][id].slots : zones[g][id].slots[j] = "ready"}}
                : id \in DOMAIN zones[g]} : g \in Gpus}

\* Experts that are there are locked for the layer.
moe_lock ==
  /\ stage = "loop" /\ waiting = 0 /\ moe.state \in {"idle", "active"}
  /\ \E L \in SUBSET ReadySlots \ {{}} : moe' = [NoMoe EXCEPT !.state = "locked", !.locked = L]
  /\ UNCHANGED <<stage, slab, zones, grants_, cooldown, eager, streamVars, waiting>>

\* The kernels are enqueued; the event of the pending compute is on one GPU's
\* stream; the locks are released before the kernels have run.
moe_finalize ==
  LET reads(g) == {l[2] : l \in {k \in moe.locked : k[1] = g}} IN
  /\ moe.state = "locked" /\ \A g \in Gpus : Len(ffn[g]) < StreamDepth
  /\ ffn' = [g \in Gpus |-> IF reads(g) = {} THEN ffn[g] ELSE Append(ffn[g], reads(g))]
  /\ \E g \in Gpus : moe' = [state |-> "pending", locked |-> {}, ahead |-> Len(ffn'[g]), on |-> g]
  /\ UNCHANGED <<stage, slab, zones, grants_, cooldown, eager, h2d, waiting>>

\* The pending compute is seen to be done; another layer may follow, with pages of
\* its own to wait for.
moe_reap ==
  /\ moe.state = "pending" /\ moe.ahead = 0
  /\ moe' = [NoMoe EXCEPT !.state = "active"]
  /\ UNCHANGED <<stage, slab, zones, grants_, cooldown, eager, streamVars, waiting>>

moe_end ==
  /\ stage = "loop" /\ waiting = 0 /\ moe.state = "active"
  /\ moe' = NoMoe
  /\ UNCHANGED <<stage, slab, zones, grants_, cooldown, eager, streamVars, waiting>>

ffn_step(g) ==
  /\ ffn[g] # <<>>
  /\ ffn' = [ffn EXCEPT ![g] = Tail(@)]
  /\ grants_' = [i \in DOMAIN grants_ |-> [grants_[i] EXCEPT !.ffn[g] = Minus1(@)]]
  /\ moe' = IF moe.state = "pending" /\ moe.on = g THEN [moe EXCEPT !.ahead = Minus1(@)] ELSE moe
  /\ UNCHANGED <<stage, slab, zones, cooldown, eager, h2d, waiting>>

-------------------------------------------------------------------------------
Kv == \/ \E g \in StateGpus : allocate_kda_state(g) \/ \E s \in Ids : side_release(g, s)
      \/ free_sequence
      \/ \E need \in Prompts : seq_create(need)
      \/ give_up

Cache == \E g \in Gpus :
  \/ \E id \in DOMAIN zones[g] : \/ reserve(g, id)
                                 \/ \E i \in DOMAIN zones[g][id].slots : evict(g, id, i)
  \/ \E k \in DOMAIN h2d[g] : cancel(g, k)

Dispatch == moe_lock \/ moe_finalize \/ moe_reap \/ moe_end
Streams == \E g \in Gpus : h2d_step(g) \/ ffn_step(g)

Next == advance_reclaims \/ pressure \/ try_grant \/ Kv \/ Cache \/ Dispatch \/ Streams

Spec == Init /\ [][Next]_vars

\* The loop ticks; streams run; a layer that has its experts is dispatched and
\* reaped; a refused admission is tried again.
Fairness ==
  /\ WF_vars(advance_reclaims) /\ WF_vars(pressure \/ try_grant) /\ WF_vars(moe_finalize \/ moe_reap)
  /\ \A g \in Gpus : WF_vars(h2d_step(g)) /\ WF_vars(ffn_step(g))
  /\ \A n \in Prompts : SF_vars(waiting = n /\ seq_create(n))

FairSpec == Spec /\ Fairness

-------------------------------------------------------------------------------
(* Properties.                                                             *)

GrantType ==
  [start : Ids, num : 1..Slabs, st : {"active", "draining", "barrier", "leaked"},
   h2d : [Gpus -> 0..StreamDepth], ffn : [Gpus -> 0..StreamDepth]]

TypeOK ==
  /\ slab \in [Gpus -> [Ids -> {"free", "kv", "state", "zone"}]]
  /\ \A g \in Gpus : /\ DOMAIN zones[g] \subseteq Ids
                     /\ \A id \in DOMAIN zones[g] :
                          /\ zones[g][id].draining \in {"yes", "no"}
                          /\ ToSet(zones[g][id].slots) \subseteq {"free", "arriving", "ready"}
  /\ \A i \in DOMAIN grants_ : grants_[i] \in GrantType
  /\ cooldown \in 0..CooldownTicks /\ eager \in {Unarmed} \cup 0..Slabs
  /\ moe.state \in {"idle", "locked", "pending", "active"} /\ moe.ahead \in 0..StreamDepth
  /\ waiting \in {0} \cup Prompts /\ stage \in {"loop", "pressure", "grant"}

\* The hazard of the reclaim protocol: as long as a copy may write into a slab or
\* a kernel may read it, it is not KV's, whatever was cancelled, unlocked or
\* evicted meanwhile.
HandbackQuiet ==
  \A g \in Gpus : /\ \A k \in DOMAIN h2d[g] : slab[g][h2d[g][k].id] = "zone"
                  /\ \A k \in DOMAIN ffn[g] : \A id \in ffn[g][k] : slab[g][id] = "zone"

\* A reclaim that has its barriers is never refused by the cache: no grant leaks.
NothingLeaks == \A i \in DOMAIN grants_ : grants_[i].st # "leaked"

\* Lockstep: on every GPU the slabs lent are those of the grants, each in one
\* grant only, and the cache has those zones and no other.
LentExactly ==
  \A g \in Gpus :
    /\ {s \in Ids : slab[g][s] = "zone"} = UNION {Span(grants_[i]) : i \in DOMAIN grants_}
    /\ DOMAIN zones[g] = {grants_[i].start : i \in DOMAIN grants_}
    /\ \A i, j \in DOMAIN grants_ : i # j => Span(grants_[i]) \cap Span(grants_[j]) = {}

\* An expert that a dispatch has locked stays where it is.
LockedStays == moe.locked \subseteq ReadySlots

\* The books of allocator, cache and rebalancer agree on every GPU, no grant is
\* lost to a refused removal, and no drain takes an expert that is in use.
ZoneInv == TypeOK /\ LentExactly /\ NothingLeaks /\ LockedStays

\* The deadlock of a stalled admission: one that is refused gets what it needs, or
\* everything that was lent has come back.
DemandMet ==
  \A n \in Prompts : (waiting = n) ~> (waiting # n \/ min_free_slabs(slab) >= n \/ grants_ = <<>>)
===============================================================================
