------------------------------ MODULE ExpertCache ------------------------------
(***************************************************************************)
(* src/core/memory/expert_cache.{h,cpp}: which experts are resident in the *)
(* VRAM of one GPU (the GPUs share nothing but the elastic generation).    *)
(*                                                                         *)
(* VRAM is cut into slots.  The boot carve has three slot allocators: the  *)
(* stable zone, and the spill and prefetch parts of the streaming zone.    *)
(* Elastic zones, lent by the KV pool at run time, add stable capacity.    *)
(* An entry does not name its allocator: evict derives it from the zone    *)
(* tag, in_spill_zone and elastic_zone.  Field home is the allocator the   *)
(* slot was really taken from, that is, the base of vram_address.          *)
(*                                                                         *)
(* Two users of the cache are part of the module because they keep copies  *)
(* of its state: the loader's EvictScoreBoard, which listens to residency  *)
(* changes, and the REEF service, which latches the stable capacity.       *)
(* Everything runs on the daemon thread: every method is one step, and a   *)
(* call that is refused is no step.                                        *)
(***************************************************************************)
EXTENDS Integers, Sequences, FiniteSets

CONSTANTS Keys,            \* expert keys
          StableSlots, SpillSlots, PrefetchSlots,  \* sizes of the boot carve
          GrantSizes,      \* num_slots of an elastic zone
          Components,      \* gate, up, down
          MaxLocks, MaxZones, MaxGeneration,  \* bounds
          MaxListed        \* bound: length of a free list of the boot carve

ASSUME CacheAssumption ==
  /\ StableSlots \in Nat /\ SpillSlots \in Nat /\ PrefetchSlots \in Nat
  /\ GrantSizes \subseteq Nat \ {0}
  /\ MaxLocks \in Nat /\ MaxZones \in Nat /\ MaxGeneration \in Nat
  /\ MaxListed \in Nat

NoZone   == -1   \* elastic_zone of an entry of the boot carve
Stable   == -2
Spill    == -3
Prefetch == -4

ZoneIds == 0..MaxZones - 1
Allocs  == {Stable, Spill, Prefetch} \cup ZoneIds

VARIABLES
  residents,        \* set of CacheEntry
  free,             \* free_list of every allocator, LIFO at its end
  size,             \* total_slots_ of every allocator
  zstate,           \* elastic zones: "none" when not registered
  resident_entries, \* the counter in every elastic zone
  next_elastic_id, elastic_generation,
  mode,             \* PrefillMode
  duplicate_count,
  listening, board, \* EvictScoreBoard: registered?, its members
  reef_caps,        \* REEF: the stable capacity it latched...
  reef_caps_generation  \* ...and the generation it is of

slotVars == <<free, size, zstate, resident_entries, next_elastic_id, elastic_generation>>
reefVars == <<reef_caps, reef_caps_generation>>
userVars == <<listening, board, reefVars>>
vars == <<residents, slotVars, mode, duplicate_count, userVars>>

YesNo == {"yes", "no"}
CacheEntry == [key : Keys, zone : {"stable", "streaming"}, home : Allocs, slot : Nat,
               elastic : ZoneIds \cup {NoZone}, spill : YesNo, dup : YesNo,
               locks : 0..MaxLocks, ready : SUBSET Components]

\* SlotAllocator::init: the LIFO end hands out slot 0 first.
FullList(n) == [i \in 1..n |-> n - i]
Listed(q)   == {q[i] : i \in 1..Len(q)}
NoRepeat(q) == \A i, j \in 1..Len(q) : q[i] = q[j] => i = j

\* Mutant: back() without pop_back().
PopForgotten(q) == q

Pop(q) == [i \in 1..Len(q) - 1 |-> q[i]]

StableKeys == {e.key : e \in {r \in residents : r.zone = "stable"}}

\* total_slots(kStable): the carve and the ACTIVE elastic zones.
total_slots ==
  LET S[z \in 0..MaxZones] ==
        IF z = 0 THEN size[Stable]
        ELSE S[z - 1] + (IF zstate[z - 1] = "active" THEN size[z - 1] ELSE 0)
  IN S[MaxZones]

Init ==
  /\ residents = {}
  /\ size = [a \in Allocs |-> CASE a = Stable -> StableSlots [] a = Spill -> SpillSlots
                                [] a = Prefetch -> PrefetchSlots [] OTHER -> 0]
  /\ free = [a \in Allocs |-> FullList(size[a])]
  /\ zstate = [z \in ZoneIds |-> "none"]
  /\ resident_entries = [z \in ZoneIds |-> 0]
  /\ next_elastic_id = 0 /\ elastic_generation = 0
  /\ mode = "normal" /\ duplicate_count = 0
  /\ listening = "no" /\ board = {}
  /\ reef_caps = 0 /\ reef_caps_generation = -1   \* no REEF service yet

-------------------------------------------------------------------------------
(* reserve.                                                                *)

\* reserve takes a slot for this zone from allocator a: elastic zones stand in
\* for an exhausted stable carve, oldest first, prefetch for exhausted spill.
Offered(zone, a) ==
  /\ free[a] # <<>>
  /\ \/ zone = "stable" /\ a = Stable
     \/ /\ zone = "stable" /\ free[Stable] = <<>>
        /\ a \in ZoneIds /\ zstate[a] = "active"
        /\ \A b \in ZoneIds : b < a => zstate[b] # "active" \/ free[b] = <<>>
     \/ zone = "streaming" /\ a = Spill /\ mode = "normal"
     \/ zone = "streaming" /\ a = Prefetch /\ (mode = "spill" \/ free[Spill] = <<>>)

reserve(k, zone, dup) ==
  \E a \in Allocs :
     /\ \A e \in residents : e.key # k
     /\ Offered(zone, a)
     /\ residents' = residents \cup
          {[key |-> k, zone |-> zone, home |-> a, slot |-> free[a][Len(free[a])],
            elastic |-> IF a \in ZoneIds THEN a ELSE NoZone,
            spill |-> IF a = Spill THEN "yes" ELSE "no",
            dup |-> dup, locks |-> 0, ready |-> {}]}
     /\ free' = [free EXCEPT ![a] = Pop(@)]
     /\ resident_entries' = [z \in ZoneIds |-> resident_entries[z] + (IF z = a THEN 1 ELSE 0)]
     /\ duplicate_count' = duplicate_count + (IF dup = "yes" THEN 1 ELSE 0)
     /\ board' = IF listening = "yes" /\ zone = "stable" THEN board \cup {k} ELSE board
     /\ UNCHANGED <<size, zstate, next_elastic_id, elastic_generation, mode, listening, reefVars>>

-------------------------------------------------------------------------------
(* Readiness and the eviction lock.                                        *)

Replace(e, f) == residents' = (residents \ {e}) \cup {f}

mark_ready(e, c) ==
  /\ Replace(e, [e EXCEPT !.ready = @ \cup {c}])
  /\ UNCHANGED <<slotVars, mode, duplicate_count, userVars>>

mark_all_ready(e) ==
  /\ Replace(e, [e EXCEPT !.ready = Components])
  /\ UNCHANGED <<slotVars, mode, duplicate_count, userVars>>

lock(e) ==
  /\ e.locks < MaxLocks
  /\ Replace(e, [e EXCEPT !.locks = @ + 1])
  /\ UNCHANGED <<slotVars, mode, duplicate_count, userVars>>

unlock(e) ==
  /\ e.locks > 0
  /\ Replace(e, [e EXCEPT !.locks = @ - 1])
  /\ UNCHANGED <<slotVars, mode, duplicate_count, userVars>>

-------------------------------------------------------------------------------
(* evict.                                                                  *)

\* The allocator that evict gives the slot of an entry back to.
SlotOwner(e) ==
  IF e.elastic # NoZone THEN e.elastic
  ELSE IF e.zone = "stable" THEN Stable
  ELSE IF e.spill = "yes" THEN Spill ELSE Prefetch

evict(e) ==
  LET a == SlotOwner(e) IN
  /\ e.locks = 0 /\ (a \in ZoneIds \/ Len(free[a]) < MaxListed)
  /\ residents' = residents \ {e}
  /\ free' = IF a = Spill /\ mode = "spill" THEN free
             ELSE [free EXCEPT ![a] = Append(@, e.slot)]
  /\ resident_entries' = [z \in ZoneIds |-> resident_entries[z] - (IF z = a THEN 1 ELSE 0)]
  /\ duplicate_count' = duplicate_count - (IF e.dup = "yes" THEN 1 ELSE 0)
  /\ board' = IF listening = "yes" /\ e.zone = "stable" THEN board \ {e.key} ELSE board
  /\ UNCHANGED <<size, zstate, next_elastic_id, elastic_generation, mode, listening, reefVars>>

-------------------------------------------------------------------------------
(* promote and demote change the zone tag and nothing else of the entry.   *)

promote(e) ==
  /\ e.zone = "streaming"
  /\ Replace(e, [e EXCEPT !.zone = "stable"])
  /\ board' = IF listening = "yes" THEN board \cup {e.key} ELSE board
  /\ UNCHANGED <<slotVars, mode, duplicate_count, listening, reefVars>>

demote(e) ==
  /\ e.zone = "stable"
  /\ Replace(e, [e EXCEPT !.zone = "streaming"])
  /\ board' = IF listening = "yes" THEN board \ {e.key} ELSE board
  /\ UNCHANGED <<slotVars, mode, duplicate_count, listening, reefVars>>

-------------------------------------------------------------------------------
(* Elastic zones.  Ids are never reused.                                   *)

BumpGeneration ==
  /\ elastic_generation < MaxGeneration
  /\ elastic_generation' = elastic_generation + 1

add_elastic_zone(n) ==
  LET z == next_elastic_id IN
  /\ z \in ZoneIds
  /\ next_elastic_id' = z + 1
  /\ zstate' = [zstate EXCEPT ![z] = "active"]
  /\ size' = [size EXCEPT ![z] = n]
  /\ free' = [free EXCEPT ![z] = FullList(n)]
  /\ BumpGeneration
  /\ UNCHANGED <<residents, resident_entries, mode, duplicate_count, userVars>>

\* Mutant: the generation moves only when a zone comes or goes.
begin_drain_unannounced(z) ==
  /\ zstate[z] # "none"
  /\ zstate' = [zstate EXCEPT ![z] = "draining"]
  /\ UNCHANGED <<residents, free, size, resident_entries, next_elastic_id,
                 elastic_generation, mode, duplicate_count, userVars>>

begin_drain_elastic_zone(z) ==
  /\ zstate[z] # "none"
  /\ zstate' = [zstate EXCEPT ![z] = "draining"]
  /\ BumpGeneration
  /\ UNCHANGED <<residents, free, size, resident_entries, next_elastic_id, mode,
                 duplicate_count, userVars>>

\* Mutant: a zone is removed as soon as it drains, residents or not.
remove_elastic_zone_early(z) ==
  /\ zstate[z] # "none"
  /\ zstate' = [zstate EXCEPT ![z] = "none"]
  /\ size' = [size EXCEPT ![z] = 0]
  /\ free' = [free EXCEPT ![z] = <<>>]
  /\ BumpGeneration
  /\ UNCHANGED <<residents, resident_entries, next_elastic_id, mode,
                 duplicate_count, userVars>>

remove_elastic_zone(z) ==
  /\ zstate[z] # "none" /\ resident_entries[z] = 0
  /\ zstate' = [zstate EXCEPT ![z] = "none"]
  /\ size' = [size EXCEPT ![z] = 0]
  /\ free' = [free EXCEPT ![z] = <<>>]
  /\ BumpGeneration
  /\ UNCHANGED <<residents, resident_entries, next_elastic_id, mode,
                 duplicate_count, userVars>>

-------------------------------------------------------------------------------
(* Spill mode: the spill slots become prefill scratch.                     *)

\* Mutant: locked experts are thrown out as well.
SpilledLocked == {e \in residents : e.zone = "streaming" /\ e.spill = "yes"}

Spilled == {e \in residents : e.zone = "streaming" /\ e.spill = "yes" /\ e.locks = 0}

\* Mutant: the duplicates among the experts thrown out are still counted.
enter_spill_mode_miscounts ==
  /\ mode = "normal"
  /\ residents' = residents \ Spilled
  /\ free' = [free EXCEPT ![Spill] = <<>>]
  /\ mode' = "spill"
  /\ UNCHANGED <<size, zstate, resident_entries, next_elastic_id, elastic_generation,
                 duplicate_count, userVars>>

enter_spill_mode ==
  /\ mode = "normal"
  /\ residents' = residents \ Spilled
  /\ duplicate_count' = duplicate_count - Cardinality({e \in Spilled : e.dup = "yes"})
  /\ free' = [free EXCEPT ![Spill] = <<>>]
  /\ mode' = "spill"
  /\ UNCHANGED <<size, zstate, resident_entries, next_elastic_id, elastic_generation,
                 userVars>>

exit_spill_mode ==
  /\ mode = "spill"
  /\ free' = [free EXCEPT ![Spill] = FullList(size[Spill])]
  /\ mode' = "normal"
  /\ UNCHANGED <<residents, size, zstate, resident_entries, next_elastic_id,
                 elastic_generation, duplicate_count, userVars>>

-------------------------------------------------------------------------------
(* The two users.                                                          *)

\* Mutant: the board starts empty.
ensure_evict_board_unseeded ==
  /\ listening = "no"
  /\ listening' = "yes"
  /\ UNCHANGED <<residents, slotVars, mode, duplicate_count, board, reefVars>>

\* The board is built at the first solve and seeded with what is resident then.
ensure_evict_board ==
  /\ listening = "no"
  /\ listening' = "yes" /\ board' = StableKeys
  /\ UNCHANGED <<residents, slotVars, mode, duplicate_count, reefVars>>

\* Every REEF command compares generations and reads the capacity again if needed.
ensure_reef_service ==
  /\ reef_caps_generation # elastic_generation
  /\ reef_caps' = total_slots /\ reef_caps_generation' = elastic_generation
  /\ UNCHANGED <<residents, slotVars, mode, duplicate_count, listening, board>>

Next ==
  \/ \E k \in Keys, zone \in {"stable", "streaming"}, dup \in YesNo : reserve(k, zone, dup)
  \/ \E e \in residents, c \in Components : mark_ready(e, c)
  \/ \E e \in residents : mark_all_ready(e)
  \/ \E e \in residents : lock(e)
  \/ \E e \in residents : unlock(e)
  \/ \E e \in residents : evict(e)
  \/ \E e \in residents : promote(e)
  \/ \E e \in residents : demote(e)
  \/ \E n \in GrantSizes : add_elastic_zone(n)
  \/ \E z \in ZoneIds : begin_drain_elastic_zone(z)
  \/ \E z \in ZoneIds : remove_elastic_zone(z)
  \/ enter_spill_mode
  \/ exit_spill_mode
  \/ ensure_evict_board
  \/ ensure_reef_service

Spec == Init /\ [][Next]_vars

-------------------------------------------------------------------------------
(* Properties.                                                             *)

TypeOK ==
  /\ residents \subseteq CacheEntry
  /\ free \in [Allocs -> Seq(Nat)]
  /\ size \in [Allocs -> Nat]
  /\ zstate \in [ZoneIds -> {"none", "active", "draining"}]
  /\ resident_entries \in [ZoneIds -> Int]
  /\ next_elastic_id \in 0..MaxZones
  /\ elastic_generation \in 0..MaxGeneration
  /\ mode \in {"normal", "spill"}
  /\ duplicate_count \in Int
  /\ listening \in YesNo /\ board \subseteq Keys
  /\ reef_caps_generation \in -1..MaxGeneration

\* What the comments of evict say ("return to correct sub-allocator"): the bytes of
\* a slot belong to one resident.  No two residents have the same address, and no
\* free list can hand out an address that a resident occupies, or one address twice.
SlotsExclusive ==
  /\ \A e, f \in residents : e.home = f.home /\ e.slot = f.slot => e = f
  /\ \A e \in residents : e.slot \notin Listed(free[e.home])
  /\ \A a \in Allocs : NoRepeat(free[a])

\* The same for the memory lent by the KV pool, for every order of calls: a slot of an
\* elastic zone has one resident or is in the zone's free list once, and never both or
\* neither, although its residents are promoted, demoted and evicted while the zone
\* drains, and although the boot carve's slots do get mixed up.
ElasticSlotsExact ==
  /\ \A e, f \in residents :
        e.home \in ZoneIds /\ e.home = f.home /\ e.slot = f.slot => e = f
  /\ \A e \in residents : e.home \in ZoneIds => e.slot \notin Listed(free[e.home])
  /\ \A z \in ZoneIds :
        /\ NoRepeat(free[z])
        /\ \A s \in 0..size[z] - 1 :
             s \in Listed(free[z]) \/ \E e \in residents : e.home = z /\ e.slot = s

\* An elastic zone with residents stays registered, so that its slabs cannot go back
\* to the KV pool under them; resident_entries, which decides it, counts exactly them.
ZonesOutliveResidents ==
  /\ \A e \in residents : e.home \in ZoneIds => zstate[e.home] # "none"
  /\ \A z \in ZoneIds :
        resident_entries[z] = Cardinality({e \in residents : e.elastic = z})

\* duplicate_count_, which can_duplicate limits, counts the duplicates.
DuplicatesCounted ==
  duplicate_count = Cardinality({e \in residents : e.dup = "yes"})

\* Once registered, the loader's board mirrors stable residency exactly, although it
\* is built late and only hears of changes (TD-EVICT-BOARD-DESYNC).
BoardMirrorsStable == listening = "yes" => board = StableKeys

\* "Generation unchanged" proves that the stable capacity is unchanged: capacity that
\* was latched under the current generation is the truth (TD-KVXP-CAPACITY-REPUBLISH).
CapacityFresh ==
  reef_caps_generation = elastic_generation => reef_caps = total_slots

\* What makes the invariants above inductive.  An entry's elastic zone is where its slot
\* came from, and in_spill_zone tells the spill slots: promote and demote change neither.
KeysUnique == \A e, f \in residents : e.key = f.key => e = f

ElasticTellsHome ==
  \A e \in residents :
     /\ IF e.elastic = NoZone THEN e.home \in {Stable, Spill, Prefetch} ELSE e.home = e.elastic
     /\ e.spill = "yes" => e.home = Spill

ZonesNumbered ==
  /\ \A z \in ZoneIds : z >= next_elastic_id => zstate[z] = "none"
  /\ \A e \in residents : e.home \in ZoneIds => zstate[e.home] # "none"
  /\ reef_caps_generation <= elastic_generation

CacheInv ==
  /\ TypeOK /\ IsFiniteSet(residents)
  /\ KeysUnique /\ ElasticTellsHome /\ ZonesNumbered
  /\ ElasticSlotsExact
  /\ ZonesOutliveResidents /\ DuplicatesCounted
  /\ BoardMirrorsStable /\ CapacityFresh

\* A locked expert stays where it is: no step evicts it or moves it.
LockedStays ==
  [][\A e \in residents : e.locks > 0 =>
       \E f \in residents' : f.key = e.key /\ f.home = e.home /\ f.slot = e.slot]_vars

===============================================================================
