------------------------------ MODULE PinnedArena ------------------------------
(***************************************************************************)
(* The pinned expert arena of src/core/memory/: slots of host memory on    *)
(* every NUMA node (pinned_expert_arena.cpp), filled from the expert files *)
(* by a loader thread (arena_loader.cpp), read by copies to the GPUs, and  *)
(* moved between DDR and HBM nodes by a migrator with a copy thread of its *)
(* own (arena_migrator.cpp).  Slots and a table of records about them      *)
(* (arena_cache.cpp) live in memory files that a holder process keeps: a   *)
(* daemon that starts again adopts the slots whose records it can trust.   *)
(*                                                                         *)
(* The daemon thread runs one action at a time; the loader, the migrator's *)
(* copies, the copies to the GPUs and the death of the daemon interleave.  *)
(* LRU order, spill weights and fetch frequencies choose among the victims *)
(* and nodes the code allows: here any of them.                            *)
(***************************************************************************)
EXTENDS Integers, FiniteSets

CONSTANTS Keys,
          Ddr, Hbm,      \* nodes (numbers)
          Size,          \* slots of a node
          Readers,       \* copies to a GPU that may be under way
          RingDepth,     \* loads the loader has under way
          Replaced,      \* experts whose file may be replaced
          MaxVersion     \* bound: versions of a file

Nodes == Ddr \cup Hbm
Cells  == UNION {{n} \X (1..Size[n]) : n \in Nodes}
Free   == "free"                      \* no expert
Nowhere == -1
NoCell == <<Nowhere, 0>>
Torn   == <<"torn", 0>>               \* bytes of no whole expert
Versions == 1..MaxVersion

\* The two marks are no experts, and a GPU has finitely many copies under way.
ASSUME ArenaAssumption ==
  /\ Nodes \subseteq Nat /\ Size \in [Nodes -> Nat \ {0}] /\ MaxVersion \in Nat \ {0} /\ RingDepth \in Nat
  /\ Ddr \cap Hbm = {}
  /\ Free \notin Keys /\ Torn[1] \notin Keys /\ IsFiniteSet(Readers)

VARIABLES
  cell,        \* Slot: key, ready, loading, inflight (index_ follows from key)
  location_,   \* key -> node
  rec,         \* SlotRecord: state, key, version of the file (kept by the holder)
  index,       \* ArenaCache::index_
  bytes,       \* what is in the slot (kept by the holder)
  files, ident,\* version of an expert's file; the one found at boot
  loads,       \* reads of the loader: key, cell, state
  reads,       \* copies to a GPU, with the slot they read
  phase_, move, spare_node_, copy,  \* the migrator and its copy thread
  daemon       \* "preload" or "serving"

storeVars == <<rec, bytes>>
migVars   == <<phase_, move, spare_node_, copy>>
vars == <<cell, location_, index, storeVars, files, ident, loads, reads, migVars, daemon>>

FreeCell == [key |-> Free, ready |-> "no", loading |-> "no", inflight |-> 0]
NoRead   == [cell |-> NoCell, key |-> Free]
NoCopy   == [state |-> "none", from |-> NoCell, to |-> NoCell]
NoMove   == [key |-> Free, victim |-> Free, hbm |-> Nowhere, src |-> Nowhere]
EmptyRec == [state |-> "empty", key |-> Free, version |-> 0]

\* The holder has no store: the arena is built, and its pages are zeroed.
Init ==
  /\ cell = [c \in Cells |-> FreeCell] /\ location_ = [k \in Keys |-> Nowhere]
  /\ rec = [c \in Cells |-> EmptyRec] /\ index = [k \in Keys |-> NoCell]
  /\ bytes = [c \in Cells |-> Torn]
  /\ files = [k \in Keys |-> 1] /\ ident = files
  /\ loads = {} /\ reads = [r \in Readers |-> NoRead]
  /\ phase_ = "idle" /\ move = NoMove /\ spare_node_ = Nowhere /\ copy = NoCopy
  /\ daemon = "preload"

-------------------------------------------------------------------------------
(* PinnedNodeArena: the slots of one node.                                 *)

CellsOf(n) == {c \in Cells : c[1] = n}
At(cl, n, k) == {c \in CellsOf(n) : cl[c].key = k}         \* index_.find
FreeOf(cl, n) == {c \in CellsOf(n) : cl[c].key = Free}
FirstOf(S) == CHOOSE c \in S : \A d \in S : c[2] <= d[2]
Evictable(cl, c) == cl[c].key # Free /\ cl[c].inflight = 0 /\ cl[c].loading = "no"

\* Mutant: a slot that a load or a migration fills may be taken.
pick_slot_loading(cl, n) ==
  IF FreeOf(cl, n) # {} THEN {FirstOf(FreeOf(cl, n))}
  ELSE {c \in CellsOf(n) : cl[c].inflight = 0}

\* Mutant: a slot that is being read may be taken, unless experts are migrating.
pick_slot_inflight(cl, n) ==
  IF FreeOf(cl, n) # {} THEN {FirstOf(FreeOf(cl, n))}
  ELSE {c \in CellsOf(n) : cl[c].loading = "no" /\ (phase_ = "idle" \/ cl[c].inflight = 0)}

pick_slot(cl, n) ==
  IF FreeOf(cl, n) # {} THEN {FirstOf(FreeOf(cl, n))}
  ELSE {c \in CellsOf(n) : Evictable(cl, c)}

Reserved(cl, c, k) == [cl EXCEPT ![c] = [FreeCell EXCEPT !.key = k]]

\* The facade's bookkeeping when k takes c: the victim is nowhere now.
placed(c, k) ==
  [j \in Keys |-> IF j = k THEN c[1]
                  ELSE IF j = cell[c].key THEN Nowhere ELSE location_[j]]

-------------------------------------------------------------------------------
(* ArenaCache: the record of a slot.                                       *)

\* Mutant: the record outlives the bytes it describes.
on_reuse_late(r, c) == r

on_reuse(r, c) == [r EXCEPT ![c].state = "empty"]
forgotten(c) == [k \in Keys |-> IF index[k] = c THEN NoCell ELSE index[k]]

Stamp(state, k) == [state |-> state, key |-> k, version |-> ident[k]]
on_load_start(r, c, k) == [r EXCEPT ![c] = Stamp("loading", k)]

\* Mutant: the record is never published.
on_load_ready_unpublished(r, c, k) == [r EXCEPT ![c] = Stamp("loading", k)]

on_load_ready(r, c, k) == [r EXCEPT ![c] = Stamp("active", k)]

identity_matches(k, c) ==
  rec[c].state = "active" /\ rec[c].key = k /\ rec[c].version = ident[k]

-------------------------------------------------------------------------------
(* A miss: room for k in one of the nodes, then a load.                    *)

\* reserve_for_fill: the cells that k may get from the candidate nodes.
reserve_for_fill(k, cands, extend_only) ==
  IF location_[k] # Nowhere THEN At(cell, location_[k], k)
  ELSE LET roomy == {n \in cands : FreeOf(cell, n) # {}} IN
       IF roomy # {} THEN UNION {pick_slot(cell, n) : n \in roomy}
       ELSE IF extend_only THEN {} ELSE UNION {pick_slot(cell, n) : n \in cands}

\* Whatever nodes placement offers.
RoomFor(k, extend_only) ==
  UNION {reserve_for_fill(k, cands, extend_only) : cands \in SUBSET Nodes \ {{}}}

\* A slot that k has already keeps its record (EMPTY since it was reserved).
Taken(c, k) ==
  IF cell[c].key = k THEN [cells |-> cell, recs |-> rec, idx |-> index, loc |-> location_]
  ELSE [cells |-> Reserved(cell, c, k), recs |-> on_reuse(rec, c), idx |-> forgotten(c),
        loc |-> placed(c, k)]

\* mark_loading and submit
Submitted(c, k) ==
  LET t == Taken(c, k) IN
  /\ Cardinality(loads) < RingDepth
  /\ cell' = [t.cells EXCEPT ![c].loading = "yes"]
  /\ rec' = on_load_start(t.recs, c, k)
  /\ index' = t.idx /\ location_' = t.loc
  /\ loads' = loads \cup {[key |-> k, cell |-> c, state |-> "queued"]}
  /\ UNCHANGED <<bytes, reads>>

\* The loader refused the load: it is done here.  read: the copy it is for.
LoadedHere(c, k, read) ==
  LET t == Taken(c, k) IN
  /\ cell' = [t.cells EXCEPT ![c].ready = "yes", ![c].inflight = @ + Cardinality(read)]
  /\ bytes' = [bytes EXCEPT ![c] = <<k, files[k]>>]
  /\ rec' = on_load_ready(t.recs, c, k)
  /\ index' = [t.idx EXCEPT ![k] = c] /\ location_' = t.loc
  /\ reads' = [r \in Readers |-> IF r \in read THEN [cell |-> c, key |-> k] ELSE reads[r]]
  /\ UNCHANGED loads

LoadFailedHere(c, k) ==
  LET t == Taken(c, k) IN
  /\ cell' = t.cells /\ rec' = t.recs /\ index' = t.idx /\ location_' = t.loc
  /\ bytes' = [bytes EXCEPT ![c] = Torn]
  /\ UNCHANGED <<loads, reads>>

Ready(k) == location_[k] # Nowhere /\ \E c \in At(cell, location_[k], k) : cell[c].ready = "yes"
Loading(k) == location_[k] # Nowhere /\ \E c \in At(cell, location_[k], k) : cell[c].loading = "yes"

\* A copy by reader r starts from the slot of k, which is pinned for it.
Pinned(r, k, c, ready) ==
  /\ cell' = [cell EXCEPT ![c] = [key |-> k, ready |-> ready, loading |-> "no",
                                  inflight |-> @.inflight + 1]]
  /\ reads' = [reads EXCEPT ![r] = [cell |-> c, key |-> k]]

\* try_adopt: a free slot still has the bytes of k.
Adoptable(k) ==
  location_[k] = Nowhere /\ index[k] # NoCell
  /\ identity_matches(k, index[k]) /\ cell[index[k]].key = Free

\* resolve_expert_host_source for the copy of reader r
resolve_expert_host_source(r, k) ==
  /\ daemon = "serving" /\ reads[r] = NoRead
  /\ \/ /\ Ready(k)
        /\ \E c \in At(cell, location_[k], k) : Pinned(r, k, c, "yes")
        /\ UNCHANGED <<location_, rec, index, bytes, loads>>
     \/ /\ Adoptable(k)
        /\ Pinned(r, k, index[k], "yes")
        /\ location_' = [location_ EXCEPT ![k] = index[k][1]]
        /\ UNCHANGED <<rec, index, bytes, loads>>
     \/ /\ ~Ready(k) /\ ~Loading(k) /\ ~Adoptable(k)
        /\ \E c \in RoomFor(k, FALSE) :
             Submitted(c, k) \/ LoadedHere(c, k, {r}) \/ LoadFailedHere(c, k)
  /\ UNCHANGED <<files, ident, migVars, daemon>>

\* preload, expert by expert before the daemon serves.  It never marks a slot
\* loading: nothing is evicted meanwhile.
preload(k) ==
  /\ daemon = "preload" /\ ~Ready(k)
  /\ location_[k] = Nowhere
  /\ \E c \in RoomFor(k, TRUE) :
       \/ LET t == Taken(c, k) IN
          /\ Cardinality(loads) < RingDepth
          /\ cell' = t.cells /\ rec' = t.recs /\ index' = t.idx /\ location_' = t.loc
          /\ loads' = loads \cup {[key |-> k, cell |-> c, state |-> "queued"]}
          /\ UNCHANGED <<bytes, reads>>
       \/ LoadedHere(c, k, {})
       \/ LoadFailedHere(c, k)
  /\ UNCHANGED <<files, ident, migVars, daemon>>

\* The tail of the loads is drained before the daemon serves.
serve ==
  /\ daemon = "preload" /\ loads = {}
  /\ daemon' = "serving"
  /\ UNCHANGED <<cell, location_, index, storeVars, files, ident, loads, reads, migVars>>

-------------------------------------------------------------------------------
(* The loader's thread, and its completions on the daemon thread.          *)

Advance(l, state) == loads' = (loads \ {l}) \cup {[l EXCEPT !.state = state]}

worker_main(l) ==
  /\ l \in loads
  /\ \/ /\ l.state = "queued" /\ Advance(l, "reading")
        /\ bytes' = [bytes EXCEPT ![l.cell] = Torn]
     \/ /\ l.state = "reading" /\ Advance(l, "ok")
        /\ bytes' = [bytes EXCEPT ![l.cell] = <<l.key, files[l.key]>>]
     \/ /\ l.state = "reading" /\ Advance(l, "failed")
        /\ UNCHANGED bytes
  /\ UNCHANGED <<cell, location_, index, rec, files, ident, reads, migVars, daemon>>

\* poll_completed, then mark_ready or clear_loading on the node that has the key.
\* (preload leaves a failed slot alone: it was not marked, and EMPTY it stays.)
process_arena_loads(l) ==
  /\ l \in loads /\ l.state \in {"ok", "failed"}
  /\ loads' = loads \ {l}
  /\ \E c \in At(cell, location_[l.key], l.key) :
       IF l.state = "ok"
       THEN /\ cell' = [cell EXCEPT ![c].ready = "yes", ![c].loading = "no"]
            /\ rec' = on_load_ready(rec, c, l.key)
            /\ index' = [index EXCEPT ![l.key] = c]
       ELSE /\ cell' = [cell EXCEPT ![c].loading = "no"]
            /\ rec' = on_reuse(rec, c) /\ UNCHANGED index
  /\ UNCHANGED <<location_, bytes, files, ident, reads, migVars, daemon>>

\* The copy to the GPU is over: the pin of the key on that node is released.
copy_over(r) ==
  LET c == reads[r].cell
      k == reads[r].key IN
  /\ reads[r] # NoRead
  /\ reads' = [reads EXCEPT ![r] = NoRead]
  /\ cell' = [d \in Cells |-> IF d \in At(cell, c[1], k) /\ cell[d].inflight > 0
                              THEN [cell[d] EXCEPT !.inflight = @ - 1] ELSE cell[d]]
  /\ UNCHANGED <<location_, index, storeVars, files, ident, loads, migVars, daemon>>

-------------------------------------------------------------------------------
(* Migration: one relocation at a time, a swap being two of them.          *)

Source(loc, cl, k) == CHOOSE c \in Cells : c[1] = loc[k] /\ cl[c].key = k

MayBegin(loc, cl, k, n) ==
  /\ loc[k] # Nowhere /\ loc[k] # n /\ n \in Nodes
  /\ cl[Source(loc, cl, k)].ready = "yes"
  /\ FreeOf(cl, n) # {} /\ At(cl, n, k) = {}

\* Mutant: the source is not pinned while it is copied.
migrate_begin_unpinned(loc, cl, k, n) ==
  [cl EXCEPT ![FirstOf(FreeOf(cl, n))] = [FreeCell EXCEPT !.key = k, !.loading = "yes"]]

\* migrate_begin: the cells after it.  The source is pinned, the target loading.
migrate_begin(loc, cl, k, n) ==
  [cl EXCEPT ![FirstOf(FreeOf(cl, n))] = [FreeCell EXCEPT !.key = k, !.loading = "yes"],
             ![Source(loc, cl, k)].inflight = @ + 1]

\* begin_relocation, from the state (loc, cl, r, idx) the step has reached.
Begin(loc, cl, r, k, n, phase, mv) ==
  LET to == FirstOf(FreeOf(cl, n)) IN
  /\ cell' = migrate_begin(loc, cl, k, n)
  /\ rec' = on_load_start(on_reuse(r, to), to, k)
  /\ copy' = [state |-> "queued", from |-> Source(loc, cl, k), to |-> to]
  /\ phase_' = phase /\ move' = mv

\* start_next for a move of the queue: the plan may be stale.
Promotable(k) == location_[k] \in Ddr /\ Ready(k)

start_promotion(k, n) ==
  /\ daemon = "serving" /\ phase_ = "idle" /\ Promotable(k)
  /\ n \in Hbm /\ FreeOf(cell, n) # {} /\ \A m \in Hbm : FreeOf(cell, m) # {} => n <= m
  /\ MayBegin(location_, cell, k, n)
  /\ Begin(location_, cell, rec, k, n, "promote_copy",
           [key |-> k, victim |-> Free, hbm |-> n, src |-> location_[k]])
  /\ index' = forgotten(FirstOf(FreeOf(cell, n)))
  /\ UNCHANGED <<location_, bytes, files, ident, loads, reads, spare_node_, daemon>>

SpareGood == spare_node_ # Nowhere /\ FreeOf(cell, spare_node_) # {}

\* ensure_spare evicts a DDR resident when the spare is gone; evict leaves the
\* record as it is.  The swap begins with the victim going to the spare.
start_swap(k, v) ==
  /\ daemon = "serving" /\ phase_ = "idle"
  /\ Promotable(k) /\ location_[v] \in Hbm /\ Ready(v)
  /\ \E spare \in Ddr, cold \in Keys \cup {Free} :
       LET gone == Source(location_, cell, cold)
           cl == IF cold = Free THEN cell ELSE [cell EXCEPT ![gone] = FreeCell]
           loc == IF cold = Free THEN location_ ELSE [location_ EXCEPT ![cold] = Nowhere] IN
       /\ IF SpareGood THEN cold = Free /\ spare = spare_node_
          ELSE /\ cold # Free /\ location_[cold] = spare
               /\ cell[gone].inflight = 0 /\ cell[gone].loading = "no"
       /\ spare_node_' = spare
       /\ location_' = loc
       /\ MayBegin(loc, cl, v, spare)
       /\ Begin(loc, cl, rec, v, spare, "demote_copy",
                [key |-> k, victim |-> v, hbm |-> location_[v], src |-> location_[k]])
       /\ index' = forgotten(FirstOf(FreeOf(cl, spare)))
  /\ UNCHANGED <<bytes, files, ident, loads, reads, daemon>>

\* The copy thread.  The source may not change, nor the target be anyone else's.
copy_worker_main ==
  /\ \/ /\ copy.state = "queued" /\ copy' = [copy EXCEPT !.state = "copying"]
        /\ bytes' = [bytes EXCEPT ![copy.to] = Torn]
     \/ /\ copy.state = "copying" /\ copy' = [copy EXCEPT !.state = "done"]
        /\ bytes' = [bytes EXCEPT ![copy.to] = bytes[copy.from]]
  /\ UNCHANGED <<cell, location_, index, rec, files, ident, loads, reads, phase_, move,
                 spare_node_, daemon>>

CopyIsDone == \/ phase_ \in {"demote_copy", "promote_copy"} /\ copy.state = "done"
              \/ phase_ \in {"demote_commit", "promote_commit"}
Moving == IF phase_ \in {"demote_copy", "demote_commit"} THEN move.victim ELSE move.key

\* migrate_commit retries while another copy reads the source.
MayCommit(k) == cell[Source(location_, cell, k)].inflight <= 1

advance_retry ==
  /\ CopyIsDone /\ ~MayCommit(Moving)
  /\ phase_' = IF phase_ \in {"demote_copy", "demote_commit"} THEN "demote_commit"
               ELSE "promote_commit"
  /\ UNCHANGED <<cell, location_, index, storeVars, files, ident, loads, reads, move,
                 spare_node_, copy, daemon>>

\* Mutant: the target is not marked ready.
committed_unmarked(k, to) ==
  [cell EXCEPT ![to].loading = "no", ![Source(location_, cell, k)] = FreeCell]

\* migrate_commit: the target is ready and the source free, its record intact.
committed(k, to) ==
  [cell EXCEPT ![to].ready = "yes", ![to].loading = "no",
               ![Source(location_, cell, k)] = FreeCell]

advance_demoted ==
  LET v   == move.victim
      cl  == committed(v, copy.to)
      loc == [location_ EXCEPT ![v] = spare_node_]
      r   == on_load_ready(rec, copy.to, v)
      idx == [index EXCEPT ![v] = copy.to] IN
  /\ phase_ \in {"demote_copy", "demote_commit"} /\ CopyIsDone /\ MayCommit(v)
  /\ location_' = loc /\ spare_node_' = Nowhere
  /\ IF MayBegin(loc, cl, move.key, move.hbm)
     THEN /\ Begin(loc, cl, r, move.key, move.hbm, "promote_copy", move)
          /\ index' = [j \in Keys |-> IF idx[j] = FirstOf(FreeOf(cl, move.hbm)) THEN NoCell ELSE idx[j]]
     ELSE /\ cell' = cl /\ rec' = r /\ index' = idx
          /\ phase_' = "idle" /\ move' = NoMove /\ copy' = NoCopy
  /\ UNCHANGED <<bytes, files, ident, loads, reads, daemon>>

advance_promoted ==
  LET k == move.key IN
  /\ phase_ \in {"promote_copy", "promote_commit"} /\ CopyIsDone /\ MayCommit(k)
  /\ cell' = committed(k, copy.to)
  /\ location_' = [location_ EXCEPT ![k] = move.hbm]
  /\ rec' = on_load_ready(rec, copy.to, k)
  /\ index' = [index EXCEPT ![k] = copy.to]
  /\ spare_node_' = move.src
  /\ phase_' = "idle" /\ move' = NoMove /\ copy' = NoCopy
  /\ UNCHANGED <<bytes, files, ident, loads, reads, daemon>>

-------------------------------------------------------------------------------
(* Files are replaced, and the daemon dies and starts again.               *)

\* External: an expert is packed anew.  A version never comes back (mtime).
prepack(k) ==
  /\ k \in Replaced /\ files[k] < MaxVersion
  /\ files' = [files EXCEPT ![k] = @ + 1]
  /\ UNCHANGED <<cell, location_, index, storeVars, ident, loads, reads, migVars, daemon>>

Lost ==
  /\ loads' = {} /\ reads' = [r \in Readers |-> NoRead]
  /\ phase_' = "idle" /\ move' = NoMove /\ spare_node_' = Nowhere /\ copy' = NoCopy
  /\ daemon' = "preload" /\ ident' = files /\ UNCHANGED files

Before(c, d) == c[1] < d[1] \/ (c[1] = d[1] /\ c[2] < d[2])

\* Mutant: a record is believed whatever file it was made from.
Trusted_any_version(k) == {c \in Cells : rec[c].state = "active" /\ rec[c].key = k}

\* The records of k that the new process believes.
Trusted(k) ==
  {c \in Cells : rec[c].state = "active" /\ rec[c].key = k /\ rec[c].version = files[k]}

\* scan_adoptable: the first of them is adopted, everything else is EMPTY.
Adopted(k) == {c \in Trusted(k) : \A d \in Trusted(k) : ~Before(d, c)}

restart_warm ==
  /\ Lost
  /\ cell' = [c \in Cells |-> IF \E k \in Keys : c \in Adopted(k)
                              THEN [FreeCell EXCEPT !.key = rec[c].key, !.ready = "yes"]
                              ELSE FreeCell]
  /\ rec' = [c \in Cells |-> IF \E k \in Keys : c \in Adopted(k) THEN rec[c]
                             ELSE [rec[c] EXCEPT !.state = "empty"]]
  /\ index' = [k \in Keys |-> IF Adopted(k) = {} THEN NoCell ELSE CHOOSE c \in Cells : c \in Adopted(k)]
  /\ location_' = [k \in Keys |-> IF Adopted(k) = {} THEN Nowhere
                                  ELSE (CHOOSE c \in Cells : c \in Adopted(k))[1]]
  /\ UNCHANGED bytes

\* The store does not fit the configuration: it is wiped and built again.
restart_cold ==
  /\ Lost
  /\ cell' = [c \in Cells |-> FreeCell] /\ location_' = [k \in Keys |-> Nowhere]
  /\ rec' = [c \in Cells |-> EmptyRec] /\ index' = [k \in Keys |-> NoCell]
  /\ bytes' = [c \in Cells |-> Torn]

-------------------------------------------------------------------------------
Migrate ==
  \/ \E k \in Keys : (\E n \in Hbm : start_promotion(k, n)) \/ (\E v \in Keys : start_swap(k, v))
  \/ advance_retry \/ advance_demoted \/ advance_promoted

Next ==
  \/ \E r \in Readers : copy_over(r) \/ \E k \in Keys : resolve_expert_host_source(r, k)
  \/ \E k \in Keys : preload(k) \/ prepack(k)
  \/ serve
  \/ \E l \in loads : worker_main(l) \/ process_arena_loads(l)
  \/ Migrate \/ copy_worker_main
  \/ restart_warm \/ restart_cold

Spec == Init /\ [][Next]_vars

-------------------------------------------------------------------------------
(* Properties.                                                             *)

YesNo == {"yes", "no"}
CellsOrNone == Cells \cup {NoCell}
TypeOK ==
  /\ cell \in [Cells -> [key : Keys \cup {Free}, ready : YesNo, loading : YesNo, inflight : Nat]]
  /\ location_ \in [Keys -> Nodes \cup {Nowhere}]
  /\ rec \in [Cells -> [state : {"empty", "loading", "active"}, key : Keys \cup {Free},
                        version : Versions \cup {0}]]
  /\ index \in [Keys -> CellsOrNone]
  /\ bytes \in [Cells -> (Keys \X Versions) \cup {Torn}]
  /\ files \in [Keys -> Versions] /\ ident \in [Keys -> Versions]
  /\ loads \subseteq [key : Keys, cell : Cells, state : {"queued", "reading", "ok", "failed"}]
  /\ reads \in [Readers -> [cell : CellsOrNone, key : Keys \cup {Free}]]
  /\ phase_ \in {"idle", "demote_copy", "demote_commit", "promote_copy", "promote_commit"}
  /\ move \in [key : Keys \cup {Free}, victim : Keys \cup {Free}, hbm : Nodes \cup {Nowhere},
               src : Nodes \cup {Nowhere}]
  /\ spare_node_ \in Nodes \cup {Nowhere}
  /\ copy \in [state : {"none", "queued", "copying", "done"}, from : CellsOrNone, to : CellsOrNone]
  /\ daemon \in {"preload", "serving"}

\* INV-ARENA-CACHE-ORDER: at every moment at which the daemon may die, a record
\* that the next one would believe describes bytes that are all there.
RecordTruthful ==
  \A c \in Cells : rec[c].state = "active" /\ rec[c].version = files[rec[c].key] =>
                      bytes[c] = <<rec[c].key, rec[c].version>>

\* A slot that is ready has its expert, whole and not older than the file was at
\* boot, whoever filled it: loader, caller, migration, or a daemon that died since.
ReadyIsWhole ==
  \A c \in Cells : cell[c].ready = "yes" =>
     bytes[c][1] = cell[c].key /\ bytes[c][2] >= ident[cell[c].key]

\* INV-4.12i: the slot a copy to a GPU reads from keeps its expert until the end.
ReadsAreStable ==
  \A r \in Readers : reads[r] # NoRead =>
     /\ cell[reads[r].cell].key = reads[r].key
     /\ bytes[reads[r].cell][1] = reads[r].key

\* The pins of a slot are those of the copies that read it, and the migrator's.
PinsExact ==
  \A c \in Cells : cell[c].inflight =
     Cardinality({r \in Readers : reads[r] # NoRead /\ reads[r].cell = c})
       + (IF phase_ # "idle" /\ copy.from = c THEN 1 ELSE 0)

\* An expert is where location_ says and nowhere else, but for the target of the
\* migration it is in.
LocationExact ==
  \A c \in Cells : cell[c].key # Free =>
     \/ location_[cell[c].key] = c[1] /\ Cardinality(At(cell, c[1], cell[c].key)) = 1
     \/ phase_ # "idle" /\ c = copy.to /\ cell[c].key = Moving
LocatedIsThere == \A k \in Keys : location_[k] # Nowhere => At(cell, location_[k], k) # {}
PlacementExact == LocationExact /\ LocatedIsThere

\* The slot table of every node: types, pins and the placement of the experts
\* agree, through loads, copies, migrations and restarts.
ArenaInv == TypeOK /\ PinsExact /\ PlacementExact

\* Nobody writes into a slot that is read, or that another expert was given.
WritersOwnTheirSlot ==
  /\ \A l \in loads : cell[l.cell].key = l.key /\ cell[l.cell].ready = "no"
  /\ phase_ # "idle" => /\ cell[copy.to].key = Moving /\ cell[copy.to].ready = "no"
                        /\ cell[copy.from].key = Moving /\ cell[copy.from].ready = "yes"

\* INV-ARENA-MIGRATE: an expert that moves can be read all the time.
MigrationKeepsResident ==
  [][advance_demoted \/ advance_promoted \/ advance_retry =>
       \A k \in Keys : Ready(k) => Ready(k)']_vars

\* A daemon that dies and comes back needs no file for what it had, unless the
\* file changed.
WarmRestartKeeps ==
  [][restart_warm =>
       \A k \in Keys : Ready(k) /\ rec[Source(location_, cell, k)].version = files[k] => Ready(k)']_vars

===============================================================================
