------------------------------- MODULE KvTiering -------------------------------
(***************************************************************************)
(* The KV cache of sequences that share pages (src/daemon/                  *)
(* kv_tiering_manager.cpp, dispatch_lifecycle.cpp).  A logical page of a    *)
(* sequence has one VRAM page per layer; forks share pages and cold slots   *)
(* by reference count.  Pages behind the retention window are copied to     *)
(* pinned host memory (cold), those of a hibernated prefix holder further   *)
(* to a file; a rewind or a fork in the middle of a page brings them back.  *)
(*                                                                         *)
(* The daemon is one thread: an attention dispatch of one layer, or a       *)
(* sequence command, is one step.  The copies to the host run beside it.    *)
(* One rank is modelled: replicated pools move in lockstep, sharded ones    *)
(* hold their own pages.  A row's value is where and by whom it was         *)
(* written; what is freed is blank.                                         *)
(***************************************************************************)
EXTENDS Integers, Sequences, FiniteSets, SequencesExt, FiniteSetsExt

CONSTANTS NumSeqs,        \* bound: sequences of a behaviour
          NumLayers, PageSize,
          MaxPages,       \* max_blocks_per_seq_
          VramPages, ColdPages,
          SpillCap,       \* spill_max_bytes, in pages
          Retention,      \* retention_tokens_
          Growth,         \* chunk_size_pages_: pages allocated ahead
          Chunk,          \* rows of a prefill chunk
          Superchunk,     \* rows that go through a layer before the next layer
          Roots,          \* bound: sequences that are not forked
          PrefixLens,     \* bound: lengths of truncating forks
          RewindTo,       \* bound: lengths that a rewind goes back to
          MaxRewinds,     \* bound: rewinds of all sequences
          AnyFork,        \* full forks of holders with pages allocated ahead
          AnyRewind       \* rewinds into the middle of a demoted page

ASSUME KvAssumption ==
  /\ NumSeqs \in Nat /\ NumLayers \in Nat \ {0} /\ PageSize \in Nat \ {0}
  /\ MaxPages \in Nat /\ VramPages \in Nat /\ ColdPages \in Nat /\ SpillCap \in Nat
  /\ Retention \in Nat /\ Growth \in Nat /\ Chunk \in Nat \ {0, 1} /\ Superchunk \in Nat
  /\ PrefixLens \subseteq Nat /\ RewindTo \subseteq Nat /\ MaxRewinds \in Nat
  /\ AnyFork \in BOOLEAN /\ AnyRewind \in BOOLEAN

VARIABLE kv   \* allocator, dispatcher and tiering manager: see Init

Ids     == 1..NumSeqs
Layers  == 0..(NumLayers - 1)
Rows    == 0..(PageSize - 1)
Logical == 0..(MaxPages - 1)
Places  == 0..(MaxPages * PageSize - 1)
Pages   == 1..VramPages
Slots   == 1..ColdPages
\* The pages of all sequences: a logical page of a layer of a sequence.
Cells   == Ids \X Layers \X Logical
Of(s)   == {s} \X Layers \X Logical

Blank     == <<>>
BlankPage == [r \in Rows |-> Blank]
Neutral   == 0                            \* page_idx == -1
NoPend    == [seq |-> 0, last |-> 0, items |-> {}]
\* A page that was not demoted (PageState).
Hot == [tier |-> "hot", slot |-> 0, disk |-> BlankPage]

\* pg, num: kv_pages.  txt: what the rows of a layer are meant to be.  pass: the
\* layers under way.  A holder is frozen.  st .. file: SeqState of the manager.
Init == kv =
  [vram |-> [h \in Pages |-> BlankPage], ref |-> [h \in Pages |-> 0],
   cold |-> [c \in Slots |-> BlankPage], cold_ref |-> [c \in Slots |-> 0],
   pg |-> [x \in Cells |-> Neutral], num |-> [s \in Ids |-> 0],
   life |-> [s \in Ids |-> "unborn"], txt |-> [y \in Ids \X Layers |-> <<>>],
   pass |-> [s \in Ids |-> "none"], base |-> [s \in Ids |-> 0],
   floor |-> [s \in Ids |-> 0], rewinds |-> [s \in Ids |-> 0],
   st |-> [x \in Cells |-> Hot],
   cache |-> [y \in Ids \X Layers \X Places |-> Blank],      \* row cache
   seen |-> [s \in Ids |-> 0], frontier |-> [s \in Ids |-> 0],
   demoted |-> [s \in Ids |-> 0], flying |-> [s \in Ids |-> 0], used |-> [s \in Ids |-> 0],
   hibernated |-> [s \in Ids |-> "no"], file |-> [s \in Ids |-> 0],
   pend |-> NoPend,           \* the deferred batch: seq, last layer, pages
   stream |-> <<>>,           \* groups of copies to the host, in stream order
   landed |-> {},             \* copies that have landed and were not polled yet
   spilled_total |-> 0, total |-> 0, spill |-> "enabled", fail |-> "none"]

-------------------------------------------------------------------------------
(* Pages and slots.                                                        *)

FreePages(k) == {h \in Pages : k.ref[h] = 0}
FreeSlots(k) == {c \in Slots : k.cold_ref[c] = 0}

\* How many of the cells X have each page, or each slot.
Handles(k, X) == [h \in Pages |-> Cardinality({x \in X : k.pg[x] = h})]
Copies(k, X)  == [c \in Slots |-> Cardinality({x \in X : k.st[x].slot = c})]

\* n[h] references to every h are given up, or added; what has none left is blank.
Less(ref, n) == [h \in DOMAIN ref |-> ref[h] - n[h]]
More(ref, n) == [h \in DOMAIN ref |-> ref[h] + n[h]]
Kept(mem, ref, n) == [h \in DOMAIN mem |-> IF n[h] > 0 /\ ref[h] = n[h] THEN BlankPage ELSE mem[h]]

free(k, n) == [k EXCEPT !.ref = Less(@, n), !.vram = Kept(@, k.ref, n)]

release_cold_slot(k, n) ==
  IF \E c \in Slots : k.cold_ref[c] < n[c] THEN [k EXCEPT !.fail = "double release"]
  ELSE [k EXCEPT !.cold_ref = Less(@, n), !.cold = Kept(@, k.cold_ref, n)]

\* Pages (or slots) for the members of X, one each: who takes them, their
\* references and, with the bytes that each of X brings, their contents.
Place(X, S) == CHOOSE f \in [X -> S] : IsInjective(f)
Takes(f, h) == \E x \in DOMAIN f : f[x] = h
Taker(f, h) == CHOOSE x \in DOMAIN f : f[x] = h
Took(ref, f) == [h \in DOMAIN ref |-> IF Takes(f, h) THEN 1 ELSE ref[h]]
Filled(mem, f, bytes) == [h \in DOMAIN mem |-> IF Takes(f, h) THEN bytes[Taker(f, h)] ELSE mem[h]]
\* p, but as f says where f says something.
With(p, f) == [x \in DOMAIN p |-> IF x \in DOMAIN f THEN f[x] ELSE p[x]]

\* Fresh pages for the cells X.
alloc_pages(k, X) ==
  LET f == Place(X, FreePages(k)) IN [k EXCEPT !.ref = Took(@, f), !.pg = With(@, f)]

MinOf(a, b) == IF a < b THEN a ELSE b
MaxOf(a, b) == IF a > b THEN a ELSE b
\* Where the last of the pages X ends, or b if that is later.
EndOf(b, X) == Max({b} \cup {(x[3] + 1) * PageSize : x \in X})
\* The states of pages in tier t with the slots f.
At(t, f) == [x \in DOMAIN f |-> [Hot EXCEPT !.tier = t, !.slot = f[x]]]
\* The first n members of S in the order of key: a loop that stops after n.
First(n, S, key) ==
  CHOOSE A \in SUBSET S : Cardinality(A) = n /\ \A a \in A, b \in S \ A : key[a] <= key[b]
PositionMajor == [x \in Cells |-> x[3] * NumLayers + x[2]]
LayerMajor    == [x \in Cells |-> x[2] * MaxPages + x[3]]
\* The pages of a sequence in tier t.
InTier(k, s, t) == {x \in Of(s) : k.st[x].tier = t}

-------------------------------------------------------------------------------
(* Demotion.                                                               *)

cold_cap(k, s, fair_share) ==
  LET n == Cardinality({q \in Ids : (k.demoted[q] > 0 \/ q = s) /\ k.hibernated[q] = "no"})
  IN IF fair_share /\ n > 1 THEN MaxOf(ColdPages \div n, 1) ELSE ColdPages

\* The items of the batch that get a slot: as many as the share of the sequence
\* and the pool allow; the others stay hot.
Accepted(k, fair_share) ==
  LET s == k.pend.seq
      share == MaxOf(cold_cap(k, s, fair_share) - k.used[s], 0)
      room == MinOf(share, Cardinality(FreeSlots(k)))
  IN First(MinOf(Cardinality(k.pend.items), room), k.pend.items, [i \in k.pend.items |-> i.h])

accept(k, s, items) ==
  LET X == {i.x : i \in items}
      f == Place(X, FreeSlots(k))
      n == Cardinality(X)
  IN [k EXCEPT !.pend = NoPend,
               !.cold_ref = Took(@, f), !.st = With(@, At("inflight", f)),
               !.used[s] = @ + n, !.demoted[s] = @ + n, !.flying[s] = @ + n, !.total = @ + n,
               !.frontier[s] = EndOf(@, X),
               !.stream = Append(@, {[x |-> i.x, h |-> i.h, c |-> f[i.x]] : i \in items})]

flush_pending(k, fair_share) ==
  LET items == Accepted(k, fair_share)
  IN IF k.pend.items = {} THEN k
     ELSE IF items = {} THEN [k EXCEPT !.pend = NoPend]
     ELSE accept(k, k.pend.seq, items)

Collected(k, s, layers, demote_end, frontier) ==
  {x \in {s} \X layers \X Logical :
     /\ x[3] < k.num[s] /\ (x[3] + 1) * PageSize <= demote_end /\ x[3] < frontier
     /\ k.st[x].tier = "hot" /\ k.pg[x] # Neutral /\ \A i \in k.pend.items : i.x # x}

collect(k, s, layers, demote_end, frontier) ==
  LET new == Collected(k, s, layers, demote_end, frontier)
  IN IF new = {} THEN k
     ELSE [k EXCEPT !.pend = [seq |-> s, last |-> Max({x[2] : x \in new}),
                              items |-> @.items \cup {[x |-> x, h |-> k.pg[x]] : x \in new}]]

collect_layer_range(k, s, layers, demote_end, frontier) ==
  collect(IF k.pend.seq \in {0, s} THEN k ELSE flush_pending(k, TRUE), s, layers, demote_end, frontier)

\* Copies have landed: the slots hold what the pages hold.
land(k, items) ==
  [k EXCEPT !.landed = @ \cup items,
            !.cold = [c \in DOMAIN @ |-> IF \E i \in items : i.c = c
                                      THEN k.vram[(CHOOSE i \in items : i.c = c).h] ELSE @[c]]]

land_all(k) == [land(k, UNION ToSet(k.stream)) EXCEPT !.stream = <<>>]

poll_demotions(k) ==
  LET X == {i.x : i \in k.landed}
      n == [h \in Pages |-> Cardinality({i \in k.landed : i.h = h})]
  IN [free(k, n) EXCEPT
        !.landed = {},
        !.st = With(@, At("cold", [x \in X |-> k.st[x].slot])),
        !.pg = With(@, [x \in X |-> Neutral]),
        !.flying = [s \in Ids |-> @[s] - Cardinality(X \cap Of(s))]]

drain_demotions(k) == poll_demotions(land_all(flush_pending(k, TRUE)))
settled(k, s) == IF k.flying[s] > 0 THEN drain_demotions(k) ELSE k

discard_pending(k, s) == IF k.pend.seq = s THEN [k EXCEPT !.pend = NoPend] ELSE k

-------------------------------------------------------------------------------
(* The file of a holder; the way back to VRAM.                             *)

write_file(k, s, written) ==
  LET X == InTier(k, s, "cold")
      n == Cardinality(X)
  IN IF n = 0 \/ k.spilled_total + n > SpillCap THEN k
     ELSE IF ~written THEN [k EXCEPT !.spill = "disabled"]
     ELSE release_cold_slot(
            [k EXCEPT !.file[s] = n, !.spilled_total = @ + n, !.used[s] = MaxOf(@ - n, 0),
                      !.st = With(@, [x \in X |-> [Hot EXCEPT !.tier = "spilled", !.disk = k.cold[k.st[x].slot]]])],
            Copies(k, X))

spill_seq(k, s, written) ==
  IF k.spill = "disabled" \/ k.hibernated[s] = "no" \/ k.file[s] > 0 THEN k
  ELSE write_file(settled(flush_pending(k, TRUE), s), s, written)

\* Results: the state, and whether it was done completely.
Done(k)   == [k |-> k, ok |-> TRUE]
Failed(k) == [k |-> k, ok |-> FALSE]

reload(k, s, X) ==
  LET f == Place(X, FreeSlots(k)) IN
  [k EXCEPT !.cold_ref = Took(@, f), !.cold = Filled(@, f, [x \in X |-> k.st[x].disk]),
            !.st = With(@, At("cold", f)),
            !.used[s] = @ + Cardinality(X)]

\* blocks: how many the file gives before a read fails, none if it cannot be opened.
unspill_seq(k, s, blocks) ==
  LET todo == InTier(k, s, "spilled")
      n == MinOf(blocks, MinOf(Cardinality(todo), Cardinality(FreeSlots(k))))
      a == reload(k, s, First(n, todo, LayerMajor))
  IN IF k.file[s] = 0 THEN Done(k)
     ELSE IF n < Cardinality(todo) THEN Failed(a)
     ELSE Done([a EXCEPT !.spilled_total = @ - k.file[s], !.file[s] = 0])

Frontier(k, s) == EndOf(0, Of(s) \ InTier(k, s, "hot"))

\* Fresh pages with the demoted bytes; the slots stay with the other holders.
promote(k, s, X) ==
  LET f == Place(X, FreePages(k))
      n == Cardinality(X)
  IN release_cold_slot(
       [k EXCEPT !.ref  = Took(@, f), !.vram = Filled(@, f, [x \in X |-> k.cold[k.st[x].slot]]),
                 !.pg = With(@, f), !.st = With(@, [x \in X |-> Hot]),
                 !.used[s] = MaxOf(@ - n, 0), !.demoted[s] = @ - n, !.total = @ - n],
       Copies(k, X))

lift(k, s, keep) ==
  LET jobs == {x \in InTier(k, s, "cold") : (x[3] + 1) * PageSize > keep}
      n == MinOf(Cardinality(jobs), Cardinality(FreePages(k)))
      a == promote(k, s, First(n, jobs, PositionMajor))
  IN IF jobs = {} THEN Done(k)
     ELSE [ok |-> n = Cardinality(jobs),
           k |-> [a EXCEPT !.frontier[s] = Frontier(a, s),
                           !.cache = [y \in DOMAIN @ |-> IF y[1] = s /\ y[3] >= keep THEN Blank ELSE @[y]]]]

lift_read(u, s, keep) == IF ~u.ok \/ u.k.demoted[s] = 0 THEN u ELSE lift(drain_demotions(u.k), s, keep)
\* Of a live sequence, which has no file.
repromote_seq(k, s, keep) == lift_read(unspill_seq(flush_pending(k, TRUE), s, SpillCap), s, keep)

rewind_to(k, s, pos) == IF k.frontier[s] <= pos THEN Done(k) ELSE repromote_seq(k, s, pos)
repromote_for_rewind(k, s, pos) == rewind_to(flush_pending(k, TRUE), s, pos)

-------------------------------------------------------------------------------
(* Growth, with one sweep of what could be demoted out of step.            *)

Demoted(k, b) == [k |-> b, ok |-> b.total > k.total]
demote_window(k, s) ==
  IF k.hibernated[s] = "yes" \/ k.seen[s] = 0 THEN Failed(k)
  ELSE Demoted(k, flush_pending(collect_layer_range(k, s, Layers, k.seen[s] - Retention,
                                                    (k.seen[s] - 1) \div PageSize), TRUE))
pressure_demote(k, s) == demote_window(flush_pending(k, TRUE), s)

Held(k) == {s \in Ids : k.life[s] \in {"live", "holder"}}

\* The other sequences, one after the other; ok: some page was demoted.
Either(r, before) == [k |-> r.k, ok |-> r.ok \/ before.ok]
SweepStep(own, s, swept, n) ==
  IF n = 0 THEN own
  ELSE IF n = s \/ n \notin Held(own.k) THEN swept[n - 1]
  ELSE Either(pressure_demote(swept[n - 1].k, n), swept[n - 1])
sweep_others(own, s) ==
  LET swept[n \in 0..NumSeqs] == SweepStep(own, s, swept, n) IN swept[NumSeqs]

else_others(own, s) == IF own.ok THEN own ELSE sweep_others(own, s)
drain_if(r) == IF r.ok THEN drain_demotions(r.k) ELSE r.k
tiering_pressure_reclaim(k, s) == drain_if(else_others(pressure_demote(k, s), s))

append_pages(k, s, n) ==
  [alloc_pages(k, {x \in Of(s) : x[3] >= k.num[s] /\ x[3] < k.num[s] + n}) EXCEPT !.num[s] = @ + n]

\* Whole pages only: the handles of a page that cannot be completed go back.  The
\* sweep neither sees nor frees the pages that were taken before it.
room_for(k, s, n) ==
  IF Cardinality(FreePages(k)) < n * NumLayers THEN tiering_pressure_reclaim(k, s) ELSE k
append_up_to(k, s, n) == append_pages(k, s, MinOf(n, Cardinality(FreePages(k)) \div NumLayers))
Has(k, s, needed) == [k |-> k, ok |-> needed <= k.num[s]]
ensure_pages(k, s, pos) ==
  LET needed == pos \div PageSize + 1
      target == MinOf(MaxOf(needed, k.num[s] + Growth), MaxPages)
      want == target - k.num[s]
  IN IF needed <= k.num[s] THEN Done(k) ELSE Has(append_up_to(room_for(k, s, want), s, want), s, needed)

-------------------------------------------------------------------------------
(* An attention dispatch of one layer.                                     *)

\* A deferred batch of another sequence, or of the step before, goes first.
flush_foreign(k, s, l) ==
  IF k.pend.seq # s \/ (l = 0 /\ k.pend.last > 0) THEN flush_pending(k, TRUE) ELSE k

may_write(k, s, l, pos, rows) ==
  LET illegal == IF rows > 1 THEN \E j \in Logical : j >= pos \div PageSize /\ k.st[<<s, l, j>>].tier # "hot"
                             ELSE k.frontier[s] > pos
      seen == IF rows = 1 /\ pos + 1 < k.seen[s] THEN pos + 1 ELSE MaxOf(k.seen[s], pos + rows)
  IN IF illegal THEN [k EXCEPT !.fail = "INV-KVT-2"] ELSE [k EXCEPT !.seen[s] = seen]

begin_layer(k, s, l, pos, rows) == may_write(flush_foreign(poll_demotions(k), s, l), s, l, pos, rows)

\* A rewind: the rows from pos on are no longer meant in any layer.
Forget(k, s, pos) ==
  [k EXCEPT !.rewinds[s] = @ + 1,
            !.txt = [y \in DOMAIN @ |-> IF y[1] = s THEN SubSeq(@[y], 1, pos) ELSE @[y]]]

\* k_append writes the rows through the block table; the attention reads what
\* is selected of the rows before them, through the row cache if they are cold.
\* (Here every cold row is read, and the cache is large enough.)
write_rows(k, s, l, pos, rows) ==
  LET value(p) == <<l, p, s, k.rewinds[s]>>
      at(h, r) == {p \in pos..(pos + rows - 1) : k.pg[<<s, l, p \div PageSize>>] = h /\ p % PageSize = r}
  IN [k EXCEPT !.vram = [h \in DOMAIN @ |-> [r \in Rows |->
                           IF at(h, r) = {} THEN @[h][r] ELSE value(Max(at(h, r)))]],
               !.txt[<<s, l>>] = @ \o [i \in 1..rows |-> value(pos + i - 1)]]
append_rows(k, s, l, pos, rows) ==
  write_rows(IF pos < Len(k.txt[<<s, l>>]) THEN Forget(k, s, pos) ELSE k, s, l, pos, rows)

read_rows(k, s, l, pos) ==
  LET e(p) == k.st[<<s, l, p \div PageSize>>]
      new(y) == y[1] = s /\ y[2] = l /\ y[3] < pos /\ e(y[3]).tier = "cold" /\ k.cache[y] = Blank
  IN [k EXCEPT !.cache = [y \in DOMAIN @ |->
                            IF new(y) THEN k.cold[e(y[3]).slot][y[3] % PageSize] ELSE @[y]]]

after_attention(k, s, l, pos) ==
  collect_layer_range(k, s, {l}, pos + 1 - Retention, pos \div PageSize)

attend(k, s, l, pos, rows) ==
  IF k.fail # "none" THEN k
  ELSE after_attention(read_rows(append_rows(k, s, l, pos, rows), s, l, pos), s, l, pos + rows - 1)

tier_step(k, s, l, pos, rows) ==
  attend(begin_layer(poll_demotions(k), s, l, pos, rows), s, l, pos, rows)

\* A chunk that does not run sparse reads everything through the block table.
all_hot(k, s) == IF k.demoted[s] > 0 THEN repromote_seq(k, s, 0) ELSE Done(k)
dense_rows(a, s, l, pos, rows) == IF a.ok THEN Done(append_rows(a.k, s, l, pos, rows)) ELSE a
dense_step(k, s, l, pos, rows) == dense_rows(all_hot(poll_demotions(k), s), s, l, pos, rows)

Rowed(k, s, l) == Len(k.txt[<<s, l>>])
Idle(k, s)     == k.life[s] = "live" /\ k.pass[s] = "none"
\* The layer that is next in the pass of a sequence.
Lagging(k, s)  == Min({l \in Layers : Rowed(k, s, l) < Rowed(k, s, 0)} \cup {NumLayers})

decode_row(b, s, l, pos) == IF b.ok THEN Done(tier_step(b.k, s, l, pos, 1)) ELSE b

decode_layer_no_hook(k, s, l, pos) ==   \* mutant: the rewind hook is missing
  decode_row(ensure_pages(k, s, pos), s, l, pos)

\* One layer of a decode step.  Its hook lifts what a rewind would overwrite.
rewind_hook(k, s, pos) == IF k.demoted[s] > 0 THEN repromote_for_rewind(k, s, pos) ELSE Done(k)
hooked_row(a, s, l, pos) == IF a.ok THEN decode_row(ensure_pages(a.k, s, pos), s, l, pos) ELSE a
decode_layer(k, s, l, pos) == hooked_row(rewind_hook(k, s, pos), s, l, pos)

\* What a rewind of the orchestrator may go back to: never below a fork; and
\* (unless AnyRewind) to the middle of a page only while it is hot, and not past
\* pages that are about to be demoted.
Rewinds(s) ==
  {p \in RewindTo \cap (kv.floor[s]..(Rowed(kv, s, 0) - 1)) :
     /\ FoldFunctionOnSet(+, 0, kv.rewinds, Ids) < MaxRewinds
     /\ AnyRewind \/ (kv.pend.seq # s /\ (p >= kv.frontier[s] \/ p % PageSize = 0))}

\* A step that was taken (its pass is over when every layer has the rows of the
\* first), or what a refused one left behind.
Taken(r, s, pass, base) ==
  IF ~r.ok \/ r.k.fail # "none" THEN r.k
  ELSE IF \A l \in Layers : Rowed(r.k, s, l) = Rowed(r.k, s, 0)
  THEN [r.k EXCEPT !.pass[s] = "none", !.base[s] = 0]
  ELSE [r.k EXCEPT !.pass[s] = pass, !.base[s] = base]

decode(s) ==
  \/ /\ Idle(kv, s)
     /\ \E pos \in {Rowed(kv, s, 0)} \cup Rewinds(s) :
          pos < MaxPages * PageSize /\ kv' = Taken(decode_layer(kv, s, 0, pos), s, "decode", 0)
  \/ /\ kv.pass[s] = "decode"
     /\ kv' = Taken(decode_layer(kv, s, Lagging(kv, s), Rowed(kv, s, 0) - 1), s, "decode", 0)

\* Chunks of a prefill: all chunks of a superchunk in the first layer, then in the next.
chunk_rows(a, s, l, pos, pass) ==
  IF ~a.ok THEN a
  ELSE IF pass = "chunk" THEN Done(tier_step(a.k, s, l, pos, Chunk))
  ELSE dense_step(a.k, s, l, pos, Chunk)
chunk_layer(k, s, l, pos, pass) == chunk_rows(ensure_pages(k, s, pos + Chunk - 1), s, l, pos, pass)

\* The next chunk of the first layer, while no other layer has begun.
NextChunk(s, pass) ==
  /\ Rowed(kv, s, 0) + Chunk <= MaxPages * PageSize
  /\ \/ Idle(kv, s)
     \/ /\ pass = "chunk" /\ kv.pass[s] = "chunk"
        /\ \A l \in Layers \ {0} : Rowed(kv, s, l) = kv.base[s]
        /\ Rowed(kv, s, 0) + Chunk - kv.base[s] <= Superchunk

prefill(s, pass) ==
  \E l \in Layers :
    /\ \/ l = 0 /\ NextChunk(s, pass)
       \/ l > 0 /\ kv.pass[s] = pass /\ l = Lagging(kv, s)
    /\ LET pos  == Rowed(kv, s, l)
           base == IF Idle(kv, s) THEN pos ELSE kv.base[s]
       IN kv' = Taken(chunk_layer(kv, s, l, pos, pass), s, pass, base)

-------------------------------------------------------------------------------
(* The commands of a sequence.                                             *)

NewId(s) == kv.life[s] = "unborn" /\ \A q \in Ids : q < s => kv.life[q] # "unborn"

seq_create(s) ==
  /\ NewId(s) /\ s \in Roots
  /\ LET n == MinOf((Chunk + PageSize - 1) \div PageSize + Growth, MaxPages)
     IN /\ n * NumLayers <= Cardinality(FreePages(kv))
        /\ kv' = [append_pages(kv, s, n) EXCEPT !.life[s] = "live"]

release_seq(k, s) ==
  [release_cold_slot(k, Copies(k, Of(s))) EXCEPT
     !.st = With(@, [x \in Of(s) |-> Hot]),
     !.cache = [y \in DOMAIN @ |-> IF y[1] = s THEN Blank ELSE @[y]],
     !.total = @ - k.demoted[s], !.spilled_total = @ - k.file[s],
     !.seen[s] = 0, !.frontier[s] = 0, !.demoted[s] = 0, !.flying[s] = 0, !.used[s] = 0,
     !.hibernated[s] = "no", !.file[s] = 0]

on_seq_free(k, s) == release_seq(settled(discard_pending(k, s), s), s)

free_handles(k, s) ==
  [free(k, Handles(k, Of(s))) EXCEPT !.pg = With(@, [x \in Of(s) |-> Neutral]), !.num[s] = 0]

\* The dispatcher forgets the sequence.
Erased(k, s, life) ==
  [k EXCEPT !.life[s] = life, !.pass[s] = "none", !.base[s] = 0, !.floor[s] = 0, !.rewinds[s] = 0,
            !.txt = [y \in DOMAIN @ |-> IF y[1] = s THEN <<>> ELSE @[y]]]
Ended(k, s, life) == Erased(free_handles(on_seq_free(k, s), s), s, life)

seq_free(s) == s \in Held(kv) /\ kv' = Ended(kv, s, "freed")

\* What a child takes over of the pages of its parent: the first ones, or all if
\* prefix is 0.
Whole(n)  == (n + PageSize - 1) \div PageSize
Inherited(k, src, dst, prefix) ==
  With(k.st, [x \in Of(dst) |-> IF prefix > 0 /\ x[3] >= Whole(prefix) THEN Hot
                                ELSE k.st[<<src, x[2], x[3]>>]])

inherit_all_counts(k, src, dst, prefix) ==   \* mutant: a truncated child has its parent's accounts
  [k EXCEPT !.st = Inherited(k, src, dst, prefix), !.demoted[dst] = k.demoted[src],
            !.used[dst] = k.used[src], !.total = @ + k.demoted[src], !.frontier[dst] = k.frontier[src]]

\* The record of the child, with the accounting of what is left.
inherit(k, src, dst, prefix) ==
  LET st == Inherited(k, src, dst, prefix)
      X == {x \in Of(dst) : st[x].tier = "cold"}
      n == Cardinality(X)
  IN [k EXCEPT !.st = st, !.demoted[dst] = n, !.used[dst] = n, !.total = @ + n,
               !.seen[dst] = IF prefix > 0 THEN MinOf(k.seen[src], prefix) ELSE k.seen[src],
               !.frontier[dst] = IF prefix > 0 THEN EndOf(0, X) ELSE k.frontier[src]]

share_slots(k, src, dst, prefix) ==
  LET a == inherit(k, src, dst, prefix)
  IN IF k.file[src] > 0 THEN [k EXCEPT !.fail = "fork of a spilled sequence"]
     ELSE IF a.demoted[dst] = 0 THEN k
     ELSE [a EXCEPT !.cold_ref = More(@, Copies(a, Of(dst)))]

on_seq_fork(k, src, dst, prefix) ==
  share_slots(settled(flush_pending(k, TRUE), src), src, dst, prefix)

\* The pages of the child: shared, but for the last one if the child writes it.
add_ref(k, src, dst, n) ==
  LET a == [k EXCEPT !.num[dst] = n,
                     !.pg = With(@, [x \in {y \in Of(dst) : y[3] < n} |-> k.pg[<<src, x[2], x[3]>>]])]
  IN [a EXCEPT !.ref = More(@, Handles(a, Of(dst)))]

Shared(k, s) ==
  {x \in Of(s) : x[3] = k.num[s] - 1 /\ k.pg[x] # Neutral /\ k.ref[k.pg[x]] > 1}

split(k, X) ==
  LET f == Place(X, FreePages(k))
  IN [free(k, Handles(k, X)) EXCEPT !.ref  = Took(@, f), !.pg = With(@, f),
                                    !.vram = Filled(@, f, [x \in X |-> k.vram[k.pg[x]]])]

cow_copy_last_layer(k, s) ==   \* mutant: only the last handle of the page is split
  LET X == {x \in Shared(k, s) : x[2] = NumLayers - 1}
  IN IF Cardinality(X) <= Cardinality(FreePages(k)) THEN Done(split(k, X)) ELSE Failed(k)

cow_copy(k, s) ==
  LET X == Shared(k, s)
      n == MinOf(Cardinality(X), Cardinality(FreePages(k)))
  IN [k |-> split(k, First(n, X, LayerMajor)), ok |-> n = Cardinality(X)]

fork_pages(k, src, dst, frozen, prefix) ==
  LET want == IF prefix > 0 THEN Whole(prefix) ELSE k.num[src]
      take == MinOf(want, k.num[src])
      kv_cow == ~frozen /\ take > 0 /\ (prefix = 0 \/ (prefix % PageSize # 0 /\ take = want))
      a == add_ref(k, src, dst, take)
  IN IF kv_cow THEN cow_copy(a, dst) ELSE Done(a)

\* The child; the rows that it will overwrite are lifted to VRAM, or it is not to be.
Child(k, src, dst, frozen, prefix) ==
  LET n == IF prefix > 0 THEN prefix ELSE Rowed(k, src, 0)
  IN [k EXCEPT !.life[dst] = IF frozen THEN "holder" ELSE "live",
               !.floor = [q \in Ids |-> IF q = dst THEN n ELSE IF q = src THEN MaxOf(@[q], n) ELSE @[q]],
               !.txt = [y \in DOMAIN @ |->
                          IF y[1] = dst THEN SubSeq(k.txt[<<src, y[2]>>], 1, n) ELSE @[y]]]

undo_fork(k, dst) == Ended(k, dst, "unborn")

lift_child(k, dst, prefix) == IF prefix > 0 THEN repromote_for_rewind(k, dst, prefix) ELSE Done(k)
\* reserved: a child that will write gets the indexer pages it asks for.
undo_unless(r, dst, reserved) == IF r.ok /\ reserved THEN r.k ELSE undo_fork(r.k, dst)

Born(f, src, dst, frozen, prefix, reserved) ==
  IF ~f.ok THEN undo_fork(f.k, dst)
  ELSE undo_unless(lift_child(Child(f.k, src, dst, frozen, prefix), dst, prefix), dst, reserved)

Forked(k, src, dst, frozen, prefix, reserved) ==
  IF k.fail # "none" THEN k
  ELSE Born(fork_pages(k, src, dst, frozen, prefix), src, dst, frozen, prefix, reserved)

fork_read(u, src, dst, frozen, prefix, reserved) ==
  IF u.ok THEN Forked(on_seq_fork(u.k, src, dst, prefix), src, dst, frozen, prefix, reserved) ELSE u.k
handle_seq_fork(k, src, dst, frozen, prefix, reserved, blocks) ==
  fork_read(unspill_seq(k, src, blocks), src, dst, frozen, prefix, reserved)

\* The sources of forks are holders and sequences between two steps.  A full
\* fork that will write is of one whose last page is the page written next, or
\* (if AnyFork) of any holder.
seq_fork(src, dst) ==
  /\ kv.life[src] = "holder" \/ Idle(kv, src)
  /\ NewId(dst) /\ Rowed(kv, src, 0) > 0
  /\ \E frozen \in BOOLEAN, prefix \in {n \in PrefixLens \cup {0} : n < Rowed(kv, src, 0)},
        reserved \in BOOLEAN, blocks \in 0..SpillCap :
       /\ frozen => reserved
       /\ \/ frozen \/ prefix > 0
          \/ AnyFork /\ kv.life[src] = "holder"
          \/ Rowed(kv, src, 0) \div PageSize >= kv.num[src] - 1
       /\ kv' = handle_seq_fork(kv, src, dst, frozen, prefix, reserved, blocks)

hibernate_seq(k, s) ==
  LET a == flush_pending([k EXCEPT !.hibernated[s] = "yes"], TRUE)
      b == collect_layer_range(a, s, Layers, a.num[s] * PageSize,
                               MinOf(Rowed(a, s, 0) \div PageSize, a.num[s] - 1))
  IN poll_demotions(flush_pending(b, FALSE))

seq_hibernate(s) ==
  /\ kv.life[s] = "holder"
  /\ LET k == hibernate_seq(kv, s)
     IN \/ kv' = k
        \/ \E written \in BOOLEAN : kv' = spill_seq(drain_demotions(k), s, written)

\* The checkpoint reads every tier but the file.
seq_snapshot(s) ==
  /\ s \in Held(kv) /\ kv.demoted[s] > 0
  /\ \E blocks \in 0..SpillCap : kv' = unspill_seq(drain_demotions(kv), s, blocks).k

\* The stream of the copies to the host is in order.
d2h ==
  /\ kv.stream # <<>>
  /\ kv' = [land(kv, Head(kv.stream)) EXCEPT !.stream = Tail(@)]

Next ==
  /\ kv.fail = "none"
  /\ \/ d2h
     \/ \E s \in Ids : \/ seq_create(s) \/ decode(s) \/ prefill(s, "chunk") \/ prefill(s, "dense")
                       \/ seq_free(s) \/ seq_hibernate(s) \/ seq_snapshot(s)
     \/ \E s, d \in Ids : seq_fork(s, d)

Spec == Init /\ [][Next]_kv

-------------------------------------------------------------------------------
(* Properties.                                                             *)

\* Where an attention (or the way back from a file) would find a row.
Found(k, s, l, p) ==
  LET x == <<s, l, p \div PageSize>>
      r == p % PageSize
  IN CASE k.st[x].tier \in {"hot", "inflight"} -> IF k.pg[x] = Neutral THEN Blank ELSE k.vram[k.pg[x]][r]
       [] k.st[x].tier = "cold" -> IF k.cache[<<s, l, p>>] # Blank THEN k.cache[<<s, l, p>>]
                                                                   ELSE k.cold[k.st[x].slot][r]
       [] OTHER -> k.st[x].disk[r]

\* INV-KVT-1, for families of forks: every row of every sequence and holder is
\* what was written to it last, in whichever tier it is, whatever the parents
\* and children that share its pages and slots appended, rewound, demoted,
\* promoted or freed.
KvContentKept ==
  \A s \in Held(kv) : \A l \in Layers : \A p \in 0..(Rowed(kv, s, l) - 1) :
     Found(kv, s, l, p) = kv.txt[<<s, l>>][p + 1]

SumOver(f) == LET sum[n \in 0..NumSeqs] == IF n = 0 THEN 0 ELSE sum[n - 1] + f[n] IN sum[NumSeqs]
HeldCells(k) == {x \in Cells : x[1] \in Held(k)}
\* The accounts: a page or a slot has as many references as sequences hold it, so
\* that none is lost or freed twice; and the counters of the manager are those of
\* its page states.
KvAccountsExact ==
  /\ kv.ref = Handles(kv, HeldCells(kv)) /\ kv.cold_ref = Copies(kv, HeldCells(kv))
  /\ \A s \in Ids :
       /\ kv.demoted[s] = Cardinality(Of(s) \ InTier(kv, s, "hot"))
       /\ kv.flying[s] = Cardinality(InTier(kv, s, "inflight"))
       /\ kv.used[s] = Cardinality({x \in Of(s) : kv.st[x].slot # 0})
       /\ kv.frontier[s] = Frontier(kv, s)
       /\ (kv.file[s] > 0) <=> InTier(kv, s, "spilled") # {}
  /\ kv.total = SumOver(kv.demoted)
  /\ kv.spilled_total = SumOver(kv.file)
  /\ kv.spilled_total <= SpillCap

\* The checks of the manager that throw (once a rewind stays clear of pages that are
\* being demoted: see Rewinds) are not met by the steps of a family of sequences: no
\* layer writes into a page that the pressure sweep of another sequence demoted
\* between two of its layers, no fork sees a file, no slot is released twice.
KvNeverFailsLoud == kv.fail = "none"
===============================================================================
