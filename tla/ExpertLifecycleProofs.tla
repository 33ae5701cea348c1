------------------------- MODULE ExpertLifecycleProofs -------------------------
(***************************************************************************)
(* Theorems about ExpertLifecycle for every set of experts, GPUs, slots,   *)
(* requests and clients.                                                   *)
(***************************************************************************)
EXTENDS ExpertLifecycle, TLAPS, NaturalsInduction, WellFoundedInduction

\* A token is an interest of one entry, which token_index_ names, or of none; an
\* answer that waits is of an open request that is nobody's interest any more.
TokensExact ==
  /\ \A e \in Entries : \A t \in ent[e].interests : token_index_[t] = e /\ request[t] = "open"
  /\ \A p \in pending_completions_ :
        request[p[1]] = "open" /\ \A e \in Entries : p[1] \notin ent[e].interests
  /\ \A t \in Tokens : t >= next_token_ => request[t] = "none"

\* An entry that holds an arena slot alive holds a slot that is loaded.
PinsHold == \A e \in Entries : ent[e].pin = "yes" => arena[e[1]] = "ready"

\* The stream of a GPU has copies to that GPU.
StreamsOwn == \A g \in Gpus : \A i \in 1..Len(stream[g]) : stream[g][i].gpu = g

\* A client that drains experts and one that locks them.
DrainsAndLocks == {"drain", "lock"} \subseteq commands

\* The tiers against the cache: an entry v and its cache entry c.
Held(v, c) ==
  /\ v.tier \in {"reserved", "transferring"} => c.slot # 0 /\ c.ready = "no" /\ v.interests # {}
  /\ v.tier \in {"hot", "draining"} => c.ready = "yes" /\ v.interests = {}
  /\ c.ready = "yes" => c.slot # 0
  /\ c.slot # 0 => c.ready = "yes" \/ v.tier \in {"reserved", "transferring"}
  /\ c.locks = 1 => c.ready = "yes" /\ "lock" \in commands
  /\ v.tier = "draining" => "drain" \in commands
  /\ v.tier = "absent" /\ ~DrainsAndLocks => c.slot = 0

SlotHeld(e) == Held(ent[e], cache[e])

\* No two experts share a VRAM slot.
SlotsDistinct ==
  \A e, f \in Entries : e[2] = f[2] /\ cache[e].slot = cache[f].slot /\ cache[e].slot # 0 => e = f

\* Who waits for the NVMe tier is ABSENT with a request open, and waits for a
\* write that is noticed.  The loop over them wakes or drops each: a cell that
\* vector::erase left behind is of an entry that gets no slot.
WaitersAbsent ==
  /\ \A k \in Keys : waiters[k] # <<>> => host[k] = "loading"
  /\ \A k \in Keys : \A g \in Listed(waiters[k]) :
        ent[<<k, g>>].tier = "absent" /\ ent[<<k, g>>].interests # {}
  /\ \A w \in Listed(todo) : w.op \in {"wake", "drop"} => waiters[w.key] = <<>>
  /\ \A w \in Listed(todo) : w.op \in {"start", "fail"} => w.live = "no"
  /\ \A w \in Listed(todo) : w.op = "drop" => ent[<<w.key, w.gpu>>].tier = "absent"
  /\ \A w \in Listed(todo) : w.op = "wake" =>
        \/ ent[<<w.key, w.gpu>>].tier # "absent" \/ ent[<<w.key, w.gpu>>].interests # {}
        \/ Refused(<<w.key, w.gpu>>)
  /\ \A w, x \in Listed(todo) : w.op = x.op

\* A live copy is the one of an entry that is TRANSFERRING, into its slot.
CopyOf(c) ==
  /\ c.by = "elm"
  /\ ent[<<c.key, c.gpu>>].tier = "transferring"
  /\ ent[<<c.key, c.gpu>>].xfer = "own"
  /\ cache[<<c.key, c.gpu>>].slot = c.slot

CopiesBelong ==
  /\ \A c \in staged : c.state = "live" /\ CopyOf(c)
  /\ \A g \in Gpus : \A i \in 1..Len(stream[g]) :
        stream[g][i].state = "live" => CopyOf(stream[g][i])

\* An entry has one live copy, and it is the last one into its slot.
CopiesUnique ==
  /\ \A c, d \in staged : c.key = d.key /\ c.gpu = d.gpu => c = d
  /\ \A g \in Gpus : \A i \in 1..Len(stream[g]) : stream[g][i].state = "live" =>
        /\ \A c \in staged : c.gpu = g => c.key # stream[g][i].key
        /\ \A j \in 1..Len(stream[g]) : stream[g][j].slot = stream[g][i].slot => j <= i

\* An expert that is ready has its bytes, and no copy into its slot is left.
ReadyIsQuiet ==
  \A e \in Entries : cache[e].ready = "yes" =>
     /\ content[e[2]][cache[e].slot] = e[1]
     /\ \A i \in 1..Len(stream[e[2]]) : stream[e[2]][i].slot # cache[e].slot

TransferringHasCopy ==
  \A e \in Entries : ent[e].tier = "transferring" => InFlight(e)

Tiers   == (\A e \in Entries : SlotHeld(e)) /\ SlotsDistinct
CopyInv == CopiesBelong /\ CopiesUnique /\ ReadyIsQuiet /\ TransferringHasCopy

ManagerInv == ThroughManager => Tiers /\ WaitersAbsent /\ CopyInv

\* The experts that the arena serves.
ArenaKeys    == Keys \ NvmeKeys
ArenaEntries == {e \in Entries : e[1] \notin NvmeKeys}

\* A RESERVED entry of an expert that the arena serves is driven by a load or by a
\* cell of the loop under way; the loops over gpu_waiters are of the other experts.
Queued(e) == ReservedIsDriven(e) \/ \E w \in Listed(todo) : w.key = e[1] /\ w.gpu = e[2]

Driven ==
  /\ \A k \in ArenaKeys : host[k] # "loading"
  /\ \A w \in Listed(todo) : w.op \in {"start", "fail"} \/ w.key \in NvmeKeys
  /\ \A e \in ArenaEntries : ent[e].tier = "absent" => ent[e].interests = {}
  /\ \A e \in ArenaEntries : ent[e].tier = "reserved" => Queued(e)

DrivenInv == ThroughManager /\ ~Direct => Driven

-------------------------------------------------------------------------------
(* Sequences.  An induction is the least counterexample of a set of numbers.*)

\* A set of numbers with no 0 has one whose predecessor is not in it.
LEMMA LeastOf == ASSUME NEW T, T \subseteq Nat, T # {}
                 PROVE  \E m \in T : m = 0 \/ (m - 1 \in Nat /\ m - 1 \notin T)
<1>1. \E m \in T : \A y \in T : ~ (<<y, m>> \in OpToRel(<, Nat))
  BY NatLessThanWellFounded, WFMin
<1>2. PICK m \in T : \A y \in T : ~ (<<y, m>> \in OpToRel(<, Nat))
  BY <1>1
<1>3. CASE m # 0
  <2>1. m - 1 \in Nat /\ m - 1 < m
    BY <1>3
  <2>2. <<m - 1, m>> \in OpToRel(<, Nat)
    BY <2>1 DEF OpToRel
  <2> QED  BY <1>2, <2>1, <2>2
<1> QED  BY <1>3

\* One more element of the prefix that Filtered looks at.
FilterStep(q, S, f, n) ==
  IF n = 0 THEN <<>> ELSE IF q[n] \in S THEN Append(f[n - 1], q[n]) ELSE f[n - 1]

\* The recursion of Filtered has a solution on every prefix.
LEMMA FilteredExists ==
  ASSUME NEW A, NEW q \in Seq(A), NEW S, NEW N \in Nat
  PROVE  \E f : f = [n \in 0..N |-> FilterStep(q, S, f, n)]
<1> DEFINE T == {m \in Nat : ~\E f : f = [n \in 0..m |-> FilterStep(q, S, f, n)]}
<1> SUFFICES ASSUME T # {} PROVE FALSE
  OBVIOUS
<1>1. PICK m \in T : m = 0 \/ (m - 1 \in Nat /\ m - 1 \notin T)
  BY LeastOf
<1>2. CASE m = 0
  <2> DEFINE f == [n \in 0..0 |-> <<>>]
  <2>1. f = [n \in 0..0 |-> FilterStep(q, S, f, n)]
    BY DEF FilterStep
  <2> QED  BY <2>1, <1>2
<1>3. CASE m - 1 \in Nat /\ m - 1 \notin T
  <2>1. PICK f : f = [n \in 0..(m - 1) |-> FilterStep(q, S, f, n)]
    BY <1>3
  <2> DEFINE g == [n \in 0..m |-> IF n = m THEN FilterStep(q, S, f, m) ELSE f[n]]
  <2>2. ASSUME NEW n \in 0..m PROVE g[n] = FilterStep(q, S, g, n)
    <3>1. CASE n = m
      BY <3>1, <1>3 DEF FilterStep
    <3>2. CASE n # m
      <4>1. n \in 0..(m - 1) /\ g[n] = f[n]
        BY <3>2, <1>3
      <4>2. f[n] = FilterStep(q, S, f, n)
        BY <4>1, <2>1
      <4>3. n # 0 => n - 1 \in 0..m /\ n - 1 # m
        BY <4>1, <1>3
      <4>4. n # 0 => g[n - 1] = f[n - 1]
        BY <4>3
      <4> QED  BY <4>1, <4>2, <4>4 DEF FilterStep
    <3> QED  BY <3>1, <3>2
  <2>3. g = [n \in 0..m |-> FilterStep(q, S, g, n)]
    BY <2>2
  <2> QED  BY <2>3
<1> QED  BY <1>1, <1>2, <1>3

\* Filtered satisfies its recursion.
LEMMA FilteredUnfolds ==
  ASSUME NEW A, NEW q \in Seq(A), NEW S
  PROVE  Filtered(q, S) = [n \in 0..Len(q) |-> FilterStep(q, S, Filtered(q, S), n)]
<1>1. Len(q) \in Nat
  OBVIOUS
<1>2. \E f : f = [n \in 0..Len(q) |-> FilterStep(q, S, f, n)]
  BY <1>1, FilteredExists, Zenon
<1>3. Filtered(q, S) = CHOOSE f : f = [n \in 0..Len(q) |-> FilterStep(q, S, f, n)]
  BY Zenon DEF Filtered, FilterStep
<1> QED  BY <1>2, <1>3, Zenon

\* A filtered sequence has elements of the sequence, all of them in the set.
LEMMA FilterKeeps ==
  ASSUME NEW A, NEW q \in Seq(A), NEW S
  PROVE  /\ Filter(q, S) \in Seq(A)
         /\ Listed(Filter(q, S)) \subseteq Listed(q)
         /\ Listed(Filter(q, S)) \subseteq S
<1> DEFINE F == Filtered(q, S)
           B == {a \in A : a \in S /\ \E j \in 1..Len(q) : a = q[j]}
           T == {m \in Nat : m <= Len(q) /\ F[m] \notin Seq(B)}
<1>1. \A n \in 0..Len(q) : F[n] = FilterStep(q, S, F, n)
  <2> HIDE DEF F
  <2>1. F = [n \in 0..Len(q) |-> FilterStep(q, S, F, n)]
    BY FilteredUnfolds DEF F
  <2> QED  BY <2>1
<1> HIDE DEF F
<1>2. T = {}
  <2> SUFFICES ASSUME T # {} PROVE FALSE
    OBVIOUS
  <2>1. PICK m \in T : m = 0 \/ (m - 1 \in Nat /\ m - 1 \notin T)
    BY LeastOf
  <2>2. m \in 0..Len(q) /\ F[m] \notin Seq(B)
    OBVIOUS
  <2>3. F[0] = <<>>
    BY <2>2, <1>1 DEF FilterStep
  <2>4. m # 0
    <3> HIDE DEF B, T
    <3>1. <<>> \in Seq(B)
      OBVIOUS
    <3> QED  BY <2>2, <2>3, <3>1
  <2>5. m \in 1..Len(q) /\ m - 1 \in 0..Len(q) /\ F[m - 1] \in Seq(B)
    BY <2>1, <2>2, <2>4
  <2>6. q[m] \in A /\ (q[m] \in S => q[m] \in B)
    BY <2>5
  <2>7. F[m] = IF q[m] \in S THEN Append(F[m - 1], q[m]) ELSE F[m - 1]
    BY <2>2, <2>4, <1>1 DEF FilterStep
  <2> HIDE DEF B
  <2> QED  BY <2>2, <2>5, <2>6, <2>7
<1>3. Filter(q, S) \in Seq(B)
  BY <1>2 DEF Filter, F
<1>4. \A i \in 1..Len(Filter(q, S)) : Filter(q, S)[i] \in B
  <2> HIDE DEF B
  <2> QED  BY <1>3
<1>5. Filter(q, S) \in Seq(A)
  BY <1>3
<1> QED  BY <1>4, <1>5 DEF Listed

\* What Without and Push leave, and what they list.
LEMMA WithoutType ==
  ASSUME NEW A, NEW q \in Seq(A), NEW x
  PROVE  /\ Without(q, x) \in Seq(A)
         /\ Listed(Without(q, x)) \subseteq Listed(q) \ {x}
  BY FilterKeeps DEF Without

LEMMA WithoutEmpty == ASSUME NEW x PROVE Without(<<>>, x) = <<>>
<1>1. <<>> \in Seq({})
  OBVIOUS
<1>2. Without(<<>>, x) \in Seq({})
  BY <1>1, WithoutType
<1> QED  BY <1>2

LEMMA PushType ==
  ASSUME NEW A, NEW q \in Seq(A), NEW x \in A
  PROVE  /\ Push(q, x) \in Seq(A)
         /\ Listed(Push(q, x)) = Listed(q) \cup {x}
<1>1. Append(q, x) \in Seq(A) /\ Listed(Append(q, x)) = Listed(q) \cup {x}
  <2>1. Len(Append(q, x)) = Len(q) + 1 /\ Append(q, x)[Len(q) + 1] = x
    OBVIOUS
  <2>2. \A i \in 1..Len(q) : Append(q, x)[i] = q[i]
    OBVIOUS
  <2>3. Append(q, x) \in Seq(A)
    OBVIOUS
  <2> QED  BY <2>1, <2>2, <2>3 DEF Listed
<1> QED  BY <1>1 DEF Push

\* The cells that erase leaves to a loop are cells of the loop, or stale copies.
LEMMA ErasedType ==
  ASSUME NEW cells \in Seq(Work), NEW g
  PROVE  /\ Erased(cells, g) \in Seq(Work)
         /\ Len(Erased(cells, g)) = Len(cells)
         /\ \A i \in 1..Len(cells) : \E c \in Listed(cells) :
              \/ Erased(cells, g)[i] = c
              \/ Erased(cells, g)[i] = [c EXCEPT !.live = "no"]
         /\ (\A c \in Listed(cells) : c.live = "no") => Erased(cells, g) = cells
<1> DEFINE S == {c \in Listed(cells) : c.live = "yes" /\ c.gpu # g}
           kept == Filter(cells, S)
           cut(i) == [cells[i] EXCEPT !.live = "no"]
<1>1. kept \in Seq(Work) /\ Listed(kept) \subseteq S
  BY FilterKeeps
<1>2. Erased(cells, g) = [i \in 1..Len(cells) |-> IF i <= Len(kept) THEN kept[i] ELSE cut(i)]
  BY Zenon DEF Erased
<1>3. \A i \in 1..Len(cells) : cells[i] \in Work /\ cells[i] \in Listed(cells) /\ cut(i) \in Work
  <2> SUFFICES ASSUME NEW i \in 1..Len(cells)
               PROVE  cells[i] \in Work /\ cells[i] \in Listed(cells) /\ cut(i) \in Work
    OBVIOUS
  <2>1. cells[i] \in Work
    OBVIOUS
  <2>2. cut(i) \in Work
    BY <2>1 DEF Work
  <2>3. cells[i] \in Listed(cells)
    BY DEF Listed
  <2> QED  BY <2>1, <2>2, <2>3
<1>4. \A i \in 1..Len(cells) : i <= Len(kept) => kept[i] \in Listed(kept) /\ kept[i] \in Work
  <2> HIDE DEF kept
  <2> QED  BY <1>1 DEF Listed
<1>5. \A i \in 1..Len(cells) : cells[i].live = "no" => cut(i) = cells[i]
  <2> SUFFICES ASSUME NEW i \in 1..Len(cells), cells[i].live = "no" PROVE cut(i) = cells[i]
    OBVIOUS
  <2>1. cells[i] \in Work
    BY <1>3
  <2> QED  BY <2>1 DEF Work
<1>6. (\A c \in Listed(cells) : c.live = "no") => \A i \in 1..Len(cells) : ~(i <= Len(kept))
  BY <1>1, <1>4
<1>7. Erased(cells, g) \in [1..Len(cells) -> Work] /\ Len(cells) \in Nat
  <2> HIDE DEF kept, cut
  <2> QED  BY <1>2, <1>3, <1>4
<1>8. Erased(cells, g) \in Seq(Work) /\ Len(Erased(cells, g)) = Len(cells)
  BY <1>7
<1>9. \A i \in 1..Len(cells) : Erased(cells, g)[i] = IF i <= Len(kept) THEN kept[i] ELSE cut(i)
  <2> HIDE DEF kept, cut
  <2> QED  BY <1>2
<1>10. ASSUME NEW i \in 1..Len(cells)
       PROVE  \E c \in Listed(cells) : \/ Erased(cells, g)[i] = c
                                       \/ Erased(cells, g)[i] = [c EXCEPT !.live = "no"]
  <2>1. CASE i <= Len(kept)
    <3>1. Erased(cells, g)[i] = kept[i] /\ kept[i] \in Listed(cells)
      <4> HIDE DEF kept, cut
      <4>1. kept[i] \in S
        BY <1>1, <1>4, <2>1
      <4> QED  BY <1>9, <2>1, <4>1
    <3> QED  BY <3>1
  <2>2. CASE ~(i <= Len(kept))
    BY <1>3, <1>9, <2>2
  <2> QED  BY <2>1, <2>2
<1>11. ASSUME \A c \in Listed(cells) : c.live = "no"
       PROVE  Erased(cells, g) = cells
  <2>1. \A i \in 1..Len(cells) : Erased(cells, g)[i] = cells[i]
    BY <1>3, <1>5, <1>6, <1>9, <1>11
  <2> QED  BY <1>8, <2>1
<1> QED  BY <1>8, <1>10, <1>11

\* The cells of a loop over waiters.
LEMMA WorksType ==
  ASSUME NEW op \in {"start", "fail", "wake", "drop"}, NEW k \in Keys, NEW gs \in Seq(Gpus),
         NEW live \in {"yes", "no"}
  PROVE  /\ Works(op, k, gs, live) \in Seq(Work)
         /\ \A w \in Listed(Works(op, k, gs, live)) :
               w.op = op /\ w.key = k /\ w.live = live /\ w.gpu \in Listed(gs)
         /\ \A g \in Listed(gs) : \E w \in Listed(Works(op, k, gs, live)) : w.key = k /\ w.gpu = g
<1> DEFINE W == Works(op, k, gs, live)
           cell(i) == [op |-> op, key |-> k, gpu |-> gs[i], live |-> live]
<1>1. W = [i \in 1..Len(gs) |-> cell(i)] /\ Len(gs) \in Nat
  BY DEF Works
<1>2. \A i \in 1..Len(gs) : cell(i) \in Work
  BY DEF Work
<1>3. W \in Seq(Work) /\ Len(W) = Len(gs)
  <2> HIDE DEF W, cell
  <2> QED  BY <1>1, <1>2
<1>4. \A i \in 1..Len(W) : W[i] = cell(i)
  <2> HIDE DEF W, cell
  <2> QED  BY <1>1, <1>3
<1> HIDE DEF W
<1>5. \A i \in 1..Len(W) : W[i].op = op /\ W[i].key = k /\ W[i].live = live /\ W[i].gpu = gs[i]
  <2> SUFFICES ASSUME NEW i \in 1..Len(W)
               PROVE  W[i].op = op /\ W[i].key = k /\ W[i].live = live /\ W[i].gpu = gs[i]
    OBVIOUS
  <2>1. W[i] = [op |-> op, key |-> k, gpu |-> gs[i], live |-> live]
    BY <1>4
  <2> QED  BY <2>1
<1> HIDE DEF cell
<1>6. \A w \in Listed(W) : w.op = op /\ w.key = k /\ w.live = live /\ w.gpu \in Listed(gs)
  <2> SUFFICES ASSUME NEW w \in Listed(W)
               PROVE  w.op = op /\ w.key = k /\ w.live = live /\ w.gpu \in Listed(gs)
    OBVIOUS
  <2>1. PICK i \in 1..Len(W) : w = W[i]
    BY DEF Listed
  <2>2. i \in 1..Len(gs) /\ gs[i] \in Listed(gs)
    BY <1>3 DEF Listed
  <2>3. W[i].op = op /\ W[i].key = k /\ W[i].live = live /\ W[i].gpu = gs[i]
    BY <1>5
  <2> QED  BY <2>1, <2>2, <2>3
<1>7. \A g \in Listed(gs) : \E w \in Listed(W) : w.key = k /\ w.gpu = g
  <2> SUFFICES ASSUME NEW g \in Listed(gs) PROVE \E w \in Listed(W) : w.key = k /\ w.gpu = g
    OBVIOUS
  <2>1. PICK i \in 1..Len(gs) : g = gs[i]
    BY DEF Listed
  <2>2. W[i] \in Listed(W) /\ W[i].key = k /\ W[i].gpu = g
    BY <1>3, <1>5, <2>1 DEF Listed
  <2> QED  BY <2>2
<1> QED  BY <1>3, <1>6, <1>7 DEF W

LEMMA TailAt ==
  ASSUME NEW A, NEW q \in Seq(A), q # <<>>
  PROVE  /\ Len(Tail(q)) = Len(q) - 1
         /\ \A i \in 1..Len(Tail(q)) : Tail(q)[i] = q[i + 1] /\ i + 1 \in 1..Len(q)
<1>1. Len(q) \in Nat /\ Len(q) # 0 /\ Len(Tail(q)) = Len(q) - 1
  OBVIOUS
<1>2. \A i \in 1..(Len(q) - 1) : Tail(q)[i] = q[i + 1] /\ i + 1 \in 1..Len(q)
  BY <1>1
<1> QED  BY <1>1, <1>2

LEMMA TailListed ==
  ASSUME NEW A, NEW q \in Seq(A), q # <<>>
  PROVE  /\ Head(q) \in A /\ Head(q) \in Listed(q) /\ Tail(q) \in Seq(A)
         /\ Listed(Tail(q)) \subseteq Listed(q)
         /\ Listed(q) \subseteq Listed(Tail(q)) \cup {Head(q)}
<1>1. Len(q) \in Nat /\ Len(q) # 0 /\ Head(q) = q[1] /\ 1 \in 1..Len(q)
  OBVIOUS
<1>2. Tail(q) \in Seq(A) /\ Len(Tail(q)) = Len(q) - 1
  OBVIOUS
<1>3. \A i \in 1..(Len(q) - 1) : Tail(q)[i] = q[i + 1] /\ i + 1 \in 1..Len(q)
  BY <1>1
<1>4. \A i \in 1..Len(q) : i = 1 \/ (i - 1 \in 1..(Len(q) - 1) /\ Tail(q)[i - 1] = q[i])
  BY <1>1, <1>3
<1>5. Listed(Tail(q)) \subseteq Listed(q)
  BY <1>1, <1>2, <1>3 DEF Listed
<1>6. Listed(q) \subseteq Listed(Tail(q)) \cup {Head(q)}
  BY <1>1, <1>2, <1>4 DEF Listed
<1>7. Head(q) \in A /\ Head(q) \in Listed(q)
  BY <1>1 DEF Listed
<1> QED  BY <1>2, <1>5, <1>6, <1>7

-------------------------------------------------------------------------------
(* What the building blocks of the actions change.                         *)

ArenaStates == {"absent", "reserved", "loading", "ready"}

\* The arena around a call of resolve_expert_host_source: only k gets a slot, a
\* slot may be taken from an expert that no copy reads, and a pin is on a
\* loaded slot.
Resolved(k, res, pin) ==
  /\ arena' \in [Keys -> ArenaStates]
  /\ pin = "yes" => arena'[k] = "ready"
  /\ arena[k] = "ready" => arena'[k] = "ready"
  /\ arena[k] = "loading" => arena'[k] = "loading"
  /\ \A j \in Keys \ {k} : \/ arena'[j] = arena[j]
                           \/ arena[j] \in {"reserved", "ready"} /\ ~Pinned(j)
  /\ res = "pending" => arena'[k] = "loading"
  /\ k \notin NvmeKeys /\ ~Direct => res \in {"ready", "pending"}

LEMMA HostSourceResolves ==
  ASSUME TypeOK, LifecycleAssumption, NEW k \in Keys, NEW res, NEW pin, HostSource(k, res, pin)
  PROVE  Resolved(k, res, pin)
<1>1. arena \in [Keys -> ArenaStates]
  BY DEF TypeOK, ArenaStates
<1> DEFINE Taken(room) ==
             \/ /\ res = "pending" /\ pin = "no"
                /\ arena' = [room EXCEPT ![k] = "loading"]
             \/ /\ "ring_full" \in commands
                /\ res = "ready" /\ pin = "yes"
                /\ arena' = [room EXCEPT ![k] = "ready"]
             \/ /\ "ring_full" \in commands
                /\ res = (IF Direct THEN "none" ELSE "ready") /\ pin = "no"
                /\ arena' = [room EXCEPT ![k] = "reserved"]
           InRoom == /\ k \notin NvmeKeys /\ arena[k] \in {"absent", "reserved"}
                     /\ \E room \in RoomFor(k) : Taken(room)
<1>2. CASE ~InRoom
  <2> HIDE DEF Taken
  <2>1. /\ UNCHANGED arena
        /\ pin = "yes" => arena[k] = "ready"
        /\ res = "pending" => arena[k] = "loading"
        /\ k \notin NvmeKeys /\ ~Direct => res \in {"ready", "pending"}
    BY <1>2 DEF HostSource, Taken
  <2> QED  BY <1>1, <2>1 DEF Resolved
<1>3. CASE InRoom
  <2>1. k \notin NvmeKeys /\ arena[k] \in {"absent", "reserved"}
    BY <1>3
  <2>2. PICK room \in RoomFor(k) : Taken(room)
    BY <1>3
  <2>3. /\ room \in [Keys -> ArenaStates]
        /\ \A j \in Keys \ {k} : \/ room[j] = arena[j]
                                 \/ arena[j] \in {"reserved", "ready"} /\ ~Pinned(j)
    BY <1>1, <2>1 DEF RoomFor, ArenaStates
  <2>4. /\ arena' \in [Keys -> ArenaStates]
        /\ \A j \in Keys \ {k} : arena'[j] = room[j]
    BY <2>2, <2>3 DEF ArenaStates
  <2>5. pin = "yes" => arena'[k] = "ready"
    BY <2>2, <2>3
  <2>6. res = "pending" => arena'[k] = "loading"
    BY <2>2, <2>3
  <2>7. ~Direct => res \in {"ready", "pending"}
    BY <2>2
  <2> QED  BY <2>1, <2>3, <2>4, <2>5, <2>6, <2>7 DEF Resolved
<1> QED  BY <1>2, <1>3

\* A new copy of the manager.
NewCopy(e, cached) ==
  [key |-> e[1], gpu |-> e[2], slot |-> cached[e].slot, by |-> "elm", state |-> "live"]

\* The outcome of try_start_h2d, for the entry e with value v: it waits or
\* a copy is admitted, and the source was asked for.
Starts(e, v, cached, res, pin) ==
  /\ Resolved(e[1], res, pin)
  /\ res \in {"ready", "pending", "backpressure", "none"}
  /\ ent' \in [Entries -> GpuEntry]
  /\ \A f \in Entries \ {e} : ent'[f] = ent[f]
  /\ ent'[e].interests = v.interests
  /\ arena_load_waiters_' \in [Keys -> Seq(Gpus)]
  /\ slot_pressure_waiters_' \in Seq(Entries)
  /\ \A k \in Keys : Listed(arena_load_waiters_[k]) \subseteq Listed(arena_load_waiters_'[k])
  /\ Listed(slot_pressure_waiters_) \subseteq Listed(slot_pressure_waiters_')
  /\ res = "pending" => e[2] \in Listed(arena_load_waiters_'[e[1]])
  /\ res = "backpressure" => e \in Listed(slot_pressure_waiters_')
  /\ staged' \subseteq Copy
  /\ \/ /\ ent'[e] = v /\ staged' = staged
        /\ res # "ready" \/ cached[e].slot = 0
     \/ /\ res = "ready" /\ cached[e].slot \in SlotIds
        /\ ent'[e].tier = "transferring" /\ ent'[e].pin = pin
        /\ ent'[e].xfer = (IF InFlight(e) THEN "joined" ELSE "own")
        /\ staged' = IF InFlight(e) THEN staged ELSE staged \cup {NewCopy(e, cached)}

LEMMA TryStartEffect ==
  ASSUME TypeOK, LifecycleAssumption, NEW e \in Entries, NEW v \in GpuEntry,
         NEW cached \in [Entries -> CacheEntry], try_start_h2d(e, v, cached)
  PROVE  \E res, pin : Starts(e, v, cached, res, pin)
<1>1. PICK res \in {"ready", "pending", "backpressure", "none"}, pin \in {"yes", "no"} :
     /\ HostSource(e[1], res, pin)
     /\ arena_load_waiters_' = IF res = "pending"
                               THEN [arena_load_waiters_ EXCEPT ![e[1]] = Push(@, e[2])]
                               ELSE arena_load_waiters_
     /\ slot_pressure_waiters_' = IF res = "backpressure" THEN Push(slot_pressure_waiters_, e)
                                  ELSE slot_pressure_waiters_
     /\ IF res # "ready" \/ cached[e].slot = 0
        THEN ent' = [ent EXCEPT ![e] = v] /\ UNCHANGED staged
        ELSE /\ ent' = [ent EXCEPT ![e] = [v EXCEPT !.tier = "transferring", !.pin = pin,
                                             !.xfer = IF InFlight(e) THEN "joined" ELSE "own"]]
             /\ staged' = IF InFlight(e) THEN staged
                          ELSE staged \cup {[key |-> e[1], gpu |-> e[2], slot |-> cached[e].slot,
                                             by |-> "elm", state |-> "live"]}
  BY DEF try_start_h2d
<1>2. e[1] \in Keys /\ e[2] \in Gpus
  BY DEF Entries
<1>3. Resolved(e[1], res, pin)
  BY <1>1, <1>2, HostSourceResolves
<1>4. /\ arena_load_waiters_ \in [Keys -> Seq(Gpus)] /\ slot_pressure_waiters_ \in Seq(Entries)
      /\ ent \in [Entries -> GpuEntry] /\ staged \subseteq Copy
  BY DEF TypeOK
<1>5. /\ Push(arena_load_waiters_[e[1]], e[2]) \in Seq(Gpus)
      /\ Listed(Push(arena_load_waiters_[e[1]], e[2])) = Listed(arena_load_waiters_[e[1]]) \cup {e[2]}
      /\ Push(slot_pressure_waiters_, e) \in Seq(Entries)
      /\ Listed(Push(slot_pressure_waiters_, e)) = Listed(slot_pressure_waiters_) \cup {e}
  BY <1>2, <1>4, PushType, SMTT(30)
<1>6. /\ arena_load_waiters_' \in [Keys -> Seq(Gpus)]
      /\ \A k \in Keys : Listed(arena_load_waiters_[k]) \subseteq Listed(arena_load_waiters_'[k])
      /\ res = "pending" => e[2] \in Listed(arena_load_waiters_'[e[1]])
  BY <1>1, <1>2, <1>4, <1>5
<1>7. /\ slot_pressure_waiters_' \in Seq(Entries)
      /\ Listed(slot_pressure_waiters_) \subseteq Listed(slot_pressure_waiters_')
      /\ res = "backpressure" => e \in Listed(slot_pressure_waiters_')
  BY <1>1, <1>4, <1>5
<1> DEFINE u == [v EXCEPT !.tier = "transferring", !.pin = pin,
                          !.xfer = IF InFlight(e) THEN "joined" ELSE "own"]
<1>8. /\ u \in GpuEntry /\ u.interests = v.interests /\ u.tier = "transferring" /\ u.pin = pin
      /\ u.xfer = (IF InFlight(e) THEN "joined" ELSE "own")
  BY DEF GpuEntry, GpuTiers
<1>9. CASE res # "ready" \/ cached[e].slot = 0
  <2>1. /\ ent' \in [Entries -> GpuEntry] /\ ent'[e] = v /\ staged' = staged
        /\ \A f \in Entries \ {e} : ent'[f] = ent[f]
    BY <1>1, <1>4, <1>9
  <2>2. Starts(e, v, cached, res, pin)
    BY <1>1, <1>3, <1>4, <1>6, <1>7, <1>9, <2>1 DEF Starts
  <2> QED  BY <2>2
<1>10. CASE ~(res # "ready" \/ cached[e].slot = 0)
  <2>1. cached[e].slot \in SlotIds
    BY <1>10 DEF CacheEntry
  <2>2. /\ ent' = [ent EXCEPT ![e] = u]
        /\ staged' = IF InFlight(e) THEN staged ELSE staged \cup {NewCopy(e, cached)}
    BY <1>1, <1>10 DEF NewCopy
  <2>3. NewCopy(e, cached) \in Copy
    BY <1>2, <2>1 DEF NewCopy, Copy
  <2> HIDE DEF u
  <2>4. /\ ent' \in [Entries -> GpuEntry] /\ ent'[e] = u
        /\ \A f \in Entries \ {e} : ent'[f] = ent[f]
    BY <1>4, <1>8, <2>2
  <2>5. staged' \subseteq Copy
    BY <1>4, <2>2, <2>3
  <2>6. Starts(e, v, cached, res, pin)
    BY <1>1, <1>3, <1>6, <1>7, <1>8, <1>10, <2>1, <2>2, <2>4, <2>5 DEF Starts
  <2> QED  BY <2>6
<1> QED  BY <1>9, <1>10

\* TransferEngine::cancel takes a copy of e off staged, or marks its copies on
\* the stream; it does nothing to the copies of others.
CopyCancelled(e) ==
  /\ staged' \subseteq staged
  /\ stream' \in [Gpus -> Seq(Copy)]
  /\ \A g \in Gpus : Len(stream'[g]) = Len(stream[g])
  /\ \A g \in Gpus : \A i \in 1..Len(stream[g]) :
        \/ stream'[g][i] = stream[g][i]
        \/ /\ g = e[2] /\ stream[g][i].key = e[1]
           /\ stream'[g][i] = [stream[g][i] EXCEPT !.state = "cancelled"]
  /\ \A c \in staged : c \in staged' \/ (c.key = e[1] /\ c.gpu = e[2])
  /\ \A c \in staged' : ~(c.key = e[1] /\ c.gpu = e[2])
  /\ \/ \E c \in staged : c.key = e[1] /\ c.gpu = e[2]
     \/ \A i \in 1..Len(stream[e[2]]) : stream[e[2]][i].key = e[1] =>
           stream'[e[2]][i].state = "cancelled"

LEMMA CancelCopyEffect ==
  ASSUME TypeOK, NEW e \in Entries, CancelCopy(e)
  PROVE  CopyCancelled(e)
<1>1. /\ e[1] \in Keys /\ e[2] \in Gpus
      /\ stream \in [Gpus -> Seq(Copy)]
  BY DEF TypeOK, Entries
<1> DEFINE mine == {c \in staged : c.key = e[1] /\ c.gpu = e[2]}
<1>2. CASE mine # {}
  <2>1. staged' = staged \ mine /\ stream' = stream
    BY <1>2 DEF CancelCopy
  <2> QED  BY <1>1, <1>2, <2>1 DEF CopyCancelled
<1>3. CASE mine = {}
  <2> DEFINE s == stream[e[2]]
             mark(i) == [s[i] EXCEPT !.state = "cancelled"]
             t == [i \in 1..Len(s) |-> IF s[i].key = e[1] THEN mark(i) ELSE s[i]]
  <2>1. staged' = staged /\ stream' = [stream EXCEPT ![e[2]] = t]
    BY <1>1, <1>3 DEF CancelCopy
  <2>2. s \in Seq(Copy) /\ Len(s) \in Nat
    BY <1>1
  <2>3. ASSUME NEW i \in 1..Len(s)
        PROVE  s[i] \in Copy /\ mark(i) \in Copy /\ mark(i).state = "cancelled"
    <3>1. s[i] \in Copy
      BY <2>2
    <3> QED  BY <3>1 DEF Copy
  <2> HIDE DEF s, mark
  <2>4. t \in [1..Len(s) -> Copy]
    BY <2>2, <2>3
  <2>5. t \in Seq(Copy) /\ Len(t) = Len(s)
    BY <2>2, <2>4
  <2>6. \A i \in 1..Len(s) : t[i] = IF s[i].key = e[1] THEN mark(i) ELSE s[i]
    OBVIOUS
  <2> HIDE DEF t
  <2>7. /\ stream' \in [Gpus -> Seq(Copy)]
        /\ stream'[e[2]] = t
        /\ \A g \in Gpus \ {e[2]} : stream'[g] = stream[g]
    BY <1>1, <2>1, <2>5
  <2>8. \A i \in 1..Len(stream[e[2]]) :
          /\ \/ stream'[e[2]][i] = stream[e[2]][i]
             \/ /\ stream[e[2]][i].key = e[1]
                /\ stream'[e[2]][i] = [stream[e[2]][i] EXCEPT !.state = "cancelled"]
          /\ stream[e[2]][i].key = e[1] => stream'[e[2]][i].state = "cancelled"
    <3>1. stream'[e[2]] = t /\ stream[e[2]] = s
      BY <2>7 DEF s
    <3> SUFFICES ASSUME NEW i \in 1..Len(s)
                 PROVE  /\ \/ t[i] = s[i]
                           \/ s[i].key = e[1] /\ t[i] = [s[i] EXCEPT !.state = "cancelled"]
                        /\ s[i].key = e[1] => t[i].state = "cancelled"
      BY <3>1
    <3>2. mark(i) = [s[i] EXCEPT !.state = "cancelled"]
      BY DEF mark
    <3> QED  BY <2>3, <2>6, <3>2
  <2>9. Len(stream'[e[2]]) = Len(stream[e[2]])
    BY <2>5, <2>7 DEF s
  <2> QED  BY <1>1, <1>3, <2>1, <2>7, <2>8, <2>9 DEF CopyCancelled
<1> QED  BY <1>2, <1>3

\* revert_gpu_entry: the entry is gone and nobody waits for it; its slot is
\* free unless it is locked or was not the manager's; its copy is cancelled.
EntryReverted(e) ==
  /\ ent' \in [Entries -> GpuEntry] /\ ent'[e] = NoEntry
  /\ \A f \in Entries \ {e} : ent'[f] = ent[f]
  /\ cache' \in [Entries -> CacheEntry]
  /\ \A f \in Entries \ {e} : cache'[f] = cache[f]
  /\ cache'[e] = IF ent[e].tier \in {"reserved", "transferring", "draining"} /\ cache[e].locks = 0
                 THEN NotCached ELSE cache[e]
  /\ staged' \subseteq Copy /\ stream' \in [Gpus -> Seq(Copy)] /\ drains' \subseteq Drain
  /\ IF ent[e].tier = "transferring" /\ ent[e].xfer = "own"
     THEN CopyCancelled(e) ELSE UNCHANGED <<staged, stream>>
  /\ waiters' \in [Keys -> Seq(Gpus)]
  /\ \A k \in Keys : /\ Listed(waiters'[k]) \subseteq Listed(waiters[k])
                     /\ waiters[k] = <<>> => waiters'[k] = <<>>
  /\ e[2] \notin Listed(waiters'[e[1]])

LEMMA RevertEffect ==
  ASSUME TypeOK, NEW e \in Entries, revert_gpu_entry(e)
  PROVE  EntryReverted(e)
<1>1. e[1] \in Keys /\ e[2] \in Gpus
  BY DEF Entries
<1>2. /\ NoEntry \in GpuEntry /\ NotCached \in CacheEntry
  BY DEF NoEntry, GpuEntry, GpuTiers, NotCached, CacheEntry
<1>3. /\ ent' \in [Entries -> GpuEntry] /\ ent'[e] = NoEntry
      /\ \A f \in Entries \ {e} : ent'[f] = ent[f]
  BY <1>2 DEF TypeOK, revert_gpu_entry
<1>4. /\ cache' \in [Entries -> CacheEntry]
      /\ \A f \in Entries \ {e} : cache'[f] = cache[f]
      /\ cache'[e] = IF ent[e].tier \in {"reserved", "transferring", "draining"} /\ cache[e].locks = 0
                     THEN NotCached ELSE cache[e]
  BY <1>2 DEF TypeOK, revert_gpu_entry
<1>5. IF ent[e].tier = "transferring" /\ ent[e].xfer = "own"
      THEN CopyCancelled(e) ELSE UNCHANGED <<staged, stream>>
  BY CancelCopyEffect DEF revert_gpu_entry
<1>6. staged' \subseteq Copy /\ stream' \in [Gpus -> Seq(Copy)]
  BY <1>5 DEF CopyCancelled, TypeOK
<1>7. drains' \subseteq Drain
  <2>1. \A d \in Drain : [d EXCEPT !.state = "cancelled"] \in Drain
    BY DEF Drain
  <2> QED  BY <2>1 DEF revert_gpu_entry, TypeOK
<1>8. waiters' = [waiters EXCEPT ![e[1]] = Without(@, e[2])] /\ waiters \in [Keys -> Seq(Gpus)]
  BY DEF revert_gpu_entry, TypeOK
<1>9. /\ Without(waiters[e[1]], e[2]) \in Seq(Gpus)
      /\ Listed(Without(waiters[e[1]], e[2])) \subseteq Listed(waiters[e[1]]) \ {e[2]}
      /\ waiters[e[1]] = <<>> => Without(waiters[e[1]], e[2]) = <<>>
  BY <1>1, <1>8, WithoutType, WithoutEmpty

<1>10. /\ waiters' \in [Keys -> Seq(Gpus)]
       /\ \A k \in Keys : /\ Listed(waiters'[k]) \subseteq Listed(waiters[k])
                          /\ waiters[k] = <<>> => waiters'[k] = <<>>
       /\ e[2] \notin Listed(waiters'[e[1]])
  BY <1>1, <1>8, <1>9
<1> QED  BY <1>3, <1>4, <1>5, <1>6, <1>7, <1>10 DEF EntryReverted

-------------------------------------------------------------------------------
(* The cases of the larger actions, by name.                               *)

Gone(e)  == ent[e].tier = "absent" \/ (ent[e].tier = "hot" /\ cache[e].slot = 0)
Asked(e) == ent[e].interests \cup {next_token_}

EnsureFrame(e) ==
  /\ next_token_ \in Tokens /\ next_token_' = next_token_ + 1
  /\ request' = [request EXCEPT ![next_token_] = "open"]
  /\ host' = [host EXCEPT ![e[1]] = IF Gone(e) /\ Warm(e[1]) THEN "warm" ELSE HostTier(e[1])]
  /\ UNCHANGED <<todo, content, stream, drains, nvme>>

EnsureAnswers(e) ==
  /\ \/ ent[e].tier = "hot" /\ ~Gone(e) /\ Immediate(next_token_, e, "ok")
     \/ ent[e].tier = "draining" /\ Immediate(next_token_, e, "failed")

EnsureJoins(e) ==
  /\ ent[e].tier = "transferring" \/ (ent[e].tier = "reserved" /\ HostTier(e[1]) # "warm")
  /\ Interested(next_token_, e)
  /\ ent' = [ent EXCEPT ![e].interests = Asked(e)]
  /\ UNCHANGED <<waiters, cache>> /\ NoStart

EnsureRestarts(e) ==
  /\ ent[e].tier = "reserved" /\ Interested(next_token_, e) /\ UNCHANGED <<waiters, cache>>
  /\ try_start_h2d(e, [ent[e] EXCEPT !.interests = Asked(e)], cache)

EnsureWaits(e) ==
  /\ Gone(e) /\ HostTier(e[1]) = "loading" /\ Interested(next_token_, e)
  /\ ent' = [ent EXCEPT ![e] = [NoEntry EXCEPT !.interests = Asked(e)]]
  /\ waiters' = [waiters EXCEPT ![e[1]] = Append(@, e[2])]
  /\ UNCHANGED cache /\ NoStart

EnsureReserves(e) ==
  /\ Gone(e) /\ Warm(e[1]) /\ ~Refused(e)
  /\ Interested(next_token_, e) /\ ReserveAndStart(e, Asked(e)) /\ UNCHANGED waiters

EnsureFails(e) ==
  /\ Gone(e) /\ HostTier(e[1]) # "loading" /\ (~Warm(e[1]) \/ Refused(e))
  /\ pending_completions_' = pending_completions_ \cup {<<x, "failed">> : x \in Asked(e)}
  /\ Forget(Asked(e)) /\ ent' = [ent EXCEPT ![e] = NoEntry]
  /\ waiters' = [waiters EXCEPT ![e[1]] = Without(@, e[2])]
  /\ UNCHANGED cache /\ NoStart

LEMMA EnsureSplit ==
  ASSUME NEW e, ensure_resident(e)
  PROVE  /\ EnsureFrame(e)
         /\ \/ EnsureAnswers(e) \/ EnsureJoins(e) \/ EnsureRestarts(e) \/ EnsureWaits(e)
            \/ EnsureReserves(e) \/ EnsureFails(e)
<1>1. EnsureFrame(e)
  BY Zenon DEF ensure_resident, EnsureFrame, Gone
<1>2. \/ EnsureAnswers(e) \/ EnsureJoins(e) \/ EnsureRestarts(e) \/ EnsureWaits(e)
      \/ EnsureReserves(e) \/ EnsureFails(e)
  BY Zenon DEF ensure_resident, EnsureAnswers, EnsureJoins, EnsureRestarts, EnsureWaits,
               EnsureReserves, EnsureFails, Gone, Asked
<1> QED  BY <1>1, <1>2

\* The entry of the cell the loop of poll is at, and the cases of poll_continues.
Current == <<Head(todo).key, Head(todo).gpu>>

LoopFails ==
  /\ \/ Head(todo).op = "drop"
     \/ Head(todo).op = "fail" /\ ent[Current].tier = "reserved"
     \/ Head(todo).op = "wake" /\ ent[Current].tier = "absent" /\ Refused(Current)
  /\ FailEntry(Current)

LoopReserves ==
  /\ Head(todo).op = "wake" /\ ent[Current].tier = "absent" /\ ~Refused(Current)
  /\ ReserveAndStart(Current, ent[Current].interests)
  /\ todo' = Tail(todo) /\ UNCHANGED <<waiters, stream, drains, tokenVars>>

LoopStarts ==
  /\ Head(todo).op \in {"wake", "start"} /\ ent[Current].tier = "reserved"
  /\ try_start_h2d(Current, ent[Current], cache)
  /\ todo' = Tail(todo) /\ UNCHANGED <<cache, waiters, stream, drains, tokenVars>>

LoopSkips ==
  /\ \/ Head(todo).op \in {"start", "fail"} /\ ent[Current].tier # "reserved"
     \/ Head(todo).op = "wake" /\ ent[Current].tier \notin {"absent", "reserved"}
  /\ todo' = Tail(todo) /\ NoStart
  /\ UNCHANGED <<ent, cache, waiters, stream, drains, tokenVars>>

LEMMA LoopSplit ==
  ASSUME poll_continues
  PROVE  /\ todo # <<>> /\ UNCHANGED <<host, content, nvme>>
         /\ LoopFails \/ LoopReserves \/ LoopStarts \/ LoopSkips
<1>1. LoopFails \/ LoopReserves \/ LoopStarts \/ LoopSkips
  BY Zenon DEF poll_continues, LoopFails, LoopReserves, LoopStarts, LoopSkips, Current
<1>2. todo # <<>> /\ UNCHANGED <<host, content, nvme>>
  BY Zenon DEF poll_continues
<1> QED  BY <1>1, <1>2

\* The cases of a copy that is over: of a waiting entry, well or badly, or not.
HeadOf(g)   == Head(stream[g])
HeadEntry(g) == <<Head(stream[g]).key, g>>

CopyFrame(g, ok) ==
  /\ stream[g] # <<>>
  /\ stream' = [stream EXCEPT ![g] = Tail(@)]
  /\ content' = [content EXCEPT ![g][HeadOf(g).slot] = IF ok THEN HeadOf(g).key ELSE Unused]
  /\ UNCHANGED <<host, arena_load_waiters_, next_token_, staged, drains, arena, nvme>>

CopyAwaited(g) == HeadOf(g).state = "live" /\ ent[HeadEntry(g)].tier = "transferring"

CopySucceeds(g) ==
  LET e == HeadEntry(g) IN
  /\ CopyAwaited(g)
  /\ Forget(ent[e].interests)
  /\ ent' = [ent EXCEPT ![e] = [NoEntry EXCEPT !.tier = "hot"]]
  /\ cache' = IF cache[e].slot = 0 THEN cache ELSE [cache EXCEPT ![e].ready = "yes"]
  /\ Deliver(ent[e].interests, "ok")
  /\ todo' = [i \in 1..Len(slot_pressure_waiters_) |->
                [op |-> "start", key |-> slot_pressure_waiters_[i][1],
                 gpu |-> slot_pressure_waiters_[i][2], live |-> "no"]]
  /\ slot_pressure_waiters_' = <<>>
  /\ UNCHANGED waiters

CopyFails(g) ==
  LET e == HeadEntry(g) IN
  /\ CopyAwaited(g)
  /\ Forget(ent[e].interests)
  /\ ent' = [ent EXCEPT ![e] = NoEntry]
  /\ cache' = IF cache[e].locks = 0 THEN [cache EXCEPT ![e] = NotCached] ELSE cache
  /\ Deliver(ent[e].interests, "failed")
  /\ waiters' = [waiters EXCEPT ![e[1]] = Without(@, e[2])]
  /\ UNCHANGED <<todo, slot_pressure_waiters_>>

CopyIgnored(g, ok) ==
  LET e == HeadEntry(g) IN
  /\ ~CopyAwaited(g)
  /\ Deliver({}, "ok")
  /\ cache' = IF HeadOf(g).state = "live" /\ HeadOf(g).by = "command" /\ ok /\ cache[e].slot # 0
              THEN [cache EXCEPT ![e].ready = "yes"] ELSE cache
  /\ UNCHANGED <<ent, waiters, todo, slot_pressure_waiters_, token_index_>>

LEMMA CopySplit ==
  ASSUME TypeOK, StreamsOwn, NEW g \in Gpus, NEW ok \in BOOLEAN, poll_h2d(g, ok)
  PROVE  /\ CopyFrame(g, ok)
         /\ HeadOf(g) \in Copy /\ HeadOf(g).gpu = g /\ HeadEntry(g) \in Entries
         /\ \/ ok /\ CopySucceeds(g)
            \/ ~ok /\ CopyFails(g)
            \/ CopyIgnored(g, ok)
<1>1. CopyFrame(g, ok)
  BY Zenon DEF poll_h2d, CopyFrame, HeadOf
<1>2. HeadOf(g) \in Copy /\ HeadOf(g).gpu = g
  <2>1. stream[g] \in Seq(Copy) /\ stream[g] # <<>>
    BY <1>1 DEF TypeOK, CopyFrame
  <2>2. Head(stream[g]) = stream[g][1] /\ 1 \in 1..Len(stream[g]) /\ Head(stream[g]) \in Copy
    BY <2>1
  <2> QED  BY <2>2 DEF HeadOf, StreamsOwn
<1>3. HeadEntry(g) \in Entries
  BY <1>2 DEF HeadEntry, HeadOf, Entries, Copy
<1>4. CASE CopyAwaited(g)
  <2>1. h2d_done(HeadOf(g), ok)
    BY <1>4, Zenon DEF poll_h2d, CopyAwaited, HeadOf, HeadEntry
  <2>2. <<HeadOf(g).key, HeadOf(g).gpu>> = HeadEntry(g)
    BY <1>2 DEF HeadEntry, HeadOf
  <2>3. HeadEntry(g)[1] = HeadOf(g).key /\ HeadEntry(g)[2] = HeadOf(g).gpu
    BY <1>2 DEF HeadEntry, HeadOf
  <2> DEFINE c == HeadOf(g)
             e == HeadEntry(g)
             d == <<c.key, c.gpu>>
             cells == [i \in 1..Len(slot_pressure_waiters_) |->
                         [op |-> "start", key |-> slot_pressure_waiters_[i][1],
                          gpu |-> slot_pressure_waiters_[i][2], live |-> "no"]]
  <2>4. Forget(ent[d].interests)
    BY <2>1, Zenon DEF h2d_done
  <2>5. CASE ok
    <3>1. /\ ent' = [ent EXCEPT ![d] = [NoEntry EXCEPT !.tier = "hot"]]
          /\ cache' = IF cache[d].slot = 0 THEN cache ELSE [cache EXCEPT ![d].ready = "yes"]
          /\ Deliver(ent[d].interests, "ok")
          /\ todo' = cells
          /\ slot_pressure_waiters_' = <<>>
          /\ UNCHANGED waiters
      BY <2>1, <2>5, Zenon DEF h2d_done
    <3> HIDE DEF e, cells, c, d
    <3>2. d = e
      BY <2>2 DEF d, e, c
    <3>3. /\ Forget(ent[e].interests)
          /\ ent' = [ent EXCEPT ![e] = [NoEntry EXCEPT !.tier = "hot"]]
          /\ cache' = IF cache[e].slot = 0 THEN cache ELSE [cache EXCEPT ![e].ready = "yes"]
          /\ Deliver(ent[e].interests, "ok")
      BY <2>4, <3>1, <3>2, Zenon
    <3>4. CopySucceeds(g)
      BY <1>4, <3>1, <3>3, Zenon DEF CopySucceeds, e, cells
    <3> QED  BY <1>1, <1>2, <1>3, <2>5, <3>4
  <2>6. CASE ~ok
    <3>1. /\ ent' = [ent EXCEPT ![d] = NoEntry]
          /\ cache' = IF cache[d].locks = 0 THEN [cache EXCEPT ![d] = NotCached] ELSE cache
          /\ Deliver(ent[d].interests, "failed")
          /\ waiters' = [waiters EXCEPT ![c.key] = Without(@, c.gpu)]
          /\ UNCHANGED <<todo, slot_pressure_waiters_>>
      BY <2>1, <2>6, Zenon DEF h2d_done
    <3> HIDE DEF e, c, d
    <3>2. d = e /\ c.key = e[1] /\ c.gpu = e[2]
      BY <2>2, <2>3 DEF d, e, c
    <3>3. /\ Forget(ent[e].interests)
          /\ ent' = [ent EXCEPT ![e] = NoEntry]
          /\ cache' = IF cache[e].locks = 0 THEN [cache EXCEPT ![e] = NotCached] ELSE cache
          /\ Deliver(ent[e].interests, "failed")
          /\ waiters' = [waiters EXCEPT ![e[1]] = Without(@, e[2])]
      BY <2>4, <3>1, <3>2, Zenon
    <3>4. CopyFails(g)
      BY <1>4, <3>1, <3>3, Zenon DEF CopyFails, e
    <3> QED  BY <1>1, <1>2, <1>3, <2>6, <3>4
  <2> QED  BY <2>5, <2>6
<1>5. CASE ~CopyAwaited(g)
  <2> DEFINE c == HeadOf(g)
             e == HeadEntry(g)
  <2>1. ~(c.state = "live" /\ ent[e].tier = "transferring")
    BY <1>5, Zenon DEF CopyAwaited
  <2>2. /\ Deliver({}, "ok")
        /\ cache' = IF c.state = "live" /\ c.by = "command" /\ ok /\ cache[e].slot # 0
                    THEN [cache EXCEPT ![e].ready = "yes"] ELSE cache
        /\ UNCHANGED <<ent, waiters, todo, slot_pressure_waiters_, token_index_>>
    BY <2>1, Zenon DEF poll_h2d, HeadOf, HeadEntry
  <2> QED  BY <1>1, <1>2, <1>3, <1>5, <2>2, Zenon DEF CopyIgnored
<1> QED  BY <1>1, <1>2, <1>3, <1>4, <1>5

-------------------------------------------------------------------------------
(* Types.                                                                  *)

LEMMA DeliverType ==
  ASSUME TypeOK, NEW T, NEW how \in {"ok", "failed"}, Deliver(T, how)
  PROVE  /\ request' \in [Tokens -> {"none", "open", "ok", "failed", "cancelled"}]
         /\ pending_completions_' = {}
  BY DEF TypeOK, Deliver

LEMMA ForgetType ==
  ASSUME TypeOK, NEW T, Forget(T)
  PROVE  token_index_' \in [Tokens -> Entries \cup {Unused}]
  BY DEF TypeOK, Forget

\* Values that entries and cache entries take.
LEMMA Values ==
  /\ NoEntry \in GpuEntry /\ NotCached \in CacheEntry
  /\ [NoEntry EXCEPT !.tier = "hot"] \in GpuEntry
  /\ \A T \in SUBSET Tokens : [NoEntry EXCEPT !.interests = T] \in GpuEntry
  /\ \A T \in SUBSET Tokens : [NoEntry EXCEPT !.tier = "reserved", !.interests = T] \in GpuEntry
  /\ \A v \in GpuEntry, T \in SUBSET Tokens : [v EXCEPT !.interests = T] \in GpuEntry
  /\ \A s \in SlotIds : [NotCached EXCEPT !.slot = s] \in CacheEntry
  /\ \A c \in CacheEntry : [c EXCEPT !.ready = "yes"] \in CacheEntry
  /\ \A c \in CacheEntry, n \in {0, 1} : [c EXCEPT !.locks = n] \in CacheEntry
<1>1. NoEntry \in GpuEntry /\ [NoEntry EXCEPT !.tier = "hot"] \in GpuEntry
  BY DEF NoEntry, GpuEntry, GpuTiers
<1>2. \A T \in SUBSET Tokens : [NoEntry EXCEPT !.interests = T] \in GpuEntry
  BY DEF NoEntry, GpuEntry, GpuTiers
<1>3. \A T \in SUBSET Tokens : [NoEntry EXCEPT !.tier = "reserved", !.interests = T] \in GpuEntry
  BY DEF NoEntry, GpuEntry, GpuTiers
<1>4. \A v \in GpuEntry, T \in SUBSET Tokens : [v EXCEPT !.interests = T] \in GpuEntry
  BY DEF GpuEntry, GpuTiers
<1>5. NotCached \in CacheEntry /\ \A s \in SlotIds : [NotCached EXCEPT !.slot = s] \in CacheEntry
  BY DEF NotCached, CacheEntry
<1>6. \A c \in CacheEntry : [c EXCEPT !.ready = "yes"] \in CacheEntry
  BY DEF CacheEntry
<1>7. \A c \in CacheEntry, n \in {0, 1} : [c EXCEPT !.locks = n] \in CacheEntry
  BY DEF CacheEntry
<1> QED  BY <1>1, <1>2, <1>3, <1>4, <1>5, <1>6, <1>7

\* The part of the types that a step on one entry, one queue or none keeps.
LEMMA EnsureTypes ==
  ASSUME TypeOK, LifecycleAssumption, NEW e \in Entries, ensure_resident(e), UNCHANGED commands
  PROVE  TypeOK'
<1>1. EnsureFrame(e)
  BY EnsureSplit
<1>2. e[1] \in Keys /\ e[2] \in Gpus
  BY DEF Entries
<1> DEFINE t == next_token_
<1>3. t \in Tokens /\ t \in 1..MaxTokens /\ next_token_' \in 1..(MaxTokens + 1)
  BY <1>1, LifecycleAssumption DEF EnsureFrame, Tokens, LifecycleAssumption
<1>4. Asked(e) \in SUBSET Tokens /\ ent[e] \in GpuEntry /\ ent[e].interests \in SUBSET Tokens
  BY <1>3 DEF TypeOK, GpuEntry, Asked
<1>5. request' \in [Tokens -> {"none", "open", "ok", "failed", "cancelled"}]
  BY <1>1, <1>3 DEF EnsureFrame, TypeOK
<1>6. host' \in [Keys -> {"cold", "loading", "warm"}]
  <2>1. HostTier(e[1]) \in {"cold", "loading", "warm"}
    BY <1>2 DEF HostTier, compute_host_tier, TypeOK
  <2> QED  BY <1>1, <1>2, <2>1 DEF EnsureFrame, TypeOK
<1>7. /\ todo' \in Seq(Work) /\ content' \in [Gpus -> [SlotIds -> Keys \cup {Unused}]]
      /\ stream' \in [Gpus -> Seq(Copy)] /\ drains' \subseteq Drain
      /\ nvme' \in [Keys -> {"none", "writing", "written", "rewriting"}]
  BY <1>1 DEF EnsureFrame, TypeOK
<1> DEFINE Rest ==
      /\ ent' \in [Entries -> GpuEntry]
      /\ waiters' \in [Keys -> Seq(Gpus)] /\ arena_load_waiters_' \in [Keys -> Seq(Gpus)]
      /\ slot_pressure_waiters_' \in Seq(Entries)
      /\ token_index_' \in [Tokens -> Entries \cup {Unused}]
      /\ pending_completions_' \subseteq Tokens \X {"ok", "failed"}
      /\ cache' \in [Entries -> CacheEntry]
      /\ staged' \subseteq Copy
      /\ arena' \in [Keys -> {"absent", "reserved", "loading", "ready"}]
<1>8. ASSUME Interested(t, e)
      PROVE  /\ token_index_' \in [Tokens -> Entries \cup {Unused}]
             /\ pending_completions_' \subseteq Tokens \X {"ok", "failed"}
  BY <1>3, <1>8 DEF Interested, TypeOK
<1>9. ASSUME EnsureAnswers(e) PROVE Rest
  <2>1. PICK how \in {"ok", "failed"} : Immediate(t, e, how)
    BY <1>9 DEF EnsureAnswers
  <2>2. pending_completions_' \subseteq Tokens \X {"ok", "failed"}
    BY <1>3, <2>1 DEF Immediate, TypeOK
  <2>3. token_index_' \in [Tokens -> Entries \cup {Unused}]
    BY <1>3, <2>1 DEF Immediate, TypeOK
  <2> QED  BY <2>1, <2>2, <2>3 DEF Immediate, NoStart, TypeOK
<1>10. ASSUME EnsureJoins(e) PROVE Rest
  <2>1. ent' \in [Entries -> GpuEntry]
    BY <1>4, <1>10, Values DEF EnsureJoins, TypeOK
  <2> QED  BY <1>8, <1>10, <2>1 DEF EnsureJoins, NoStart, TypeOK
<1>11. ASSUME EnsureRestarts(e) PROVE Rest
  <2>1. [ent[e] EXCEPT !.interests = Asked(e)] \in GpuEntry
    BY <1>4, Values
  <2>2. cache \in [Entries -> CacheEntry]
    BY DEF TypeOK
  <2>3. PICK res, pin : Starts(e, [ent[e] EXCEPT !.interests = Asked(e)], cache, res, pin)
    BY <1>11, <2>1, <2>2, TryStartEffect DEF EnsureRestarts
  <2> QED  BY <1>8, <1>11, <2>2, <2>3 DEF EnsureRestarts, Starts, Resolved, ArenaStates, TypeOK
<1>12. ASSUME EnsureWaits(e) PROVE Rest
  <2>1. ent' \in [Entries -> GpuEntry]
    BY <1>4, <1>12, Values DEF EnsureWaits, TypeOK
  <2>2. waiters' \in [Keys -> Seq(Gpus)]
    BY <1>2, <1>12 DEF EnsureWaits, TypeOK
  <2> QED  BY <1>8, <1>12, <2>1, <2>2 DEF EnsureWaits, NoStart, TypeOK
<1>13. ASSUME EnsureReserves(e) PROVE Rest
  <2> DEFINE v == [NoEntry EXCEPT !.tier = "reserved", !.interests = Asked(e)]
  <2>1. PICK s \in FreeSlots(e[2]) :
          /\ cache' = [cache EXCEPT ![e] = [NotCached EXCEPT !.slot = s]]
          /\ try_start_h2d(e, v, cache')
    BY <1>13 DEF EnsureReserves, ReserveAndStart
  <2>2. cache' \in [Entries -> CacheEntry]
    BY <2>1, Values DEF TypeOK, FreeSlots
  <2>3. v \in GpuEntry
    BY <1>4, Values
  <2> HIDE DEF v
  <2>4. PICK res, pin : Starts(e, v, cache', res, pin)
    BY <2>1, <2>2, <2>3, TryStartEffect
  <2> QED  BY <1>8, <1>13, <2>2, <2>4 DEF EnsureReserves, Starts, Resolved, ArenaStates, TypeOK
<1>14. ASSUME EnsureFails(e) PROVE Rest
  <2>1. ent' \in [Entries -> GpuEntry]
    BY <1>14, Values DEF EnsureFails, TypeOK
  <2>2. waiters' \in [Keys -> Seq(Gpus)]
    <3>1. Without(waiters[e[1]], e[2]) \in Seq(Gpus)
      BY <1>2, WithoutType DEF TypeOK
    <3> QED  BY <1>2, <1>14, <3>1 DEF EnsureFails, TypeOK
  <2>3. token_index_' \in [Tokens -> Entries \cup {Unused}]
    BY <1>14, ForgetType DEF EnsureFails
  <2>4. pending_completions_' \subseteq Tokens \X {"ok", "failed"}
    BY <1>4, <1>14 DEF EnsureFails, TypeOK
  <2> QED  BY <1>14, <2>1, <2>2, <2>3, <2>4 DEF EnsureFails, NoStart, TypeOK
<1>15. Rest
  <2> HIDE DEF Rest
  <2> QED  BY <1>9, <1>10, <1>11, <1>12, <1>13, <1>14, EnsureSplit
<1> QED  BY <1>3, <1>5, <1>6, <1>7, <1>15 DEF TypeOK

\* The loops of poll keep the types.
LEMMA LoopTypes ==
  ASSUME TypeOK, LifecycleAssumption, poll_continues, UNCHANGED commands
  PROVE  TypeOK'
<1>1. todo # <<>> /\ UNCHANGED <<host, content, nvme>>
  BY LoopSplit
<1>2. Head(todo) \in Work /\ Tail(todo) \in Seq(Work)
  BY <1>1, TailListed DEF TypeOK
<1>3. Current \in Entries
  BY <1>2 DEF Current, Work, Entries
<1>4. ent[Current] \in GpuEntry /\ ent[Current].interests \in SUBSET Tokens
      /\ cache \in [Entries -> CacheEntry]
  BY <1>3 DEF TypeOK, GpuEntry
<1>5. CASE LoopFails
  <2>1. /\ Deliver(ent[Current].interests, "failed") /\ Forget(ent[Current].interests)
        /\ revert_gpu_entry(Current)
        /\ todo' = Tail(Erased(todo, Current[2]))
        /\ UNCHANGED <<arena, arena_load_waiters_, slot_pressure_waiters_, next_token_>>
    BY <1>5 DEF LoopFails, FailEntry
  <2>2. EntryReverted(Current)
    BY <1>3, <2>1, RevertEffect
  <2>3. todo' \in Seq(Work)
    <3>1. todo \in Seq(Work) /\ Len(todo) # 0
      BY <1>1 DEF TypeOK
    <3>2. Erased(todo, Current[2]) \in Seq(Work) /\ Len(Erased(todo, Current[2])) # 0
      BY <3>1, ErasedType
    <3> QED  BY <2>1, <3>2
  <2>4. /\ request' \in [Tokens -> {"none", "open", "ok", "failed", "cancelled"}]
        /\ pending_completions_' = {}
        /\ token_index_' \in [Tokens -> Entries \cup {Unused}]
    BY <2>1, DeliverType, ForgetType
  <2> QED  BY <1>1, <2>1, <2>2, <2>3, <2>4 DEF TypeOK, EntryReverted
<1>6. CASE LoopReserves
  <2> DEFINE v == [NoEntry EXCEPT !.tier = "reserved", !.interests = ent[Current].interests]
  <2>1. PICK s \in FreeSlots(Current[2]) :
          /\ cache' = [cache EXCEPT ![Current] = [NotCached EXCEPT !.slot = s]]
          /\ try_start_h2d(Current, v, cache')
    BY <1>6 DEF LoopReserves, ReserveAndStart
  <2>2. cache' \in [Entries -> CacheEntry]
    BY <1>3, <2>1, Values DEF TypeOK, FreeSlots
  <2>3. v \in GpuEntry
    BY <1>4, Values
  <2> HIDE DEF v
  <2>4. PICK res, pin : Starts(Current, v, cache', res, pin)
    BY <1>3, <2>1, <2>2, <2>3, TryStartEffect
  <2> QED  BY <1>1, <1>2, <1>6, <2>2, <2>4
           DEF LoopReserves, Starts, Resolved, ArenaStates, TypeOK, tokenVars
<1>7. CASE LoopStarts
  <2>1. PICK res, pin : Starts(Current, ent[Current], cache, res, pin)
    BY <1>3, <1>4, <1>7, TryStartEffect DEF LoopStarts
  <2> QED  BY <1>1, <1>2, <1>7, <2>1
           DEF LoopStarts, Starts, Resolved, ArenaStates, TypeOK, tokenVars
<1>8. CASE LoopSkips
  BY <1>1, <1>2, <1>8 DEF LoopSkips, NoStart, TypeOK, tokenVars
<1> QED  BY <1>5, <1>6, <1>7, <1>8, LoopSplit

\* A copy that is over keeps the types.
LEMMA CopyTypes ==
  ASSUME TypeOK, StreamsOwn, NEW g \in Gpus, NEW ok \in BOOLEAN, poll_h2d(g, ok),
         UNCHANGED commands
  PROVE  TypeOK'
<1> DEFINE e == HeadEntry(g)
<1>1. CopyFrame(g, ok) /\ HeadOf(g) \in Copy /\ e \in Entries
  BY CopySplit
<1>2. stream' \in [Gpus -> Seq(Copy)]
  BY <1>1 DEF CopyFrame, TypeOK
<1>3. content' \in [Gpus -> [SlotIds -> Keys \cup {Unused}]]
  <2>1. HeadOf(g).slot \in SlotIds /\ HeadOf(g).key \in Keys
    BY <1>1 DEF Copy
  <2>2. (IF ok THEN HeadOf(g).key ELSE Unused) \in Keys \cup {Unused}
    BY <2>1
  <2> QED  BY <1>1, <2>1, <2>2 DEF CopyFrame, TypeOK
<1>4. e[1] \in Keys /\ e[2] \in Gpus /\ cache[e] \in CacheEntry
  BY <1>1 DEF Entries, TypeOK
<1> HIDE DEF e
<1>5. CASE CopySucceeds(g)
  <2>1. /\ Forget(ent[e].interests)
        /\ ent' = [ent EXCEPT ![e] = [NoEntry EXCEPT !.tier = "hot"]]
        /\ cache' = IF cache[e].slot = 0 THEN cache ELSE [cache EXCEPT ![e].ready = "yes"]
        /\ Deliver(ent[e].interests, "ok")
        /\ slot_pressure_waiters_' = <<>>
        /\ UNCHANGED waiters
    BY <1>5, Zenon DEF CopySucceeds, e
  <2>2. todo' \in Seq(Work)
    <3> DEFINE q == slot_pressure_waiters_
               cell(i) == [op |-> "start", key |-> q[i][1], gpu |-> q[i][2], live |-> "no"]
    <3>1. todo' = [i \in 1..Len(q) |-> cell(i)]
      BY <1>5, Zenon DEF CopySucceeds
    <3>2. q \in Seq(Entries)
      BY DEF TypeOK
    <3>3. \A i \in 1..Len(q) : cell(i) \in Work
      <4> SUFFICES ASSUME NEW i \in 1..Len(q) PROVE cell(i) \in Work
        OBVIOUS
      <4>1. q[i] \in Entries
        BY <3>2
      <4> QED  BY <4>1 DEF Entries, Work
    <3> HIDE DEF cell
    <3> QED  BY <3>1, <3>2, <3>3
  <2>3. ent' \in [Entries -> GpuEntry]
    BY <1>1, <2>1, Values DEF TypeOK
  <2>4. cache' \in [Entries -> CacheEntry]
    BY <1>1, <1>4, <2>1, Values DEF TypeOK
  <2>5. /\ request' \in [Tokens -> {"none", "open", "ok", "failed", "cancelled"}]
        /\ pending_completions_' = {}
        /\ token_index_' \in [Tokens -> Entries \cup {Unused}]
    BY <2>1, DeliverType, ForgetType
  <2>6. slot_pressure_waiters_' \in Seq(Entries)
    BY <2>1
  <2> QED  BY <1>1, <1>2, <1>3, <2>1, <2>2, <2>3, <2>4, <2>5, <2>6 DEF CopyFrame, TypeOK
<1>6. CASE CopyFails(g)
  <2>1. /\ Forget(ent[e].interests)
        /\ ent' = [ent EXCEPT ![e] = NoEntry]
        /\ cache' = IF cache[e].locks = 0 THEN [cache EXCEPT ![e] = NotCached] ELSE cache
        /\ Deliver(ent[e].interests, "failed")
        /\ waiters' = [waiters EXCEPT ![e[1]] = Without(@, e[2])]
        /\ UNCHANGED <<todo, slot_pressure_waiters_>>
    BY <1>6, Zenon DEF CopyFails, e
  <2>2. waiters' \in [Keys -> Seq(Gpus)]
    <3>1. Without(waiters[e[1]], e[2]) \in Seq(Gpus)
      BY <1>4, WithoutType DEF TypeOK
    <3> QED  BY <1>4, <2>1, <3>1 DEF TypeOK
  <2>3. ent' \in [Entries -> GpuEntry]
    BY <1>1, <2>1, Values DEF TypeOK
  <2>4. cache' \in [Entries -> CacheEntry]
    BY <1>1, <2>1, Values DEF TypeOK
  <2>5. /\ request' \in [Tokens -> {"none", "open", "ok", "failed", "cancelled"}]
        /\ pending_completions_' = {}
        /\ token_index_' \in [Tokens -> Entries \cup {Unused}]
    BY <2>1, DeliverType, ForgetType
  <2> QED  BY <1>1, <1>2, <1>3, <2>1, <2>2, <2>3, <2>4, <2>5 DEF CopyFrame, TypeOK
<1>7. CASE CopyIgnored(g, ok)
  <2>1. /\ Deliver({}, "ok")
        /\ \/ cache' = [cache EXCEPT ![e].ready = "yes"]
           \/ cache' = cache
        /\ UNCHANGED <<ent, waiters, todo, slot_pressure_waiters_, token_index_>>
    BY <1>7, Zenon DEF CopyIgnored, e
  <2>2. cache' \in [Entries -> CacheEntry]
    BY <1>1, <1>4, <2>1, Values DEF TypeOK
  <2>3. /\ request' \in [Tokens -> {"none", "open", "ok", "failed", "cancelled"}]
        /\ pending_completions_' = {}
    BY <2>1, DeliverType
  <2> QED  BY <1>1, <1>2, <1>3, <2>1, <2>2, <2>3 DEF CopyFrame, TypeOK
<1> QED  BY <1>5, <1>6, <1>7, CopySplit

\* The other operations of the clients keep the types.
LEMMA ClientTypes ==
  ASSUME TypeOK, LifecycleAssumption, Client, UNCHANGED commands
  PROVE  TypeOK'
<1> USE DEF elmVars, tokenVars, copyVars
<1>1. ASSUME NEW e \in Entries, ensure_resident(e) PROVE TypeOK'
  BY <1>1, EnsureTypes
<1>2. ASSUME NEW e \in Entries, request_evict(e) PROVE TypeOK'
  BY <1>2, Values DEF request_evict, TypeOK
<1>3. ASSUME NEW e \in Entries, request_drain(e) PROVE TypeOK'
  <2>1. ent' \in [Entries -> GpuEntry]
    <3>0. ent[e] \in GpuEntry
      BY DEF TypeOK
    <3>1. [ent[e] EXCEPT !.tier = "draining"] \in GpuEntry
      BY <3>0 DEF GpuEntry, GpuTiers
    <3> QED  BY <1>3, <3>1 DEF request_drain, TypeOK
  <2>2. drains' \subseteq Drain
    <3>1. e[1] \in Keys /\ e[2] \in Gpus
      BY DEF Entries
    <3>2. [key |-> e[1], gpu |-> e[2], state |-> "live"] \in Drain
      BY <3>1 DEF Drain
    <3> QED  BY <1>3, <3>2 DEF request_drain, TypeOK
  <2> QED  BY <1>3, <2>1, <2>2 DEF request_drain, TypeOK
<1>4. ASSUME NEW t \in Tokens, cancel(t) PROVE TypeOK'
  <2> DEFINE e == token_index_[t]
  <2>1. e \in Entries
    BY <1>4 DEF cancel, TypeOK
  <2>2. /\ token_index_' \in [Tokens -> Entries \cup {Unused}]
        /\ pending_completions_' \subseteq Tokens \X {"ok", "failed"}
    BY <1>4 DEF cancel, TypeOK
  <2>3. request' \in [Tokens -> {"none", "open", "ok", "failed", "cancelled"}]
    BY <1>4 DEF cancel, TypeOK
  <2>4. /\ ent' \in [Entries -> GpuEntry] /\ cache' \in [Entries -> CacheEntry]
        /\ staged' \subseteq Copy /\ stream' \in [Gpus -> Seq(Copy)] /\ drains' \subseteq Drain
        /\ waiters' \in [Keys -> Seq(Gpus)]
    <3>1. CASE revert_gpu_entry(e)
      BY <2>1, <3>1, RevertEffect DEF EntryReverted
    <3>2. CASE ent' = [ent EXCEPT ![e].interests = @ \ {t}] /\ UNCHANGED <<cache, waiters, copyVars>>
      <4>1. ent[e] \in GpuEntry /\ ent[e].interests \ {t} \in SUBSET Tokens
        BY <2>1 DEF TypeOK, GpuEntry
      <4>2. [ent[e] EXCEPT !.interests = @ \ {t}] \in GpuEntry
        BY <4>1 DEF GpuEntry
      <4> QED  BY <2>1, <3>2, <4>2 DEF TypeOK
    <3> QED  BY <1>4, <3>1, <3>2 DEF cancel
  <2> QED  BY <1>4, <2>2, <2>3, <2>4 DEF cancel, TypeOK
<1>5. ASSUME NEW e \in Entries, lock(e) \/ unlock(e) PROVE TypeOK'
  <2>1. cache' \in [Entries -> CacheEntry]
    <3>1. cache[e] \in CacheEntry
      BY DEF TypeOK
    <3>2. \A n \in {0, 1} : [cache[e] EXCEPT !.locks = n] \in CacheEntry
      BY <3>1, Values
    <3> QED  BY <1>5, <3>2 DEF lock, unlock, TypeOK
  <2> QED  BY <1>5, <2>1 DEF lock, unlock, TypeOK
<1>6. ASSUME NEW e \in Entries, handle_cache_evict(e) \/ handle_cache_reserve(e) PROVE TypeOK'
  <2>1. cache' \in [Entries -> CacheEntry]
    BY <1>6, Values DEF handle_cache_evict, handle_cache_reserve, FreeSlots, TypeOK
  <2> QED  BY <1>6, <2>1 DEF handle_cache_evict, handle_cache_reserve, TypeOK
<1>7. ASSUME NEW e \in Entries, handle_transfer_h2d(e) PROVE TypeOK'
  <2>1. e[1] \in Keys /\ e[2] \in Gpus
    BY DEF Entries
  <2>2. arena' \in [Keys -> {"absent", "reserved", "loading", "ready"}]
    BY <1>7, <2>1, HostSourceResolves DEF handle_transfer_h2d, Resolved, ArenaStates
  <2>3. staged' \subseteq Copy
    <3>1. cache[e].slot \in SlotIds
      BY <1>7 DEF handle_transfer_h2d, TypeOK, CacheEntry
    <3> QED  BY <1>7, <2>1, <3>1 DEF handle_transfer_h2d, TypeOK, Copy
  <2> QED  BY <1>7, <2>2, <2>3 DEF handle_transfer_h2d, TypeOK
<1>8. ASSUME NEW e \in Entries, handle_cancel_transfer(e) PROVE TypeOK'
  <2>1. staged' \subseteq Copy /\ stream' \in [Gpus -> Seq(Copy)]
    BY <1>8, CancelCopyEffect DEF handle_cancel_transfer, CopyCancelled, TypeOK
  <2>2. cache' \in [Entries -> CacheEntry]
    BY <1>8, Values DEF handle_cancel_transfer, TypeOK
  <2> QED  BY <1>8, <2>1, <2>2 DEF handle_cancel_transfer, TypeOK
<1>9. ASSUME NEW k \in Keys, handle_nvme_write(k) \/ cancel_nvme_write(k) PROVE TypeOK'
  BY <1>9 DEF handle_nvme_write, cancel_nvme_write, TypeOK
<1> QED  BY <1>1, <1>2, <1>3, <1>4, <1>5, <1>6, <1>7, <1>8, <1>9 DEF Client

\* What the daemon does on its own keeps the types.
LEMMA PollTypes ==
  ASSUME TypeOK, StreamsOwn, LifecycleAssumption, flush_staged \/ Poll, UNCHANGED commands
  PROVE  TypeOK'
<1> USE DEF elmVars, tokenVars, copyVars
<1>1. CASE flush_staged
  <2>1. stream' \in [Gpus -> Seq(Copy)] /\ staged' \subseteq Copy
    <3>1. PICK c \in staged : /\ staged' = staged \ {c}
                              /\ stream' = [stream EXCEPT ![c.gpu] = Append(@, c)]
      BY <1>1 DEF flush_staged
    <3>2. c \in Copy /\ c.gpu \in Gpus
      BY DEF TypeOK, Copy
    <3>3. Append(stream[c.gpu], c) \in Seq(Copy)
      BY <3>2 DEF TypeOK
    <3> QED  BY <3>1, <3>2, <3>3 DEF TypeOK
  <2> QED  BY <1>1, <2>1 DEF flush_staged, TypeOK
<1>2. CASE poll_nothing
  <2>1. /\ request' \in [Tokens -> {"none", "open", "ok", "failed", "cancelled"}]
        /\ pending_completions_' = {}
    BY <1>2, DeliverType DEF poll_nothing
  <2> QED  BY <1>2, <2>1 DEF poll_nothing, TypeOK
<1>3. ASSUME NEW k \in Keys, NEW ok \in BOOLEAN, poll_arena(k, ok) PROVE TypeOK'
  <2>1. /\ request' \in [Tokens -> {"none", "open", "ok", "failed", "cancelled"}]
        /\ pending_completions_' = {}
    BY <1>3, DeliverType DEF poll_arena
  <2>2. PICK op \in {"start", "fail"} : todo' = Works(op, k, arena_load_waiters_[k], "no")
    BY <1>3, Zenon DEF poll_arena
  <2>3. todo' \in Seq(Work)
    <3>1. arena_load_waiters_[k] \in Seq(Gpus)
      BY DEF TypeOK
    <3> QED  BY <2>2, <3>1, WorksType
  <2>4. arena_load_waiters_' \in [Keys -> Seq(Gpus)]
    BY <1>3 DEF poll_arena, TypeOK
  <2>5. arena' \in [Keys -> {"absent", "reserved", "loading", "ready"}]
    BY <1>3 DEF poll_arena, TypeOK
  <2> QED  BY <1>3, <2>1, <2>3, <2>4, <2>5 DEF poll_arena, TypeOK
<1>4. ASSUME NEW k \in Keys, NEW ok \in BOOLEAN, poll_nvme(k, ok) PROVE TypeOK'
  <2>1. /\ request' \in [Tokens -> {"none", "open", "ok", "failed", "cancelled"}]
        /\ pending_completions_' = {}
    BY <1>4, DeliverType DEF poll_nvme
  <2>2. nvme' \in [Keys -> {"none", "writing", "written", "rewriting"}]
    BY <1>4 DEF poll_nvme, TypeOK
  <2>3. /\ host' \in [Keys -> {"cold", "loading", "warm"}] /\ todo' \in Seq(Work)
        /\ waiters' \in [Keys -> Seq(Gpus)]
    <3>1. CASE host[k] = "loading"
      <4>1. PICK op \in {"wake", "drop"} : todo' = Works(op, k, waiters[k], "yes")
        BY <1>4, <3>1, Zenon DEF poll_nvme
      <4>2. waiters[k] \in Seq(Gpus)
        BY DEF TypeOK
      <4>3. todo' \in Seq(Work)
        BY <4>1, <4>2, WorksType
      <4>4. waiters' \in [Keys -> Seq(Gpus)]
        <5>1. waiters' = [waiters EXCEPT ![k] = <<>>] /\ waiters \in [Keys -> Seq(Gpus)]
          BY <1>4, <3>1 DEF poll_nvme, TypeOK
        <5> QED  BY <5>1
      <4>5. host' \in [Keys -> {"cold", "loading", "warm"}]
        BY <1>4, <3>1, ZenonT(30) DEF poll_nvme, TypeOK
      <4> QED  BY <4>3, <4>4, <4>5
    <3>2. CASE host[k] # "loading"
      BY <1>4, <3>2 DEF poll_nvme, TypeOK
    <3> QED  BY <3>1, <3>2
  <2> QED  BY <1>4, <2>1, <2>2, <2>3 DEF poll_nvme, TypeOK
<1>5. ASSUME NEW g \in Gpus, NEW ok \in BOOLEAN, poll_h2d(g, ok) PROVE TypeOK'
  BY <1>5, CopyTypes
<1>6. ASSUME NEW d \in drains, NEW ok \in BOOLEAN, poll_d2h(d, ok) PROVE TypeOK'
  <2> DEFINE e == <<d.key, d.gpu>>
  <2>1. d.key \in Keys /\ e \in Entries
    BY DEF TypeOK, Drain, Entries
  <2>2. /\ request' \in [Tokens -> {"none", "open", "ok", "failed", "cancelled"}]
        /\ pending_completions_' = {}
    BY <1>6, DeliverType DEF poll_d2h
  <2>3. drains' \subseteq Drain
    BY <1>6 DEF poll_d2h, TypeOK
  <2>4. ent' \in [Entries -> GpuEntry]
    BY <1>6, <2>1, Values DEF poll_d2h, TypeOK
  <2>5. cache' \in [Entries -> CacheEntry]
    BY <1>6, <2>1, Values DEF poll_d2h, TypeOK
  <2>6. nvme' \in [Keys -> {"none", "writing", "written", "rewriting"}]
    BY <1>6, <2>1, ZenonT(30) DEF poll_d2h, TypeOK
  <2> QED  BY <1>6, <2>2, <2>3, <2>4, <2>5, <2>6 DEF poll_d2h, TypeOK
<1> QED  BY <1>1, <1>2, <1>3, <1>4, <1>5, <1>6 DEF Poll

\* The streams keep to their GPUs.
LEMMA StreamsStep ==
  ASSUME TypeOK, StreamsOwn, Next
  PROVE  StreamsOwn'
<1> USE DEF elmVars, tokenVars, copyVars
<1>1. ASSUME NEW e \in Entries, CopyCancelled(e) PROVE StreamsOwn'
  <2> SUFFICES ASSUME NEW g \in Gpus, NEW i \in 1..Len(stream'[g]) PROVE stream'[g][i].gpu = g
    BY DEF StreamsOwn
  <2>1. i \in 1..Len(stream[g])
    BY <1>1 DEF CopyCancelled
  <2>2. stream[g][i] \in Copy /\ stream[g][i].gpu = g
    BY <2>1 DEF TypeOK, StreamsOwn
  <2>3. \/ stream'[g][i] = stream[g][i]
        \/ stream'[g][i] = [stream[g][i] EXCEPT !.state = "cancelled"]
    BY <1>1, <2>1 DEF CopyCancelled
  <2> QED  BY <2>2, <2>3 DEF Copy
<1>2. CASE stream' = stream
  BY <1>2 DEF StreamsOwn
<1>3. ASSUME NEW e \in Entries, revert_gpu_entry(e) PROVE StreamsOwn'
  <2>1. EntryReverted(e)
    BY <1>3, RevertEffect
  <2>2. CopyCancelled(e) \/ stream' = stream
    BY <2>1, Zenon DEF EntryReverted
  <2> QED  BY <1>1, <1>2, <2>2
<1>4. CASE poll_continues
  <2>1. Current \in Entries /\ todo # <<>>
    <3>1. todo # <<>> /\ todo \in Seq(Work)
      BY <1>4, LoopSplit DEF TypeOK
    <3>2. Head(todo) \in Work
      BY <3>1, TailListed
    <3> QED  BY <3>1, <3>2 DEF Current, Work, Entries
  <2>2. revert_gpu_entry(Current) \/ stream' = stream
    BY <1>4, LoopSplit DEF LoopFails, LoopReserves, LoopStarts, LoopSkips, FailEntry
  <2> QED  BY <1>2, <1>3, <2>1, <2>2
<1>5. CASE Client
  <2>1. ASSUME NEW t \in Tokens, cancel(t) PROVE StreamsOwn'
    <3>1. token_index_[t] \in Entries
      BY <2>1 DEF cancel, TypeOK
    <3>2. revert_gpu_entry(token_index_[t]) \/ stream' = stream
      BY <2>1, Zenon DEF cancel
    <3> QED  BY <1>2, <1>3, <3>1, <3>2
  <2>2. ASSUME NEW e \in Entries, handle_cancel_transfer(e) PROVE StreamsOwn'
    BY <1>1, <2>2, CancelCopyEffect DEF handle_cancel_transfer
  <2>3. ASSUME NEW e \in Entries, ensure_resident(e) PROVE stream' = stream
    BY <2>3, EnsureSplit DEF EnsureFrame
  <2>4. ASSUME NEW e \in Entries,
               \/ request_evict(e) \/ request_drain(e) \/ lock(e) \/ unlock(e)
               \/ handle_cache_evict(e) \/ handle_cache_reserve(e) \/ handle_transfer_h2d(e)
        PROVE  stream' = stream
    BY <2>4 DEF request_evict, request_drain, lock, unlock, handle_cache_evict,
                handle_cache_reserve, handle_transfer_h2d
  <2>5. ASSUME NEW k \in Keys, handle_nvme_write(k) \/ cancel_nvme_write(k) PROVE stream' = stream
    BY <2>5 DEF handle_nvme_write, cancel_nvme_write
  <2> QED  BY <1>2, <1>5, <2>1, <2>2, <2>3, <2>4, <2>5 DEF Client
<1>6. CASE flush_staged
  <2>1. PICK c \in staged : stream' = [stream EXCEPT ![c.gpu] = Append(@, c)]
    BY <1>6 DEF flush_staged
  <2>2. c \in Copy /\ c.gpu \in Gpus
    BY DEF TypeOK, Copy
  <2> SUFFICES ASSUME NEW g \in Gpus, NEW i \in 1..Len(stream'[g]) PROVE stream'[g][i].gpu = g
    BY DEF StreamsOwn
  <2>3. stream[g] \in Seq(Copy)
    BY DEF TypeOK
  <2>4. CASE g = c.gpu
    <3>1. stream'[g] = Append(stream[g], c)
      BY <2>1, <2>4 DEF TypeOK
    <3>2. i \in 1..(Len(stream[g]) + 1)
      BY <2>3, <3>1
    <3>3. stream'[g][i] = IF i = Len(stream[g]) + 1 THEN c ELSE stream[g][i]
      BY <2>3, <3>1, <3>2
    <3> QED  BY <2>3, <2>4, <3>2, <3>3 DEF StreamsOwn
  <2>5. CASE g # c.gpu
    BY <2>1, <2>5 DEF StreamsOwn, TypeOK
  <2> QED  BY <2>4, <2>5
<1>7. CASE Poll
  <2>1. ASSUME NEW h \in Gpus, NEW ok \in BOOLEAN, poll_h2d(h, ok) PROVE StreamsOwn'
    <3>1. stream[h] # <<>> /\ stream' = [stream EXCEPT ![h] = Tail(@)]
      BY <2>1, CopySplit DEF CopyFrame
    <3> SUFFICES ASSUME NEW g \in Gpus, NEW i \in 1..Len(stream'[g]) PROVE stream'[g][i].gpu = g
      BY DEF StreamsOwn
    <3>2. stream[g] \in Seq(Copy)
      BY DEF TypeOK
    <3>3. CASE g = h
      <4>1. stream'[g] = Tail(stream[g])
        BY <3>1, <3>3 DEF TypeOK
      <4>2. stream'[g][i] = stream[g][i + 1] /\ i + 1 \in 1..Len(stream[g])
        BY <3>1, <3>2, <3>3, <4>1, TailAt, ZenonT(30)
      <4> QED  BY <4>2 DEF StreamsOwn
    <3>4. CASE g # h
      BY <3>1, <3>4 DEF StreamsOwn, TypeOK
    <3> QED  BY <3>3, <3>4
  <2>2. CASE poll_nothing
    BY <1>2, <2>2 DEF poll_nothing
  <2>3. ASSUME NEW k \in Keys, NEW ok \in BOOLEAN, poll_arena(k, ok) \/ poll_nvme(k, ok)
        PROVE  stream' = stream
    BY <2>3 DEF poll_arena, poll_nvme
  <2>4. ASSUME NEW d \in drains, NEW ok \in BOOLEAN, poll_d2h(d, ok) PROVE stream' = stream
    BY <2>4 DEF poll_d2h
  <2> QED  BY <1>2, <1>7, <2>1, <2>2, <2>3, <2>4 DEF Poll
<1> QED  BY <1>4, <1>5, <1>6, <1>7 DEF Next

\* Type correctness, with the copies on the streams of their GPUs.
LEMMA TypesHold == ASSUME LifecycleAssumption PROVE Spec => [](TypeOK /\ StreamsOwn)
<1>1. Init => TypeOK /\ StreamsOwn
  <2> SUFFICES ASSUME Init PROVE TypeOK /\ StreamsOwn
    OBVIOUS
  <2>1. \A k \in Keys : waiters[k] = <<>> /\ arena_load_waiters_[k] = <<>>
    BY DEF Init
  <2>2. \A g \in Gpus : stream[g] = <<>>
    BY DEF Init
  <2>3. StreamsOwn
    BY <2>2 DEF StreamsOwn
  <2>4. nvme \in [Keys -> {"none", "writing", "written", "rewriting"}] /\ commands \in Clients
    BY DEF Init
  <2>5. next_token_ \in 1..(MaxTokens + 1)
    BY LifecycleAssumption DEF Init, LifecycleAssumption
  <2>6. /\ ent \in [Entries -> GpuEntry] /\ cache \in [Entries -> CacheEntry]
    BY Values DEF Init
  <2>7. /\ host \in [Keys -> {"cold", "loading", "warm"}]
        /\ waiters \in [Keys -> Seq(Gpus)] /\ arena_load_waiters_ \in [Keys -> Seq(Gpus)]
        /\ slot_pressure_waiters_ \in Seq(Entries) /\ todo \in Seq(Work)
        /\ token_index_ \in [Tokens -> Entries \cup {Unused}]
        /\ pending_completions_ \subseteq Tokens \X {"ok", "failed"}
    BY DEF Init
  <2>8. /\ request \in [Tokens -> {"none", "open", "ok", "failed", "cancelled"}]
        /\ content \in [Gpus -> [SlotIds -> Keys \cup {Unused}]]
        /\ staged \subseteq Copy /\ stream \in [Gpus -> Seq(Copy)] /\ drains \subseteq Drain
        /\ arena \in [Keys -> {"absent", "reserved", "loading", "ready"}]
    BY DEF Init
  <2> QED  BY <2>3, <2>4, <2>5, <2>6, <2>7, <2>8 DEF TypeOK
<1>2. TypeOK /\ StreamsOwn /\ [Next]_vars => (TypeOK /\ StreamsOwn)'
  <2> SUFFICES ASSUME TypeOK, StreamsOwn, [Next]_vars PROVE TypeOK' /\ StreamsOwn'
    OBVIOUS
  <2>1. CASE Next
    <3>1. UNCHANGED commands /\ (poll_continues \/ Client \/ flush_staged \/ Poll)
      BY <2>1 DEF Next
    <3>2. TypeOK'
      BY <3>1, LoopTypes, ClientTypes, PollTypes
    <3> QED  BY <2>1, <3>2, StreamsStep
  <2>2. CASE UNCHANGED vars
    BY <2>2 DEF vars, state, elmVars, tokenVars, copyVars, TypeOK, StreamsOwn
  <2> QED  BY <2>1, <2>2
<1> QED  BY <1>1, <1>2, PTL DEF Spec

-------------------------------------------------------------------------------
(* Requests: every token is in one place, and a request is answered once.  *)

Books == TokensExact /\ EveryOpenTracked

ServiceStep == LS!Open \/ LS!Close \/ request' = request

SameInterests(e) == \A f \in Entries \ {e} : ent'[f].interests = ent[f].interests

\* Steps that neither open nor close a request.
LEMMA BooksKept ==
  ASSUME TypeOK, Books, UNCHANGED tokenVars,
         \A f \in Entries : ent'[f].interests = ent[f].interests
  PROVE  Books' /\ ServiceStep
<1>1. TokensExact'
  BY DEF Books, TokensExact, tokenVars
<1>2. EveryOpenTracked'
  BY DEF Books, EveryOpenTracked, tokenVars
<1> QED  BY <1>1, <1>2 DEF Books, ServiceStep, tokenVars

\* A poll that answers the interests of e and what waited in pending_completions_.
LEMMA BooksDelivered ==
  ASSUME TypeOK, Books, NEW T, NEW how \in {"ok", "failed"}, Deliver(T, how),
         \A t \in T : request[t] = "open",
         T \subseteq Tokens, UNCHANGED next_token_
  PROVE  /\ ServiceStep
         /\ \A t \in Tokens : request[t] # "open" => request'[t] = request[t]
         /\ \A t \in Tokens : request'[t] = "open" => request[t] = "open" /\ t \notin T
         /\ \A t \in Tokens : request'[t] = "open" =>
               <<t, "ok">> \notin pending_completions_ /\ <<t, "failed">> \notin pending_completions_
         /\ \A t \in Tokens : request[t] = "open" /\ t \notin T /\ request'[t] # "open" =>
               \E p \in pending_completions_ : p[1] = t
<1> DEFINE A(t) == IF t \in T THEN how
                   ELSE IF <<t, "ok">> \in pending_completions_ THEN "ok"
                   ELSE IF <<t, "failed">> \in pending_completions_ THEN "failed"
                   ELSE request[t]
           C == {t \in Tokens : t \in T \/ <<t, "ok">> \in pending_completions_
                                        \/ <<t, "failed">> \in pending_completions_}
<1>1. request' = [t \in Tokens |-> A(t)]
  BY DEF Deliver
<1>2. \A t \in Tokens : request'[t] = A(t)
  <2> HIDE DEF A
  <2> QED  BY <1>1
<1>3. \A t \in C : request[t] = "open" /\ A(t) \in {"ok", "failed"}
  BY DEF Books, TokensExact
<1>4. \A t \in Tokens \ C : A(t) = request[t]
  OBVIOUS
<1>5. ServiceStep
  <2>1. CASE C = {}
    <3>1. request \in [Tokens -> {"none", "open", "ok", "failed", "cancelled"}]
      BY DEF TypeOK
    <3> HIDE DEF A
    <3>2. request' = request
      BY <1>1, <1>4, <2>1, <3>1
    <3> QED  BY <3>2 DEF ServiceStep
  <2>2. CASE C # {}
    <3> DEFINE h == [t \in C |-> A(t)]
    <3>1. C \in SUBSET {t \in Tokens : request[t] = "open"}
      BY <1>3
    <3>2. h \in [C -> LS!Closed]
      <4> HIDE DEF A, C
      <4> QED  BY <1>3 DEF LS!Closed
    <3>3. request' = [t \in Tokens |-> IF t \in C THEN h[t] ELSE request[t]]
      <4> HIDE DEF A, C
      <4> QED  BY <1>1, <1>4
    <3> HIDE DEF h, C
    <3> QED  BY <2>2, <3>1, <3>2, <3>3 DEF ServiceStep, LS!Close
  <2> QED  BY <2>1, <2>2
<1>6. \A t \in Tokens : request[t] # "open" => request'[t] = request[t]
  <2> HIDE DEF A, C
  <2> QED  BY <1>2, <1>3, <1>4
<1>7. \A t \in Tokens : request'[t] = "open" => request[t] = "open" /\ t \notin C
  <2> HIDE DEF A, C
  <2> QED  BY <1>2, <1>3, <1>4
<1>8. \A t \in Tokens : request[t] = "open" /\ request'[t] # "open" => t \in C
  <2> HIDE DEF A, C
  <2> QED  BY <1>2, <1>4
<1>9. \A t \in C : t \notin T => \E p \in pending_completions_ : p[1] = t
  OBVIOUS
<1> QED  BY <1>5, <1>6, <1>7, <1>8, <1>9

\* A poll that closes the interests of e.
LEMMA BooksClosed ==
  ASSUME TypeOK, Books, NEW e \in Entries, NEW how \in {"ok", "failed"},
         Deliver(ent[e].interests, how), Forget(ent[e].interests), UNCHANGED next_token_,
         ent'[e].interests = {}, SameInterests(e)
  PROVE  Books' /\ ServiceStep
<1> DEFINE T == ent[e].interests
<1>1. T \subseteq Tokens
  BY DEF TypeOK, GpuEntry
<1>2. \A t \in T : request[t] = "open" /\ token_index_[t] = e
  BY DEF Books, TokensExact
<1>3. /\ ServiceStep
      /\ \A t \in Tokens : request[t] # "open" => request'[t] = request[t]
      /\ \A t \in Tokens : request'[t] = "open" => request[t] = "open" /\ t \notin T
      /\ \A t \in Tokens : request'[t] = "open" =>
            <<t, "ok">> \notin pending_completions_ /\ <<t, "failed">> \notin pending_completions_
      /\ \A t \in Tokens : request[t] = "open" /\ t \notin T /\ request'[t] # "open" =>
            \E p \in pending_completions_ : p[1] = t
  BY <1>1, <1>2, BooksDelivered
<1>4. pending_completions_' = {} /\ \A t \in Tokens : token_index_'[t] = IF t \in T THEN Unused ELSE token_index_[t]
  BY DEF Deliver, Forget
<1>5. \A f \in Entries : \A t \in ent'[f].interests :
         t \in Tokens /\ t \in ent[f].interests /\ t \notin T
  <2> SUFFICES ASSUME NEW f \in Entries, NEW t \in ent'[f].interests
               PROVE  t \in Tokens /\ t \in ent[f].interests /\ t \notin T
    OBVIOUS
  <2>1. f # e /\ t \in ent[f].interests
    BY DEF SameInterests
  <2>2. t \in Tokens
    BY <2>1 DEF TypeOK, GpuEntry
  <2>3. token_index_[t] = f
    BY <2>1 DEF Books, TokensExact
  <2> QED  BY <1>2, <2>1, <2>2, <2>3
<1>6. TokensExact'
  <2>1. \A f \in Entries : \A t \in ent'[f].interests : token_index_'[t] = f /\ request'[t] = "open"
    <3> SUFFICES ASSUME NEW f \in Entries, NEW t \in ent'[f].interests
                 PROVE  token_index_'[t] = f /\ request'[t] = "open"
      OBVIOUS
    <3>1. t \in Tokens /\ t \in ent[f].interests /\ t \notin T
      BY <1>5
    <3>2. token_index_[t] = f /\ request[t] = "open" /\ \A p \in pending_completions_ : p[1] # t
      BY <3>1 DEF Books, TokensExact
    <3> QED  BY <1>3, <1>4, <3>1, <3>2
  <2>2. \A t \in Tokens : t >= next_token_' => request'[t] = "none"
    BY <1>3 DEF Books, TokensExact
  <2> QED  BY <1>4, <2>1, <2>2 DEF TokensExact
<1>7. EveryOpenTracked'
  <2> SUFFICES ASSUME NEW t \in Tokens, request'[t] = "open"
               PROVE  \E f \in Entries : t \in ent'[f].interests /\ token_index_'[t] = f
    BY DEF EveryOpenTracked
  <2>1. /\ request[t] = "open" /\ t \notin T
        /\ <<t, "ok">> \notin pending_completions_ /\ <<t, "failed">> \notin pending_completions_
    BY <1>3
  <2>2. PICK f \in Entries : t \in ent[f].interests /\ token_index_[t] = f
    BY <2>1 DEF Books, EveryOpenTracked
  <2>3. f # e
    BY <2>1, <2>2
  <2> QED  BY <1>4, <2>1, <2>2, <2>3 DEF SameInterests
<1> QED  BY <1>3, <1>6, <1>7 DEF Books

\* A poll that only answers what waited.
LEMMA BooksFlushed ==
  ASSUME TypeOK, Books, Deliver({}, "ok"), UNCHANGED <<token_index_, next_token_>>,
         \A f \in Entries : ent'[f].interests = ent[f].interests
  PROVE  Books' /\ ServiceStep
<1>1. /\ ServiceStep
      /\ \A t \in Tokens : request[t] # "open" => request'[t] = request[t]
      /\ \A t \in Tokens : request'[t] = "open" => request[t] = "open"
      /\ \A t \in Tokens : request'[t] = "open" =>
            <<t, "ok">> \notin pending_completions_ /\ <<t, "failed">> \notin pending_completions_
      /\ \A t \in Tokens : request[t] = "open" /\ request'[t] # "open" =>
            \E p \in pending_completions_ : p[1] = t
  BY BooksDelivered
<1>2. pending_completions_' = {}
  BY DEF Deliver
<1>3. TokensExact'
  <2>1. \A f \in Entries : \A t \in ent'[f].interests : token_index_'[t] = f /\ request'[t] = "open"
    <3> SUFFICES ASSUME NEW f \in Entries, NEW t \in ent'[f].interests
                 PROVE  token_index_'[t] = f /\ request'[t] = "open"
      OBVIOUS
    <3>1. t \in Tokens /\ t \in ent[f].interests
      BY DEF TypeOK, GpuEntry
    <3>2. token_index_[t] = f /\ request[t] = "open" /\ \A p \in pending_completions_ : p[1] # t
      BY <3>1 DEF Books, TokensExact
    <3> QED  BY <1>1, <3>1, <3>2
  <2>2. \A t \in Tokens : t >= next_token_' => request'[t] = "none"
    BY <1>1 DEF Books, TokensExact
  <2> QED  BY <1>2, <2>1, <2>2 DEF TokensExact
<1>4. EveryOpenTracked'
  <2> SUFFICES ASSUME NEW t \in Tokens, request'[t] = "open"
               PROVE  \E f \in Entries : t \in ent'[f].interests /\ token_index_'[t] = f
    BY DEF EveryOpenTracked
  <2>1. /\ request[t] = "open"
        /\ <<t, "ok">> \notin pending_completions_ /\ <<t, "failed">> \notin pending_completions_
    BY <1>1
  <2>2. PICK f \in Entries : t \in ent[f].interests /\ token_index_[t] = f
    BY <2>1 DEF Books, EveryOpenTracked
  <2> QED  BY <2>2
<1> QED  BY <1>1, <1>3, <1>4 DEF Books

\* ensure_resident opens one request, which is answered, waited for, or fails
\* together with all that waited for the entry.
LEMMA BooksOpened ==
  ASSUME TypeOK, LifecycleAssumption, Books, NEW e \in Entries, ensure_resident(e)
  PROVE  Books' /\ ServiceStep
<1> DEFINE t == next_token_
<1>1. EnsureFrame(e)
  BY EnsureSplit
<1>2. /\ t \in Tokens /\ t \in Nat /\ next_token_' = t + 1
      /\ request' = [request EXCEPT ![t] = "open"]
      /\ request \in [Tokens -> {"none", "open", "ok", "failed", "cancelled"}]
      /\ token_index_ \in [Tokens -> Entries \cup {Unused}]
  BY <1>1, LifecycleAssumption DEF EnsureFrame, Tokens, LifecycleAssumption, TypeOK
<1>3. request[t] = "none"
  BY <1>2 DEF Books, TokensExact
<1>4. ServiceStep
  BY <1>2, <1>3 DEF ServiceStep, LS!Open
<1>5. request'[t] = "open" /\ \A x \in Tokens \ {t} : request'[x] = request[x]
  BY <1>2
<1>6. \A f \in Entries : t \notin ent[f].interests
  BY <1>3 DEF Books, TokensExact
<1>7. \A p \in pending_completions_ : p[1] # t /\ p[1] \in Tokens /\ request[p[1]] = "open"
                                      /\ \A f \in Entries : p[1] \notin ent[f].interests
  BY <1>3 DEF Books, TokensExact, TypeOK
<1>8. \A x \in Tokens : x >= next_token_' => request'[x] = "none"
  <2> SUFFICES ASSUME NEW x \in Tokens, x >= t + 1 PROVE request'[x] = "none"
    BY <1>2
  <2>1. x # t /\ x >= t
    BY <1>2 DEF Tokens
  <2> QED  BY <1>5, <2>1 DEF Books, TokensExact
<1>9. \A f \in Entries : \A x \in ent[f].interests :
         x \in Tokens /\ x # t /\ token_index_[x] = f /\ request[x] = "open"
  BY <1>6 DEF Books, TokensExact, TypeOK, GpuEntry
<1> HIDE DEF t
<1>10. ASSUME NEW how \in {"ok", "failed"}, Immediate(t, e, how) PROVE Books'
  <2>1. /\ pending_completions_' = pending_completions_ \cup {<<t, how>>}
        /\ token_index_' = [token_index_ EXCEPT ![t] = e]
        /\ ent' = ent
    BY <1>10 DEF Immediate
  <2>2. token_index_'[t] = e /\ \A x \in Tokens \ {t} : token_index_'[x] = token_index_[x]
    BY <1>2, <2>1
  <2>3. \A f \in Entries : \A x \in ent'[f].interests : token_index_'[x] = f /\ request'[x] = "open"
    BY <1>5, <1>9, <2>1, <2>2
  <2>4. \A p \in pending_completions_' :
           request'[p[1]] = "open" /\ \A f \in Entries : p[1] \notin ent'[f].interests
    BY <1>5, <1>6, <1>7, <2>1
  <2>5. TokensExact'
    BY <1>8, <2>3, <2>4 DEF TokensExact
  <2>6. ASSUME NEW x \in Tokens, request'[x] = "open"
        PROVE  \/ \E f \in Entries : x \in ent'[f].interests /\ token_index_'[x] = f
               \/ \E w \in {"ok", "failed"} : <<x, w>> \in pending_completions_'
    <3>1. CASE x = t
      BY <2>1, <3>1
    <3>2. CASE x # t
      <4>1. request[x] = "open" /\ token_index_'[x] = token_index_[x]
        BY <1>5, <2>2, <2>6, <3>2
      <4> QED  BY <2>1, <4>1 DEF Books, EveryOpenTracked
    <3> QED  BY <3>1, <3>2
  <2> QED  BY <2>5, <2>6 DEF Books, EveryOpenTracked
<1>11. ASSUME Interested(t, e), ent'[e].interests = ent[e].interests \cup {t}, SameInterests(e)
       PROVE  Books'
  <2>1. /\ pending_completions_' = pending_completions_
        /\ token_index_' = [token_index_ EXCEPT ![t] = e]
    BY <1>11 DEF Interested
  <2>2. token_index_'[t] = e /\ \A x \in Tokens \ {t} : token_index_'[x] = token_index_[x]
    BY <1>2, <2>1
  <2>3. \A f \in Entries : \A x \in ent'[f].interests : x \in ent[f].interests \/ (f = e /\ x = t)
    BY <1>11 DEF SameInterests
  <2>4. \A f \in Entries : \A x \in ent'[f].interests : token_index_'[x] = f /\ request'[x] = "open"
    BY <1>5, <1>9, <2>2, <2>3
  <2>5. \A p \in pending_completions_' :
           request'[p[1]] = "open" /\ \A f \in Entries : p[1] \notin ent'[f].interests
    BY <1>5, <1>7, <2>1, <2>3
  <2>6. TokensExact'
    BY <1>8, <2>4, <2>5 DEF TokensExact
  <2>7. ASSUME NEW x \in Tokens, request'[x] = "open"
        PROVE  \/ \E f \in Entries : x \in ent'[f].interests /\ token_index_'[x] = f
               \/ \E w \in {"ok", "failed"} : <<x, w>> \in pending_completions_'
    <3>1. CASE x = t
      BY <1>11, <2>2, <3>1
    <3>2. CASE x # t
      <4>1. request[x] = "open" /\ token_index_'[x] = token_index_[x]
        BY <1>5, <2>2, <2>7, <3>2
      <4>2. \A f \in Entries : ent[f].interests \subseteq ent'[f].interests
        BY <1>11 DEF SameInterests
      <4> QED  BY <2>1, <4>1, <4>2 DEF Books, EveryOpenTracked
    <3> QED  BY <3>1, <3>2
  <2> QED  BY <2>6, <2>7 DEF Books, EveryOpenTracked
<1>12. CASE EnsureAnswers(e)
  <2>1. Books'
    BY <1>10, <1>12 DEF EnsureAnswers, t
  <2> QED  BY <1>4, <2>1
<1>13. CASE EnsureJoins(e)
  <2>1. ent'[e].interests = ent[e].interests \cup {t} /\ SameInterests(e)
    BY <1>13 DEF EnsureJoins, Asked, TypeOK, SameInterests, GpuEntry, t
  <2> QED  BY <1>4, <1>11, <1>13, <2>1 DEF EnsureJoins, t
<1>14. CASE EnsureRestarts(e)
  <2> DEFINE v == [ent[e] EXCEPT !.interests = Asked(e)]
  <2>1. ent[e] \in GpuEntry /\ Asked(e) \in SUBSET Tokens /\ cache \in [Entries -> CacheEntry]
    BY <1>2 DEF TypeOK, GpuEntry, Asked, t
  <2>2. v \in GpuEntry /\ v.interests = Asked(e)
    BY <2>1, Values DEF GpuEntry
  <2>3. try_start_h2d(e, v, cache)
    BY <1>14 DEF EnsureRestarts
  <2> HIDE DEF v
  <2>4. PICK res, pin : Starts(e, v, cache, res, pin)
    BY <2>1, <2>2, <2>3, TryStartEffect
  <2>5. ent'[e].interests = ent[e].interests \cup {t} /\ SameInterests(e)
    BY <2>2, <2>4 DEF Starts, SameInterests, Asked, t
  <2> QED  BY <1>4, <1>11, <1>14, <2>5 DEF EnsureRestarts, t
<1>15. CASE EnsureWaits(e)
  <2>1. ent'[e].interests = ent[e].interests \cup {t} /\ SameInterests(e)
    BY <1>15 DEF EnsureWaits, Asked, TypeOK, SameInterests, NoEntry, t
  <2> QED  BY <1>4, <1>11, <1>15, <2>1 DEF EnsureWaits, t
<1>16. CASE EnsureReserves(e)
  <2> DEFINE v == [NoEntry EXCEPT !.tier = "reserved", !.interests = Asked(e)]
  <2>1. PICK s \in FreeSlots(e[2]) :
          /\ cache' = [cache EXCEPT ![e] = [NotCached EXCEPT !.slot = s]]
          /\ try_start_h2d(e, v, cache')
    BY <1>16 DEF EnsureReserves, ReserveAndStart
  <2>2. cache' \in [Entries -> CacheEntry]
    BY <2>1, Values DEF TypeOK, FreeSlots
  <2>3. Asked(e) \in SUBSET Tokens
    BY <1>2 DEF TypeOK, GpuEntry, Asked, t
  <2>4. v \in GpuEntry /\ v.interests = Asked(e)
    BY <2>3, Values DEF NoEntry
  <2> HIDE DEF v
  <2>5. PICK res, pin : Starts(e, v, cache', res, pin)
    BY <2>1, <2>2, <2>4, TryStartEffect
  <2>6. ent'[e].interests = ent[e].interests \cup {t} /\ SameInterests(e)
    BY <2>4, <2>5 DEF Starts, SameInterests, Asked, t
  <2> QED  BY <1>4, <1>11, <1>16, <2>6 DEF EnsureReserves, t
<1>17. CASE EnsureFails(e)
  <2> DEFINE T == ent[e].interests \cup {t}
  <2>1. /\ pending_completions_' = pending_completions_ \cup {<<x, "failed">> : x \in T}
        /\ \A x \in Tokens : token_index_'[x] = IF x \in T THEN Unused ELSE token_index_[x]
        /\ ent' = [ent EXCEPT ![e] = NoEntry]
    BY <1>17 DEF EnsureFails, Asked, Forget, t
  <2>2. ent'[e].interests = {} /\ SameInterests(e)
    BY <2>1 DEF TypeOK, NoEntry, SameInterests
  <2>3. \A f \in Entries : \A x \in ent'[f].interests : x \in ent[f].interests /\ x \notin T
    BY <1>6, <1>9, <2>2 DEF SameInterests
  <2>4. T \subseteq Tokens /\ \A x \in T : request'[x] = "open"
    BY <1>2, <1>5, <1>9
  <2>5. \A f \in Entries : \A x \in ent'[f].interests : token_index_'[x] = f /\ request'[x] = "open"
    BY <1>5, <1>9, <2>1, <2>3
  <2>6. \A p \in pending_completions_' :
           request'[p[1]] = "open" /\ \A f \in Entries : p[1] \notin ent'[f].interests
    <3> SUFFICES ASSUME NEW p \in pending_completions_'
                 PROVE  request'[p[1]] = "open" /\ \A f \in Entries : p[1] \notin ent'[f].interests
      OBVIOUS
    <3>1. CASE p \in pending_completions_
      BY <1>5, <1>7, <2>3, <3>1
    <3>2. CASE p \notin pending_completions_
      <4>1. p[1] \in T
        BY <2>1, <3>2
      <4> QED  BY <2>3, <2>4, <4>1
    <3> QED  BY <3>1, <3>2
  <2>7. TokensExact'
    BY <1>8, <2>5, <2>6 DEF TokensExact
  <2>8. ASSUME NEW x \in Tokens, request'[x] = "open"
        PROVE  \/ \E f \in Entries : x \in ent'[f].interests /\ token_index_'[x] = f
               \/ \E w \in {"ok", "failed"} : <<x, w>> \in pending_completions_'
    <3>1. CASE x \in T
      BY <2>1, <3>1
    <3>2. CASE x \notin T
      <4>1. request[x] = "open" /\ token_index_'[x] = token_index_[x]
        BY <1>5, <2>1, <2>8, <3>2
      <4>2. \A f \in Entries : x \in ent[f].interests => x \in ent'[f].interests
        BY <2>2, <3>2 DEF SameInterests
      <4> QED  BY <2>1, <4>1, <4>2 DEF Books, EveryOpenTracked
    <3> QED  BY <3>1, <3>2
  <2>9. Books'
    BY <2>7, <2>8 DEF Books, EveryOpenTracked
  <2> QED  BY <1>4, <2>9
<1> QED  BY <1>12, <1>13, <1>14, <1>15, <1>16, <1>17, EnsureSplit

\* cancel takes one token out of the books.
LEMMA BooksCancelled ==
  ASSUME TypeOK, Books, NEW t \in Tokens, cancel(t)
  PROVE  Books' /\ ServiceStep
<1> DEFINE e == token_index_[t]
<1>1. e \in Entries
  BY DEF cancel, TypeOK
<1>2. /\ token_index_' = [token_index_ EXCEPT ![t] = Unused]
      /\ pending_completions_' = {p \in pending_completions_ : p[1] # t}
      /\ request' = [request EXCEPT ![t] = IF @ = "open" THEN "cancelled" ELSE @]
      /\ next_token_' = next_token_
  BY DEF cancel
<1>3. /\ request \in [Tokens -> {"none", "open", "ok", "failed", "cancelled"}]
      /\ token_index_ \in [Tokens -> Entries \cup {Unused}]
  BY DEF TypeOK
<1>4. ent'[e].interests = ent[e].interests \ {t} /\ SameInterests(e)
  <2>1. CASE ent[e].interests \subseteq {t}
    <3>1. EntryReverted(e)
      BY <1>1, <2>1, RevertEffect DEF cancel
    <3> QED  BY <2>1, <3>1 DEF EntryReverted, NoEntry, SameInterests
  <2>2. CASE ~(ent[e].interests \subseteq {t})
    <3>1. ent' = [ent EXCEPT ![e].interests = @ \ {t}]
      BY <2>2 DEF cancel
    <3> QED  BY <1>1, <3>1 DEF TypeOK, GpuEntry, SameInterests
  <2> QED  BY <2>1, <2>2
<1>5. ServiceStep
  <2>1. CASE request[t] = "open"
    <3>1. {t} \in SUBSET {x \in Tokens : request[x] = "open"}
      BY <2>1
    <3> DEFINE h == [x \in {t} |-> "cancelled"]
    <3>2. h \in [{t} -> LS!Closed]
      BY DEF LS!Closed
    <3>3. request' = [x \in Tokens |-> IF x \in {t} THEN h[x] ELSE request[x]]
      BY <1>2, <1>3, <2>1
    <3> HIDE DEF h
    <3>4. LS!Close
      BY <3>1, <3>2, <3>3 DEF LS!Close
    <3> QED  BY <3>4 DEF ServiceStep
  <2>2. CASE request[t] # "open"
    <3>1. request' = request
      BY <1>2, <1>3, <2>2
    <3> QED  BY <3>1 DEF ServiceStep
  <2> QED  BY <2>1, <2>2
<1>6. /\ request'[t] # "open" /\ (request[t] = "none" => request'[t] = "none")
      /\ \A x \in Tokens \ {t} : request'[x] = request[x] /\ token_index_'[x] = token_index_[x]
  BY <1>2, <1>3
<1>7. \A f \in Entries : \A x \in ent'[f].interests : x \in Tokens /\ x # t /\ x \in ent[f].interests
  <2> SUFFICES ASSUME NEW f \in Entries, NEW x \in ent'[f].interests
               PROVE  x \in Tokens /\ x # t /\ x \in ent[f].interests
    OBVIOUS
  <2>1. x \in ent[f].interests /\ (f = e => x # t)
    BY <1>4 DEF SameInterests
  <2>2. x \in Tokens
    BY <2>1 DEF TypeOK, GpuEntry
  <2>3. token_index_[x] = f
    BY <2>1 DEF Books, TokensExact
  <2> QED  BY <2>1, <2>2, <2>3
<1> HIDE DEF e
<1>8. TokensExact'
  <2>1. \A f \in Entries : \A x \in ent'[f].interests : token_index_'[x] = f /\ request'[x] = "open"
    BY <1>6, <1>7 DEF Books, TokensExact
  <2>2. \A p \in pending_completions_' :
           request'[p[1]] = "open" /\ \A f \in Entries : p[1] \notin ent'[f].interests
    <3> SUFFICES ASSUME NEW p \in pending_completions_'
                 PROVE  request'[p[1]] = "open" /\ \A f \in Entries : p[1] \notin ent'[f].interests
      OBVIOUS
    <3>1. p \in pending_completions_ /\ p[1] # t /\ p[1] \in Tokens
      BY <1>2 DEF TypeOK
    <3> QED  BY <1>6, <1>7, <3>1 DEF Books, TokensExact
  <2>3. \A x \in Tokens : x >= next_token_' => request'[x] = "none"
    BY <1>2, <1>6 DEF Books, TokensExact
  <2> QED  BY <2>1, <2>2, <2>3 DEF TokensExact
<1>9. ASSUME NEW x \in Tokens, request'[x] = "open"
      PROVE  \/ \E f \in Entries : x \in ent'[f].interests /\ token_index_'[x] = f
             \/ \E w \in {"ok", "failed"} : <<x, w>> \in pending_completions_'
  <2>1. x # t /\ request[x] = "open" /\ token_index_'[x] = token_index_[x]
    BY <1>6, <1>9
  <2>2. \A f \in Entries : x \in ent[f].interests => x \in ent'[f].interests
    BY <1>4, <2>1 DEF SameInterests
  <2> QED  BY <1>2, <2>1, <2>2 DEF Books, EveryOpenTracked
<1> QED  BY <1>5, <1>8, <1>9 DEF Books, EveryOpenTracked

\* Nobody waits for an entry that is HOT or DRAINING.
Unawaited == \A e \in Entries : ent[e].tier \in {"hot", "draining"} => ent[e].interests = {}

LEMMA UnawaitedStep ==
  ASSUME TypeOK, StreamsOwn, LifecycleAssumption, Unawaited, Next
  PROVE  Unawaited'
<1> USE DEF elmVars, tokenVars, copyVars
<1>1. ASSUME NEW e \in Entries, \A f \in Entries \ {e} : ent'[f] = ent[f],
             ent'[e].tier \in {"hot", "draining"} => ent'[e].interests = {}
      PROVE  Unawaited'
  BY <1>1 DEF Unawaited
<1>2. CASE ent' = ent
  BY <1>2 DEF Unawaited
<1>3. ASSUME NEW e \in Entries, NEW u, ent' = [ent EXCEPT ![e] = u],
             u.tier \in {"hot", "draining"} => u.interests = {}
      PROVE  Unawaited'
  BY <1>1, <1>3 DEF TypeOK
<1>4. NoEntry.tier = "absent" /\ [NoEntry EXCEPT !.tier = "hot"].interests = {}
  BY DEF NoEntry
<1>5. ASSUME NEW e \in Entries, revert_gpu_entry(e) PROVE Unawaited'
  BY <1>3, <1>4, <1>5 DEF revert_gpu_entry
<1>6. ASSUME NEW e \in Entries, NEW v \in GpuEntry, NEW c \in [Entries -> CacheEntry],
             v.tier = "reserved", try_start_h2d(e, v, c)
      PROVE  Unawaited'
  <2>1. PICK res, pin : Starts(e, v, c, res, pin)
    BY <1>6, TryStartEffect
  <2>2. ent'[e].tier \in {"reserved", "transferring"}
    BY <1>6, <2>1 DEF Starts
  <2> QED  BY <1>1, <2>1, <2>2 DEF Starts
<1>7. ASSUME NEW e \in Entries, NEW T \in SUBSET Tokens, ReserveAndStart(e, T) PROVE Unawaited'
  <2> DEFINE v == [NoEntry EXCEPT !.tier = "reserved", !.interests = T]
  <2>1. PICK s \in FreeSlots(e[2]) :
          /\ cache' = [cache EXCEPT ![e] = [NotCached EXCEPT !.slot = s]]
          /\ try_start_h2d(e, v, cache')
    BY <1>7 DEF ReserveAndStart
  <2>2. cache' \in [Entries -> CacheEntry]
    BY <2>1, Values DEF TypeOK, FreeSlots
  <2>3. v \in GpuEntry /\ v.tier = "reserved"
    BY Values DEF NoEntry
  <2> HIDE DEF v
  <2> QED  BY <1>6, <2>1, <2>2, <2>3
<1>8. CASE poll_continues
  <2>1. todo # <<>> /\ todo \in Seq(Work)
    BY <1>8, LoopSplit DEF TypeOK
  <2>2. Head(todo) \in Work
    BY <2>1, TailListed
  <2>3. Current \in Entries
    BY <2>2 DEF Current, Work, Entries
  <2>4. cache \in [Entries -> CacheEntry] /\ ent[Current] \in GpuEntry
        /\ ent[Current].interests \in SUBSET Tokens
    BY <2>3 DEF TypeOK, GpuEntry
  <2>5. CASE LoopFails
    BY <1>5, <2>3, <2>5 DEF LoopFails, FailEntry
  <2>6. CASE LoopReserves
    BY <1>7, <2>3, <2>4, <2>6 DEF LoopReserves
  <2>7. CASE LoopStarts
    BY <1>6, <2>3, <2>4, <2>7 DEF LoopStarts
  <2>8. CASE LoopSkips
    BY <1>2, <2>8 DEF LoopSkips
  <2> QED  BY <1>8, <2>5, <2>6, <2>7, <2>8, LoopSplit
<1>9. ASSUME NEW e \in Entries, ensure_resident(e) PROVE Unawaited'
  <2>1. /\ ent[e] \in GpuEntry /\ Asked(e) \in SUBSET Tokens /\ cache \in [Entries -> CacheEntry]
    <3>1. next_token_ \in Tokens
      BY <1>9, EnsureSplit DEF EnsureFrame
    <3> QED  BY <3>1 DEF TypeOK, GpuEntry, Asked
  <2>2. [ent[e] EXCEPT !.interests = Asked(e)] \in GpuEntry
    BY <2>1, Values
  <2>3. [ent[e] EXCEPT !.interests = Asked(e)].tier = ent[e].tier
    BY <2>1 DEF GpuEntry
  <2>4. [NoEntry EXCEPT !.interests = Asked(e)].tier = "absent"
    BY DEF NoEntry
  <2>5. CASE EnsureAnswers(e)
    BY <1>2, <2>5 DEF EnsureAnswers, Immediate
  <2>6. CASE EnsureJoins(e)
    BY <1>3, <2>3, <2>6 DEF EnsureJoins
  <2>7. CASE EnsureRestarts(e)
    BY <1>6, <2>1, <2>2, <2>3, <2>7 DEF EnsureRestarts
  <2>8. CASE EnsureWaits(e)
    BY <1>3, <2>4, <2>8 DEF EnsureWaits
  <2>9. CASE EnsureReserves(e)
    BY <1>7, <2>1, <2>9 DEF EnsureReserves
  <2>10. CASE EnsureFails(e)
    BY <1>3, <1>4, <2>10 DEF EnsureFails
  <2> QED  BY <1>9, <2>5, <2>6, <2>7, <2>8, <2>9, <2>10, EnsureSplit
<1>10. CASE Client
  <2>1. ASSUME NEW t \in Tokens, cancel(t) PROVE Unawaited'
    <3> DEFINE e == token_index_[t]
    <3>1. e \in Entries
      BY <2>1 DEF cancel, TypeOK
    <3>2. CASE revert_gpu_entry(e)
      BY <1>5, <3>1, <3>2
    <3>3. CASE ent' = [ent EXCEPT ![e].interests = @ \ {t}]
      <4>1. ent[e] \in GpuEntry
        BY <3>1 DEF TypeOK
      <4>2. [ent[e] EXCEPT !.interests = @ \ {t}].interests = ent[e].interests \ {t}
            /\ [ent[e] EXCEPT !.interests = @ \ {t}].tier = ent[e].tier
        BY <4>1 DEF GpuEntry
      <4> QED  BY <1>3, <3>1, <3>3, <4>2 DEF Unawaited
    <3> QED  BY <2>1, <3>2, <3>3 DEF cancel
  <2>2. ASSUME NEW e \in Entries, request_evict(e) PROVE Unawaited'
    BY <1>3, <1>4, <2>2 DEF request_evict
  <2>3. ASSUME NEW e \in Entries, request_drain(e) PROVE Unawaited'
    <3>1. ent[e] \in GpuEntry
      BY DEF TypeOK
    <3>2. [ent[e] EXCEPT !.tier = "draining"].interests = ent[e].interests
      BY <3>1 DEF GpuEntry
    <3> QED  BY <1>3, <2>3, <3>2 DEF request_drain
  <2>4. ASSUME NEW e \in Entries,
               \/ lock(e) \/ unlock(e) \/ handle_cache_evict(e) \/ handle_cache_reserve(e)
               \/ handle_transfer_h2d(e) \/ handle_cancel_transfer(e)
        PROVE  ent' = ent
    BY <2>4 DEF lock, unlock, handle_cache_evict, handle_cache_reserve, handle_transfer_h2d,
                handle_cancel_transfer
  <2>5. ASSUME NEW k \in Keys, handle_nvme_write(k) \/ cancel_nvme_write(k) PROVE ent' = ent
    BY <2>5 DEF handle_nvme_write, cancel_nvme_write
  <2> QED  BY <1>2, <1>9, <1>10, <2>1, <2>2, <2>3, <2>4, <2>5 DEF Client
<1>11. CASE flush_staged
  BY <1>2, <1>11 DEF flush_staged
<1>12. CASE Poll
  <2>1. CASE poll_nothing
    BY <1>2, <2>1 DEF poll_nothing
  <2>2. ASSUME NEW k \in Keys, NEW ok \in BOOLEAN, poll_arena(k, ok) \/ poll_nvme(k, ok)
        PROVE  ent' = ent
    BY <2>2 DEF poll_arena, poll_nvme
  <2>3. ASSUME NEW d \in drains, NEW ok \in BOOLEAN, poll_d2h(d, ok) PROVE Unawaited'
    <3>1. <<d.key, d.gpu>> \in Entries
      BY DEF TypeOK, Drain, Entries
    <3>2. ent' = ent \/ ent' = [ent EXCEPT ![<<d.key, d.gpu>>] = NoEntry]
      BY <2>3, Zenon DEF poll_d2h
    <3> QED  BY <1>2, <1>3, <1>4, <3>1, <3>2
  <2>4. ASSUME NEW g \in Gpus, NEW ok \in BOOLEAN, poll_h2d(g, ok) PROVE Unawaited'
    <3> DEFINE e == HeadEntry(g)
    <3>1. e \in Entries
      BY <2>4, CopySplit
    <3>2. \/ ent' = [ent EXCEPT ![e] = [NoEntry EXCEPT !.tier = "hot"]]
          \/ ent' = [ent EXCEPT ![e] = NoEntry]
          \/ ent' = ent
      <4>1. CASE CopySucceeds(g)
        BY <4>1, Zenon DEF CopySucceeds
      <4>2. CASE CopyFails(g)
        BY <4>2, Zenon DEF CopyFails
      <4>3. CASE CopyIgnored(g, ok)
        BY <4>3, Zenon DEF CopyIgnored
      <4> QED  BY <2>4, <4>1, <4>2, <4>3, CopySplit
    <3> HIDE DEF e
    <3> QED  BY <1>2, <1>3, <1>4, <3>1, <3>2
  <2> QED  BY <1>2, <1>12, <2>1, <2>2, <2>3, <2>4 DEF Poll
<1> QED  BY <1>8, <1>10, <1>11, <1>12 DEF Next

\* The books are kept by every step, and every step is one of the service.
LEMMA BooksStep ==
  ASSUME TypeOK, StreamsOwn, LifecycleAssumption, Unawaited, Books, Next
  PROVE  Books' /\ ServiceStep
<1> USE DEF elmVars, copyVars
<1>1. CASE poll_continues
  <2>1. todo # <<>> /\ todo \in Seq(Work)
    BY <1>1, LoopSplit DEF TypeOK
  <2>2. Head(todo) \in Work
    BY <2>1, TailListed
  <2>3. Current \in Entries
    BY <2>2 DEF Current, Work, Entries
  <2>4. cache \in [Entries -> CacheEntry] /\ ent[Current] \in GpuEntry
        /\ ent[Current].interests \in SUBSET Tokens
    BY <2>3 DEF TypeOK, GpuEntry
  <2>5. CASE LoopFails
    <3>1. /\ Deliver(ent[Current].interests, "failed") /\ Forget(ent[Current].interests)
          /\ revert_gpu_entry(Current) /\ UNCHANGED next_token_
      BY <2>5 DEF LoopFails, FailEntry
    <3>2. ent'[Current].interests = {} /\ SameInterests(Current)
      BY <2>3, <3>1, RevertEffect DEF EntryReverted, NoEntry, SameInterests
    <3> QED  BY <2>3, <3>1, <3>2, BooksClosed
  <2>6. CASE LoopReserves
    <3> DEFINE v == [NoEntry EXCEPT !.tier = "reserved", !.interests = ent[Current].interests]
    <3>1. PICK s \in FreeSlots(Current[2]) :
            /\ cache' = [cache EXCEPT ![Current] = [NotCached EXCEPT !.slot = s]]
            /\ try_start_h2d(Current, v, cache')
      BY <2>6 DEF LoopReserves, ReserveAndStart
    <3>2. cache' \in [Entries -> CacheEntry]
      BY <2>3, <3>1, Values DEF TypeOK, FreeSlots
    <3>3. v \in GpuEntry /\ v.interests = ent[Current].interests
      BY <2>4, Values DEF NoEntry
    <3> HIDE DEF v
    <3>4. PICK res, pin : Starts(Current, v, cache', res, pin)
      BY <2>3, <3>1, <3>2, <3>3, TryStartEffect
    <3>5. \A f \in Entries : ent'[f].interests = ent[f].interests
      BY <3>3, <3>4 DEF Starts
    <3> QED  BY <2>6, <3>5, BooksKept DEF LoopReserves
  <2>7. CASE LoopStarts
    <3>1. PICK res, pin : Starts(Current, ent[Current], cache, res, pin)
      BY <2>3, <2>4, <2>7, TryStartEffect DEF LoopStarts
    <3>2. \A f \in Entries : ent'[f].interests = ent[f].interests
      BY <3>1 DEF Starts
    <3> QED  BY <2>7, <3>2, BooksKept DEF LoopStarts
  <2>8. CASE LoopSkips
    BY <2>8, BooksKept DEF LoopSkips
  <2> QED  BY <1>1, <2>5, <2>6, <2>7, <2>8, LoopSplit
<1>2. CASE Client
  <2>1. ASSUME NEW e \in Entries, ensure_resident(e) PROVE Books' /\ ServiceStep
    BY <2>1, BooksOpened
  <2>2. ASSUME NEW t \in Tokens, cancel(t) PROVE Books' /\ ServiceStep
    BY <2>2, BooksCancelled
  <2>3. ASSUME NEW e \in Entries, request_evict(e) PROVE Books' /\ ServiceStep
    <3>1. \A f \in Entries : ent'[f].interests = ent[f].interests
      BY <2>3 DEF request_evict, TypeOK, NoEntry
    <3> QED  BY <2>3, <3>1, BooksKept DEF request_evict
  <2>4. ASSUME NEW e \in Entries, request_drain(e) PROVE Books' /\ ServiceStep
    <3>1. \A f \in Entries : ent'[f].interests = ent[f].interests
      BY <2>4 DEF request_drain, TypeOK, GpuEntry
    <3> QED  BY <2>4, <3>1, BooksKept DEF request_drain
  <2>5. ASSUME NEW e \in Entries,
               \/ lock(e) \/ unlock(e) \/ handle_cache_evict(e) \/ handle_cache_reserve(e)
               \/ handle_transfer_h2d(e) \/ handle_cancel_transfer(e)
        PROVE  Books' /\ ServiceStep
    <3>1. UNCHANGED tokenVars /\ ent' = ent
      BY <2>5 DEF lock, unlock, handle_cache_evict, handle_cache_reserve, handle_transfer_h2d,
                  handle_cancel_transfer
    <3> QED  BY <3>1, BooksKept
  <2>6. ASSUME NEW k \in Keys, handle_nvme_write(k) \/ cancel_nvme_write(k)
        PROVE  Books' /\ ServiceStep
    <3>1. UNCHANGED tokenVars /\ ent' = ent
      BY <2>6 DEF handle_nvme_write, cancel_nvme_write
    <3> QED  BY <3>1, BooksKept
  <2> QED  BY <1>2, <2>1, <2>2, <2>3, <2>4, <2>5, <2>6 DEF Client
<1>3. CASE flush_staged
  BY <1>3, BooksKept DEF flush_staged
<1>4. CASE Poll
  <2>1. CASE poll_nothing
    BY <2>1, BooksFlushed DEF poll_nothing
  <2>2. ASSUME NEW k \in Keys, NEW ok \in BOOLEAN, poll_arena(k, ok) \/ poll_nvme(k, ok)
        PROVE  Books' /\ ServiceStep
    BY <2>2, BooksFlushed DEF poll_arena, poll_nvme
  <2>3. ASSUME NEW d \in drains, NEW ok \in BOOLEAN, poll_d2h(d, ok) PROVE Books' /\ ServiceStep
    <3> DEFINE e == <<d.key, d.gpu>>
    <3>1. e \in Entries
      BY DEF TypeOK, Drain, Entries
    <3>2. Deliver({}, "ok") /\ UNCHANGED <<token_index_, next_token_>>
      BY <2>3 DEF poll_d2h
    <3>3. CASE ent' = ent
      BY <3>2, <3>3, BooksFlushed
    <3>4. CASE ent' # ent
      <4>1. ent[e].tier = "draining" /\ ent' = [ent EXCEPT ![e] = NoEntry]
        BY <2>3, <3>4, Zenon DEF poll_d2h
      <4>2. ent[e].interests = {}
        BY <3>1, <4>1 DEF Unawaited
      <4>3. \A f \in Entries : ent'[f].interests = ent[f].interests
        BY <3>1, <4>1, <4>2 DEF TypeOK, NoEntry
      <4> QED  BY <3>2, <4>3, BooksFlushed
    <3> QED  BY <3>3, <3>4
  <2>4. ASSUME NEW g \in Gpus, NEW ok \in BOOLEAN, poll_h2d(g, ok) PROVE Books' /\ ServiceStep
    <3> DEFINE e == HeadEntry(g)
    <3>1. e \in Entries /\ CopyFrame(g, ok)
      BY <2>4, CopySplit
    <3>2. UNCHANGED next_token_
      BY <3>1 DEF CopyFrame
    <3>3. CASE CopySucceeds(g)
      <4>1. /\ Forget(ent[e].interests) /\ Deliver(ent[e].interests, "ok")
            /\ ent' = [ent EXCEPT ![e] = [NoEntry EXCEPT !.tier = "hot"]]
        BY <3>3, Zenon DEF CopySucceeds
      <4> HIDE DEF e
      <4>2. ent'[e].interests = {} /\ SameInterests(e)
        BY <3>1, <4>1 DEF TypeOK, NoEntry, SameInterests
      <4> QED  BY <3>1, <3>2, <4>1, <4>2, BooksClosed
    <3>4. CASE CopyFails(g)
      <4>1. /\ Forget(ent[e].interests) /\ Deliver(ent[e].interests, "failed")
            /\ ent' = [ent EXCEPT ![e] = NoEntry]
        BY <3>4, Zenon DEF CopyFails
      <4> HIDE DEF e
      <4>2. ent'[e].interests = {} /\ SameInterests(e)
        BY <3>1, <4>1 DEF TypeOK, NoEntry, SameInterests
      <4> QED  BY <3>1, <3>2, <4>1, <4>2, BooksClosed
    <3>5. CASE CopyIgnored(g, ok)
      <4>1. Deliver({}, "ok") /\ UNCHANGED <<ent, token_index_>>
        BY <3>5, Zenon DEF CopyIgnored
      <4> QED  BY <3>2, <4>1, BooksFlushed
    <3> QED  BY <2>4, <3>3, <3>4, <3>5, CopySplit
  <2> QED  BY <1>4, <2>1, <2>2, <2>3, <2>4 DEF Poll
<1> QED  BY <1>1, <1>2, <1>3, <1>4 DEF Next

\* The books are right in every state, and the manager is the service it
\* promises to be.
LEMMA BooksHold == ASSUME LifecycleAssumption PROVE Spec => [](Unawaited /\ Books) /\ Service
<1>1. Init => Unawaited /\ Books /\ LS!Init
  <2> SUFFICES ASSUME Init PROVE Unawaited /\ Books /\ LS!Init
    OBVIOUS
  <2>1. \A e \in Entries : ent[e].interests = {} /\ ent[e].tier = "absent"
    BY DEF Init, NoEntry
  <2>2. \A t \in Tokens : request[t] = "none"
    BY DEF Init
  <2>3. pending_completions_ = {}
    BY DEF Init
  <2> QED  BY <2>1, <2>2, <2>3 DEF Unawaited, Books, TokensExact, EveryOpenTracked, LS!Init, Init
<1>2. TypeOK /\ StreamsOwn /\ Unawaited /\ Books /\ [Next]_vars
      => (Unawaited /\ Books)' /\ [LS!Open \/ LS!Close]_request
  <2> SUFFICES ASSUME TypeOK, StreamsOwn, Unawaited, Books, [Next]_vars
               PROVE  Unawaited' /\ Books' /\ [LS!Open \/ LS!Close]_request
    OBVIOUS
  <2>1. CASE Next
    BY <2>1, UnawaitedStep, BooksStep DEF ServiceStep
  <2>2. CASE UNCHANGED vars
    BY <2>2 DEF vars, state, tokenVars, Unawaited, Books, TokensExact, EveryOpenTracked
  <2> QED  BY <2>1, <2>2
<1> QED  BY <1>1, <1>2, TypesHold, PTL DEF Spec, Service, LS!Spec

\* Every request is answered once or cancelled, whatever the clients do: the
\* manager implements LifecycleService (ensure_resident opens, poll and cancel
\* close).
THEOREM ManagerIsService == ASSUME LifecycleAssumption PROVE Spec => Service
  BY BooksHold, PTL

-------------------------------------------------------------------------------
(* The arena slots that copies read from.                                  *)

\* The reference an entry keeps while its copy runs keeps the slot's expert.
LEMMA PinsStep ==
  ASSUME TypeOK, StreamsOwn, LifecycleAssumption, PinsHold, Next
  PROVE  PinsHold'
<1> USE DEF elmVars, tokenVars, copyVars
<1> DEFINE NoNewPin == \A f \in Entries : ent'[f].pin = "yes" => ent[f].pin = "yes"
<1>1. ASSUME arena' = arena, NoNewPin PROVE PinsHold'
  BY <1>1 DEF PinsHold
<1>2. ASSUME NEW k \in Keys, NEW res, NEW pin, Resolved(k, res, pin),
             \A f \in Entries : ent'[f].pin = "yes" => ent[f].pin = "yes" \/ (f[1] = k /\ pin = "yes")
      PROVE  PinsHold'
  <2> SUFFICES ASSUME NEW f \in Entries, ent'[f].pin = "yes" PROVE arena'[f[1]] = "ready"
    BY DEF PinsHold
  <2>1. CASE f[1] = k /\ pin = "yes"
    BY <1>2, <2>1 DEF Resolved
  <2>2. CASE ent[f].pin = "yes"
    <3>1. arena[f[1]] = "ready" /\ f[1] \in Keys /\ f[2] \in Gpus /\ f = <<f[1], f[2]>>
      BY <2>2 DEF PinsHold, Entries
    <3>2. Pinned(f[1])
      BY <2>2, <3>1 DEF Pinned
    <3> QED  BY <1>2, <3>1, <3>2 DEF Resolved
  <2> QED  BY <1>2, <2>1, <2>2
<1>3. ASSUME NEW e \in Entries, NEW u, ent' = [ent EXCEPT ![e] = u],
             u.pin = "yes" => ent[e].pin = "yes"
      PROVE  NoNewPin
  BY <1>3 DEF TypeOK
<1>4. ASSUME NEW e \in Entries, NEW v \in GpuEntry, NEW c \in [Entries -> CacheEntry],
             v.pin = "yes" => ent[e].pin = "yes", try_start_h2d(e, v, c)
      PROVE  PinsHold'
  <2>1. PICK res, pin : Starts(e, v, c, res, pin)
    BY <1>4, TryStartEffect
  <2>2. e[1] \in Keys
    BY DEF Entries
  <2>3. \A f \in Entries : ent'[f].pin = "yes" => ent[f].pin = "yes" \/ (f[1] = e[1] /\ pin = "yes")
    BY <1>4, <2>1 DEF Starts
  <2>4. Resolved(e[1], res, pin)
    BY <2>1 DEF Starts
  <2> QED  BY <1>2, <2>2, <2>3, <2>4
<1>5. ASSUME NEW e \in Entries, NEW T \in SUBSET Tokens, ReserveAndStart(e, T) PROVE PinsHold'
  <2> DEFINE v == [NoEntry EXCEPT !.tier = "reserved", !.interests = T]
  <2>1. PICK s \in FreeSlots(e[2]) :
          /\ cache' = [cache EXCEPT ![e] = [NotCached EXCEPT !.slot = s]]
          /\ try_start_h2d(e, v, cache')
    BY <1>5 DEF ReserveAndStart
  <2>2. cache' \in [Entries -> CacheEntry]
    BY <2>1, Values DEF TypeOK, FreeSlots
  <2>3. v \in GpuEntry /\ v.pin = "no"
    BY Values DEF NoEntry
  <2> HIDE DEF v
  <2> QED  BY <1>4, <2>1, <2>2, <2>3
<1>6. /\ NoEntry.pin = "no" /\ [NoEntry EXCEPT !.tier = "hot"].pin = "no"
      /\ \A T : [NoEntry EXCEPT !.interests = T].pin = "no"
  BY DEF NoEntry
<1>7. \A v \in GpuEntry : /\ \A T : [v EXCEPT !.interests = T].pin = v.pin
                          /\ [v EXCEPT !.tier = "draining"].pin = v.pin
  BY DEF GpuEntry
<1> HIDE DEF NoNewPin
<1>8. ASSUME NEW e \in Entries, revert_gpu_entry(e) PROVE NoNewPin
  BY <1>3, <1>6, <1>8 DEF revert_gpu_entry
<1>9. ent' = ent => NoNewPin
  BY DEF NoNewPin
<1>10. CASE poll_continues
  <2>1. todo # <<>> /\ todo \in Seq(Work)
    BY <1>10, LoopSplit DEF TypeOK
  <2>2. Head(todo) \in Work
    BY <2>1, TailListed
  <2>3. Current \in Entries
    BY <2>2 DEF Current, Work, Entries
  <2>4. cache \in [Entries -> CacheEntry] /\ ent[Current] \in GpuEntry
        /\ ent[Current].interests \in SUBSET Tokens
    BY <2>3 DEF TypeOK, GpuEntry
  <2>5. CASE LoopFails
    BY <1>1, <1>8, <2>3, <2>5 DEF LoopFails, FailEntry
  <2>6. CASE LoopReserves
    BY <1>5, <2>3, <2>4, <2>6 DEF LoopReserves
  <2>7. CASE LoopStarts
    BY <1>4, <2>3, <2>4, <2>7 DEF LoopStarts
  <2>8. CASE LoopSkips
    BY <1>1, <1>9, <2>8 DEF LoopSkips, NoStart
  <2> QED  BY <1>10, <2>5, <2>6, <2>7, <2>8, LoopSplit
<1>11. ASSUME NEW e \in Entries, ensure_resident(e) PROVE PinsHold'
  <2>1. ent[e] \in GpuEntry /\ Asked(e) \in SUBSET Tokens /\ cache \in [Entries -> CacheEntry]
    <3>1. next_token_ \in Tokens
      BY <1>11, EnsureSplit DEF EnsureFrame
    <3> QED  BY <3>1 DEF TypeOK, GpuEntry, Asked
  <2>2. [ent[e] EXCEPT !.interests = Asked(e)] \in GpuEntry
    BY <2>1, Values
  <2>3. [ent[e] EXCEPT !.interests = Asked(e)].pin = ent[e].pin
    BY <1>7, <2>1
  <2>4. CASE EnsureAnswers(e)
    BY <1>1, <1>9, <2>4 DEF EnsureAnswers, Immediate, NoStart
  <2>5. CASE EnsureJoins(e)
    <3>1. NoNewPin
      BY <1>3, <2>3, <2>5 DEF EnsureJoins
    <3> QED  BY <1>1, <2>5, <3>1 DEF EnsureJoins, NoStart
  <2>6. CASE EnsureRestarts(e)
    BY <1>4, <2>1, <2>2, <2>3, <2>6 DEF EnsureRestarts
  <2>7. CASE EnsureWaits(e)
    <3>1. NoNewPin
      BY <1>3, <1>6, <2>7 DEF EnsureWaits
    <3> QED  BY <1>1, <2>7, <3>1 DEF EnsureWaits, NoStart
  <2>8. CASE EnsureReserves(e)
    BY <1>5, <2>1, <2>8 DEF EnsureReserves
  <2>9. CASE EnsureFails(e)
    <3>1. NoNewPin
      BY <1>3, <1>6, <2>9 DEF EnsureFails
    <3> QED  BY <1>1, <2>9, <3>1 DEF EnsureFails, NoStart
  <2> QED  BY <1>11, <2>4, <2>5, <2>6, <2>7, <2>8, <2>9, EnsureSplit
<1>12. CASE Client
  <2>1. ASSUME NEW t \in Tokens, cancel(t) PROVE PinsHold'
    <3> DEFINE e == token_index_[t]
    <3>1. e \in Entries
      BY <2>1 DEF cancel, TypeOK
    <3>2. CASE revert_gpu_entry(e)
      BY <1>1, <1>8, <2>1, <3>1, <3>2 DEF cancel
    <3>3. CASE ent' = [ent EXCEPT ![e].interests = @ \ {t}]
      <4>1. ent[e] \in GpuEntry
        BY <3>1 DEF TypeOK
      <4>2. [ent[e] EXCEPT !.interests = @ \ {t}].pin = ent[e].pin
        BY <4>1 DEF GpuEntry
      <4>3. NoNewPin
        BY <1>3, <3>1, <3>3, <4>2
      <4> QED  BY <1>1, <2>1, <4>3 DEF cancel
    <3> QED  BY <2>1, <3>2, <3>3 DEF cancel
  <2>2. ASSUME NEW e \in Entries, request_evict(e) PROVE PinsHold'
    <3>1. NoNewPin
      BY <1>3, <1>6, <2>2 DEF request_evict
    <3> QED  BY <1>1, <2>2, <3>1 DEF request_evict
  <2>3. ASSUME NEW e \in Entries, request_drain(e) PROVE PinsHold'
    <3>1. ent[e] \in GpuEntry
      BY DEF TypeOK
    <3>2. NoNewPin
      BY <1>3, <1>7, <2>3, <3>1 DEF request_drain
    <3> QED  BY <1>1, <2>3, <3>2 DEF request_drain
  <2>4. ASSUME NEW e \in Entries,
               \/ lock(e) \/ unlock(e) \/ handle_cache_evict(e) \/ handle_cache_reserve(e)
               \/ handle_cancel_transfer(e)
        PROVE  arena' = arena /\ ent' = ent
    BY <2>4 DEF lock, unlock, handle_cache_evict, handle_cache_reserve, handle_cancel_transfer
  <2>5. ASSUME NEW k \in Keys, handle_nvme_write(k) \/ cancel_nvme_write(k)
        PROVE  arena' = arena /\ ent' = ent
    BY <2>5 DEF handle_nvme_write, cancel_nvme_write
  <2>6. ASSUME NEW e \in Entries, handle_transfer_h2d(e) PROVE PinsHold'
    <3>1. e[1] \in Keys
      BY DEF Entries
    <3>2. PICK pin \in {"yes", "no"} : Resolved(e[1], "ready", pin)
      BY <2>6, <3>1, HostSourceResolves DEF handle_transfer_h2d
    <3>3. ent' = ent
      BY <2>6 DEF handle_transfer_h2d
    <3> QED  BY <1>2, <3>1, <3>2, <3>3
  <2> QED  BY <1>1, <1>9, <1>11, <1>12, <2>1, <2>2, <2>3, <2>4, <2>5, <2>6 DEF Client
<1>13. CASE flush_staged
  BY <1>1, <1>9, <1>13 DEF flush_staged
<1>14. CASE Poll
  <2>1. CASE poll_nothing
    BY <1>1, <1>9, <2>1 DEF poll_nothing
  <2>2. ASSUME NEW k \in Keys, NEW ok \in BOOLEAN, poll_nvme(k, ok) PROVE PinsHold'
    BY <1>1, <1>9, <2>2 DEF poll_nvme
  <2>3. ASSUME NEW k \in Keys, NEW ok \in BOOLEAN, poll_arena(k, ok) PROVE PinsHold'
    BY <2>3 DEF poll_arena, PinsHold, TypeOK, Entries
  <2>4. ASSUME NEW d \in drains, NEW ok \in BOOLEAN, poll_d2h(d, ok) PROVE PinsHold'
    <3>1. <<d.key, d.gpu>> \in Entries
      BY DEF TypeOK, Drain, Entries
    <3>2. ent' = ent \/ ent' = [ent EXCEPT ![<<d.key, d.gpu>>] = NoEntry]
      BY <2>4, Zenon DEF poll_d2h
    <3>3. NoNewPin
      BY <1>3, <1>6, <1>9, <3>1, <3>2
    <3> QED  BY <1>1, <2>4, <3>3 DEF poll_d2h
  <2>5. ASSUME NEW g \in Gpus, NEW ok \in BOOLEAN, poll_h2d(g, ok) PROVE PinsHold'
    <3> DEFINE e == HeadEntry(g)
    <3>1. e \in Entries /\ arena' = arena
      BY <2>5, CopySplit DEF CopyFrame
    <3>2. \/ ent' = [ent EXCEPT ![e] = [NoEntry EXCEPT !.tier = "hot"]]
          \/ ent' = [ent EXCEPT ![e] = NoEntry]
          \/ ent' = ent
      <4>1. CASE CopySucceeds(g)
        BY <4>1, Zenon DEF CopySucceeds
      <4>2. CASE CopyFails(g)
        BY <4>2, Zenon DEF CopyFails
      <4>3. CASE CopyIgnored(g, ok)
        BY <4>3, Zenon DEF CopyIgnored
      <4> QED  BY <2>5, <4>1, <4>2, <4>3, CopySplit
    <3> HIDE DEF e
    <3>3. NoNewPin
      BY <1>3, <1>6, <1>9, <3>1, <3>2
    <3> QED  BY <1>1, <3>1, <3>3
  <2> QED  BY <1>14, <2>1, <2>2, <2>3, <2>4, <2>5 DEF Poll
<1> QED  BY <1>10, <1>12, <1>13, <1>14 DEF Next

\* The arena slot a copy reads from keeps its expert until the copy is over,
\* although reserve_for_fill evicts whenever the arena is full.
THEOREM SourcesAreStable == ASSUME LifecycleAssumption PROVE Spec => []SourceStable
<1>1. Init => PinsHold
  BY DEF Init, PinsHold, NoEntry
<1>2. TypeOK /\ StreamsOwn /\ PinsHold /\ [Next]_vars => PinsHold'
  <2> SUFFICES ASSUME TypeOK, StreamsOwn, PinsHold, [Next]_vars PROVE PinsHold'
    OBVIOUS
  <2>1. CASE UNCHANGED vars
    BY <2>1 DEF vars, state, PinsHold
  <2> QED  BY <2>1, PinsStep
<1>3. PinsHold => SourceStable
  BY DEF PinsHold, SourceStable
<1> QED  BY <1>1, <1>2, <1>3, TypesHold, PTL DEF Spec

-------------------------------------------------------------------------------
(* The tiers, the cache and the copies, of clients that go through the     *)
(* manager.  Every step is of one of five kinds.                           *)

\* Only e changes, it stays in order, and a slot it gets was free.
OneEntry(e) ==
  /\ \A f \in Entries \ {e} : ent'[f] = ent[f] /\ cache'[f] = cache[f]
  /\ Held(ent'[e], cache'[e])
  /\ cache'[e].slot \in {0, cache[e].slot} \cup FreeSlots(e[2])

Still == UNCHANGED <<ent, cache, staged, stream, content>>

\* The requests, the lock or the tier of e change, its slot and copy do not.
Retiered(e) ==
  /\ OneEntry(e) /\ UNCHANGED <<staged, stream, content>>
  /\ cache'[e].slot = cache[e].slot /\ cache'[e].ready = cache[e].ready
  /\ ent'[e].tier = "transferring" <=> ent[e].tier = "transferring"
  /\ ent'[e].xfer = ent[e].xfer

\* e is ABSENT, its copy is cancelled.
Dropped(e) ==
  /\ OneEntry(e) /\ UNCHANGED content
  /\ ent'[e].tier = "absent"
  /\ cache'[e].ready = "yes" => cache[e].ready = "yes" /\ cache'[e].slot = cache[e].slot
  /\ \/ CopyCancelled(e)
     \/ ent[e].tier # "transferring" /\ UNCHANGED <<staged, stream>>

\* e gets a slot or has one, and may get its copy.
Launched(e) ==
  /\ OneEntry(e) /\ UNCHANGED <<stream, content>>
  /\ ent[e].tier # "transferring" /\ cache'[e].ready = "no"
  /\ \/ ent'[e].tier = "reserved" /\ staged' = staged
     \/ /\ ent'[e].tier = "transferring" /\ ent'[e].xfer = "own"
        /\ staged' = staged \cup {NewCopy(e, cache')}

\* The copy at the head of the stream of g is over, and so is the wait for it.
Over(g, ok) ==
  LET c == HeadOf(g)
      e == HeadEntry(g) IN
  /\ CopyFrame(g, ok)
  /\ \/ c.state = "cancelled" /\ UNCHANGED <<ent, cache>>
     \/ /\ c.state = "live" /\ OneEntry(e)
        /\ ent'[e].tier # "transferring"
        /\ cache'[e].ready = "yes" => ok /\ cache'[e].slot = cache[e].slot

LEMMA Pairs ==
  /\ \A e \in Entries : e[1] \in Keys /\ e[2] \in Gpus /\ e = <<e[1], e[2]>>
  /\ \A c \in Copy : /\ <<c.key, c.gpu>> \in Entries
                     /\ <<c.key, c.gpu>>[1] = c.key /\ <<c.key, c.gpu>>[2] = c.gpu
                     /\ c.key \in Keys /\ c.gpu \in Gpus /\ c.slot \in SlotIds
                     /\ c.state \in {"live", "cancelled"}
<1>1. \A e \in Entries : e[1] \in Keys /\ e[2] \in Gpus /\ e = <<e[1], e[2]>>
  BY DEF Entries
<1>2. \A c \in Copy : c.key \in Keys /\ c.gpu \in Gpus /\ c.slot \in SlotIds
                      /\ c.state \in {"live", "cancelled"}
  BY DEF Copy
<1> QED  BY <1>1, <1>2 DEF Entries

\* A change of one entry keeps the others in order, and their slots apart.
LEMMA TiersOne ==
  ASSUME Tiers, UNCHANGED commands, NEW e \in Entries, OneEntry(e)
  PROVE  Tiers'
<1>1. \A f \in Entries : SlotHeld(f)'
  <2> SUFFICES ASSUME NEW f \in Entries PROVE SlotHeld(f)'
    OBVIOUS
  <2>1. CASE f = e
    BY <2>1 DEF OneEntry, SlotHeld, Held, DrainsAndLocks
  <2>2. CASE f # e
    <3>1. SlotHeld(f) /\ ent'[f] = ent[f] /\ cache'[f] = cache[f]
      BY <2>2 DEF OneEntry, Tiers
    <3> QED  BY <3>1 DEF SlotHeld, Held, DrainsAndLocks
  <2> QED  BY <2>1, <2>2
<1>2. \A f \in Entries \ {e} : cache'[f].slot = cache[f].slot
  BY DEF OneEntry
<1>3. ASSUME NEW f \in Entries \ {e}, f[2] = e[2], cache'[e].slot = cache[f].slot,
             cache'[e].slot # 0
      PROVE  FALSE
  <2>1. f[1] \in Keys /\ f = <<f[1], e[2]>>
    BY <1>3, Pairs
  <2>2. cache[f].slot \notin FreeSlots(e[2])
    BY <2>1 DEF FreeSlots
  <2>3. cache'[e].slot \in {0, cache[e].slot} \cup FreeSlots(e[2])
    BY DEF OneEntry
  <2>4. cache[e].slot = cache[f].slot /\ cache[e].slot # 0
    BY <1>3, <2>2, <2>3
  <2> QED  BY <1>3, <2>4 DEF Tiers, SlotsDistinct
<1>4. SlotsDistinct'
  <2> SUFFICES ASSUME NEW a \in Entries, NEW b \in Entries, a[2] = b[2],
                      cache'[a].slot = cache'[b].slot, cache'[a].slot # 0, a # b
               PROVE  FALSE
    BY DEF SlotsDistinct
  <2>1. CASE a = e
    BY <1>2, <1>3, <2>1
  <2>2. CASE b = e
    BY <1>2, <1>3, <2>2
  <2>3. CASE a # e /\ b # e
    BY <1>2, <2>3 DEF Tiers, SlotsDistinct
  <2> QED  BY <2>1, <2>2, <2>3
<1> QED  BY <1>1, <1>4 DEF Tiers

\* The copies of other entries than e belong to them as before.
LEMMA OthersCopies ==
  ASSUME NEW e \in Entries, NEW c \in Copy, OneEntry(e), CopyOf(c), <<c.key, c.gpu>> # e
  PROVE  CopyOf(c)'
  BY Pairs DEF OneEntry, CopyOf

\* An entry that is not TRANSFERRING has no live copy.
LEMMA NoCopyLeft ==
  ASSUME TypeOK, StreamsOwn, CopyInv, NEW e \in Entries, ent[e].tier # "transferring"
  PROVE  /\ \A c \in staged : <<c.key, c.gpu>> # e
         /\ \A g \in Gpus : \A i \in 1..Len(stream[g]) :
               stream[g][i].state = "live" => <<stream[g][i].key, stream[g][i].gpu>> # e
  BY DEF CopyInv, CopiesBelong, CopyOf

\* Copies on the streams, by type.
LEMMA StreamAt ==
  ASSUME TypeOK, StreamsOwn, NEW g \in Gpus, NEW i \in 1..Len(stream[g])
  PROVE  stream[g][i] \in Copy /\ stream[g][i].gpu = g
<1>1. stream[g] \in Seq(Copy)
  BY DEF TypeOK
<1> QED  BY <1>1 DEF StreamsOwn

\* A copy in flight, by place.
LEMMA InFlightAt ==
  ASSUME NEW e \in Entries
  PROVE  InFlight(e) <=> \/ \E c \in staged : c.key = e[1] /\ c.gpu = e[2]
                         \/ \E i \in 1..Len(stream[e[2]]) :
                              stream[e[2]][i].key = e[1] /\ stream[e[2]][i].state = "live"
  BY DEF InFlight, Listed

LEMMA CopiesStill ==
  ASSUME CopyInv, Still
  PROVE  CopyInv'
  BY DEF CopyInv, Still, CopiesBelong, CopyOf, CopiesUnique, ReadyIsQuiet, TransferringHasCopy,
         InFlight

LEMMA CopiesRetiered ==
  ASSUME TypeOK, StreamsOwn, CopyInv, NEW e \in Entries, Retiered(e)
  PROVE  CopyInv'
<1>1. OneEntry(e) /\ UNCHANGED <<staged, stream, content>>
  BY DEF Retiered
<1>2. \A f \in Entries : /\ cache'[f].slot = cache[f].slot /\ cache'[f].ready = cache[f].ready
                         /\ ent'[f].tier = "transferring" <=> ent[f].tier = "transferring"
                         /\ ent'[f].xfer = ent[f].xfer
  BY DEF Retiered, OneEntry
<1>3. \A c \in Copy : CopyOf(c) => CopyOf(c)'
  BY <1>2, Pairs DEF CopyOf
<1>4. CopiesBelong'
  <2>1. \A c \in staged : c \in Copy
    BY DEF TypeOK
  <2> QED  BY <1>1, <1>3, <2>1, StreamAt DEF CopyInv, CopiesBelong
<1>5. CopiesUnique'
  BY <1>1 DEF CopyInv, CopiesUnique
<1>6. ReadyIsQuiet'
  BY <1>1, <1>2 DEF CopyInv, ReadyIsQuiet
<1>7. TransferringHasCopy'
  BY <1>1, <1>2 DEF CopyInv, TransferringHasCopy, InFlight
<1> QED  BY <1>4, <1>5, <1>6, <1>7 DEF CopyInv

LEMMA CopiesDropped ==
  ASSUME TypeOK, StreamsOwn, CopyInv, NEW e \in Entries, Dropped(e)
  PROVE  CopyInv'
<1>1. OneEntry(e) /\ UNCHANGED content /\ ent'[e].tier = "absent"
  BY DEF Dropped
<1>2. /\ staged' \subseteq staged
      /\ \A g \in Gpus : Len(stream'[g]) = Len(stream[g])
      /\ \A c \in staged : c \in staged' \/ (c.key = e[1] /\ c.gpu = e[2])
      /\ \A c \in staged' : ~(c.key = e[1] /\ c.gpu = e[2])
  BY NoCopyLeft, Pairs DEF Dropped, CopyCancelled
<1> DEFINE Same(g, i) == /\ stream'[g][i].key = stream[g][i].key
                         /\ stream'[g][i].gpu = stream[g][i].gpu
                         /\ stream'[g][i].slot = stream[g][i].slot
                         /\ stream'[g][i].state = "live" =>
                               stream'[g][i] = stream[g][i] /\ ~(g = e[2] /\ stream[g][i].key = e[1])
                         /\ stream[g][i].state = "live" =>
                               stream'[g][i].state = "live" \/ (g = e[2] /\ stream[g][i].key = e[1])
<1>3. ASSUME NEW g \in Gpus, NEW i \in 1..Len(stream[g]) PROVE Same(g, i)
  <2>1. stream[g][i] \in Copy /\ stream[g][i].gpu = g
    BY StreamAt
  <2>2. CASE CopyCancelled(e)
    <3>1. \/ stream'[g][i] = stream[g][i]
          \/ /\ g = e[2] /\ stream[g][i].key = e[1]
             /\ stream'[g][i] = [stream[g][i] EXCEPT !.state = "cancelled"]
      BY <2>2 DEF CopyCancelled
    <3>2. \A c \in Copy : /\ [c EXCEPT !.state = "cancelled"].state = "cancelled"
                          /\ [c EXCEPT !.state = "cancelled"].key = c.key
                          /\ [c EXCEPT !.state = "cancelled"].gpu = c.gpu
                          /\ [c EXCEPT !.state = "cancelled"].slot = c.slot
      BY DEF Copy
    <3>3. stream'[g][i].state = "live" => ~(g = e[2] /\ stream[g][i].key = e[1])
      <4> SUFFICES ASSUME stream'[g][i].state = "live", g = e[2], stream[g][i].key = e[1]
                   PROVE  FALSE
        OBVIOUS
      <4>1. stream[g][i].state = "live"
        BY <2>1, <3>1, <3>2
      <4>2. \A c \in staged : c.gpu = g => c.key # e[1]
        BY <4>1 DEF CopyInv, CopiesUnique
      <4> QED  BY <2>2, <4>2 DEF CopyCancelled
    <3> QED  BY <2>1, <3>1, <3>2, <3>3
  <2>3. CASE ent[e].tier # "transferring" /\ UNCHANGED <<staged, stream>>
    <3>1. stream[g][i].state = "live" => ~(g = e[2] /\ stream[g][i].key = e[1])
      BY <2>1, <2>3, NoCopyLeft, Pairs
    <3> QED  BY <2>3, <3>1
  <2> QED  BY <2>2, <2>3 DEF Dropped
<1>4. CopiesBelong'
  <2>1. ASSUME NEW c \in staged' PROVE c.state = "live" /\ CopyOf(c)'
    <3>0. staged \subseteq Copy
      BY DEF TypeOK
    <3>1. c \in staged /\ c \in Copy /\ <<c.key, c.gpu>> # e
      BY <1>2, <3>0, Pairs
    <3> QED  BY <1>1, <3>1, OthersCopies DEF CopyInv, CopiesBelong
  <2>2. ASSUME NEW g \in Gpus, NEW i \in 1..Len(stream'[g]), stream'[g][i].state = "live"
        PROVE  CopyOf(stream[g][i])'
    <3>1. i \in 1..Len(stream[g]) /\ Same(g, i)
      BY <1>2, <1>3
    <3>2. stream[g][i] \in Copy /\ stream[g][i].gpu = g
      BY <3>1, StreamAt
    <3>3. stream'[g][i] = stream[g][i] /\ <<stream[g][i].key, stream[g][i].gpu>> # e
      BY <2>2, <3>1, <3>2, Pairs
    <3>4. CopyOf(stream[g][i])
      BY <2>2, <3>1, <3>3 DEF CopyInv, CopiesBelong
    <3>5. \A c \in Copy : CopyOf(c) /\ <<c.key, c.gpu>> # e => CopyOf(c)'
      BY <1>1, OthersCopies
    <3> QED  BY <3>2, <3>3, <3>4, <3>5 DEF CopyOf
  <2> QED  BY <2>1, <2>2 DEF CopiesBelong
<1>5. CopiesUnique'
  <2>1. \A c, d \in staged' : c.key = d.key /\ c.gpu = d.gpu => c = d
    BY <1>2 DEF CopyInv, CopiesUnique
  <2>2. ASSUME NEW g \in Gpus, NEW i \in 1..Len(stream'[g]), stream'[g][i].state = "live"
        PROVE  /\ \A c \in staged' : c.gpu = g => c.key # stream'[g][i].key
               /\ \A j \in 1..Len(stream'[g]) : stream'[g][j].slot = stream'[g][i].slot => j <= i
    <3>1. i \in 1..Len(stream[g]) /\ Same(g, i)
      BY <1>2, <1>3
    <3>2. stream[g][i].state = "live"
      BY <2>2, <3>1
    <3>3. \A j \in 1..Len(stream'[g]) : j \in 1..Len(stream[g]) /\ Same(g, j)
      BY <1>2, <1>3
    <3> QED  BY <1>2, <3>1, <3>2, <3>3 DEF CopyInv, CopiesUnique
  <2> QED  BY <2>1, <2>2 DEF CopiesUnique
<1>6. ReadyIsQuiet'
  <2> SUFFICES ASSUME NEW f \in Entries, cache'[f].ready = "yes"
               PROVE  /\ content'[f[2]][cache'[f].slot] = f[1]
                      /\ \A i \in 1..Len(stream'[f[2]]) : stream'[f[2]][i].slot # cache'[f].slot
    BY DEF ReadyIsQuiet
  <2>1. cache[f].ready = "yes" /\ cache'[f].slot = cache[f].slot
    BY DEF Dropped, OneEntry
  <2>2. f[2] \in Gpus
    BY Pairs
  <2>3. \A i \in 1..Len(stream'[f[2]]) : i \in 1..Len(stream[f[2]]) /\ Same(f[2], i)
    BY <1>2, <1>3, <2>2
  <2> QED  BY <1>1, <2>1, <2>3 DEF CopyInv, ReadyIsQuiet
<1>7. TransferringHasCopy'
  <2> SUFFICES ASSUME NEW f \in Entries, ent'[f].tier = "transferring" PROVE InFlight(f)'
    BY DEF TransferringHasCopy
  <2>1. f # e /\ ent[f].tier = "transferring"
    BY <1>1 DEF OneEntry
  <2>2. f[2] \in Gpus /\ ~(f[1] = e[1] /\ f[2] = e[2])
    BY <2>1, Pairs
  <2>3. InFlight(f)
    BY <2>1 DEF CopyInv, TransferringHasCopy
  <2>4. CASE \E c \in staged : c.key = f[1] /\ c.gpu = f[2]
    BY <1>2, <2>2, <2>4 DEF InFlight
  <2>5. ASSUME NEW i \in 1..Len(stream[f[2]]),
               stream[f[2]][i].key = f[1] /\ stream[f[2]][i].state = "live"
        PROVE  InFlight(f)'
    <3>1. i \in 1..Len(stream'[f[2]]) /\ Same(f[2], i)
      BY <1>2, <1>3, <2>2
    <3>2. stream'[f[2]][i].key = f[1] /\ stream'[f[2]][i].state = "live"
      BY <2>2, <2>5, <3>1
    <3> QED  BY <3>1, <3>2 DEF InFlight, Listed
  <2> QED  BY <2>3, <2>4, <2>5, InFlightAt
<1> QED  BY <1>4, <1>5, <1>6, <1>7 DEF CopyInv

LEMMA CopiesLaunched ==
  ASSUME TypeOK, StreamsOwn, CopyInv, NEW e \in Entries, Launched(e)
  PROVE  CopyInv'
<1>1. /\ OneEntry(e) /\ UNCHANGED <<stream, content>>
      /\ ent[e].tier # "transferring" /\ cache'[e].ready = "no"
  BY DEF Launched
<1>2. e[1] \in Keys /\ e[2] \in Gpus /\ e = <<e[1], e[2]>>
  BY Pairs
<1> DEFINE n == NewCopy(e, cache')
<1>3. /\ n.key = e[1] /\ n.gpu = e[2] /\ n.by = "elm" /\ n.state = "live"
      /\ n.slot = cache'[e].slot
  BY DEF NewCopy
<1>4. /\ \A c \in staged : ~(c.key = e[1] /\ c.gpu = e[2])
      /\ \A i \in 1..Len(stream[e[2]]) : stream[e[2]][i].state = "live" => stream[e[2]][i].key # e[1]
  BY <1>1, <1>2, NoCopyLeft, StreamAt
<1>5. staged \subseteq Copy
  BY DEF TypeOK
<1> HIDE DEF n
<1>6. \/ ent'[e].tier = "reserved" /\ staged' = staged
      \/ ent'[e].tier = "transferring" /\ ent'[e].xfer = "own" /\ staged' = staged \cup {n}
  BY DEF Launched, n
<1>7. CopiesBelong'
  <2>1. ASSUME NEW c \in staged PROVE c.state = "live" /\ CopyOf(c)'
    <3>1. c \in Copy /\ <<c.key, c.gpu>> # e
      BY <1>4, <1>5
    <3> QED  BY <1>1, <3>1, OthersCopies DEF CopyInv, CopiesBelong
  <2>2. ASSUME NEW c \in staged', c \notin staged PROVE c.state = "live" /\ CopyOf(c)'
    <3>1. c = n /\ ent'[e].tier = "transferring" /\ ent'[e].xfer = "own"
      BY <1>6, <2>2
    <3>2. <<c.key, c.gpu>> = e
      BY <1>2, <1>3, <3>1
    <3> QED  BY <1>3, <3>1, <3>2 DEF CopyOf
  <2>3. ASSUME NEW g \in Gpus, NEW i \in 1..Len(stream[g]), stream[g][i].state = "live"
        PROVE  CopyOf(stream[g][i])'
    <3>1. stream[g][i] \in Copy /\ CopyOf(stream[g][i])
      BY <2>3, StreamAt DEF CopyInv, CopiesBelong
    <3>2. <<stream[g][i].key, stream[g][i].gpu>> # e
      BY <1>1, <2>3, NoCopyLeft
    <3>3. \A c \in Copy : CopyOf(c) /\ <<c.key, c.gpu>> # e => CopyOf(c)'
      BY <1>1, OthersCopies
    <3> QED  BY <1>1, <3>1, <3>2, <3>3 DEF CopyOf
  <2> QED  BY <1>1, <2>1, <2>2, <2>3 DEF CopiesBelong
<1>8. CopiesUnique'
  <2>1. \A c, d \in staged' : c.key = d.key /\ c.gpu = d.gpu => c = d
    BY <1>3, <1>4, <1>6 DEF CopyInv, CopiesUnique
  <2>2. ASSUME NEW g \in Gpus, NEW i \in 1..Len(stream[g]), stream[g][i].state = "live"
        PROVE  /\ \A c \in staged' : c.gpu = g => c.key # stream[g][i].key
               /\ \A j \in 1..Len(stream[g]) : stream[g][j].slot = stream[g][i].slot => j <= i
    <3>1. /\ \A c \in staged : c.gpu = g => c.key # stream[g][i].key
          /\ \A j \in 1..Len(stream[g]) : stream[g][j].slot = stream[g][i].slot => j <= i
      BY <2>2 DEF CopyInv, CopiesUnique
    <3>2. n.gpu = g => n.key # stream[g][i].key
      BY <1>3, <1>4, <2>2
    <3> QED  BY <1>6, <3>1, <3>2
  <2> QED  BY <1>1, <2>1, <2>2 DEF CopiesUnique
<1>9. ReadyIsQuiet'
  <2>1. \A f \in Entries : cache'[f].ready = "yes" => f # e /\ cache'[f] = cache[f]
    BY <1>1 DEF OneEntry
  <2> QED  BY <1>1, <2>1 DEF CopyInv, ReadyIsQuiet
<1>10. TransferringHasCopy'
  <2> SUFFICES ASSUME NEW f \in Entries, ent'[f].tier = "transferring" PROVE InFlight(f)'
    BY DEF TransferringHasCopy
  <2>1. CASE f = e
    <3>1. n \in staged'
      BY <1>6, <2>1
    <3> QED  BY <1>3, <2>1, <3>1 DEF InFlight
  <2>2. CASE f # e
    <3>1. InFlight(f)
      BY <1>1, <2>2 DEF OneEntry, CopyInv, TransferringHasCopy
    <3> QED  BY <1>1, <1>6, <3>1 DEF InFlight
  <2> QED  BY <2>1, <2>2
<1> QED  BY <1>7, <1>8, <1>9, <1>10 DEF CopyInv

LEMMA CopiesFlushed ==
  ASSUME TypeOK, StreamsOwn, Tiers, CopyInv, flush_staged
  PROVE  CopyInv'
<1>1. PICK c \in staged : /\ staged' = staged \ {c}
                          /\ stream' = [stream EXCEPT ![c.gpu] = Append(@, c)]
  BY DEF flush_staged
<1>2. UNCHANGED <<ent, cache, content>>
  BY DEF flush_staged
<1>3. staged \subseteq Copy /\ c \in Copy /\ c.gpu \in Gpus /\ c.state = "live" /\ CopyOf(c)
  BY Pairs DEF TypeOK, CopyInv, CopiesBelong
<1>4. stream \in [Gpus -> Seq(Copy)]
  BY DEF TypeOK
<1> DEFINE n == Len(stream[c.gpu]) + 1
<1>5. /\ Len(stream'[c.gpu]) = n /\ stream'[c.gpu][n] = c /\ n \in Nat /\ n \in 1..n
      /\ \A i \in 1..n : i # n => i \in 1..Len(stream[c.gpu]) /\ stream'[c.gpu][i] = stream[c.gpu][i]
      /\ \A i \in 1..Len(stream[c.gpu]) : i \in 1..n /\ stream'[c.gpu][i] = stream[c.gpu][i] /\ i <= n
  <2> DEFINE q == stream[c.gpu]
  <2>1. q \in Seq(Copy) /\ stream'[c.gpu] = Append(q, c)
    BY <1>1, <1>3, <1>4
  <2>2. Len(Append(q, c)) = n /\ Append(q, c)[n] = c /\ n \in Nat /\ n \in 1..n
    BY <2>1
  <2>3. \A i \in 1..Len(q) : i \in 1..n /\ Append(q, c)[i] = q[i] /\ i <= n
    BY <2>1
  <2>4. \A i \in 1..n : i # n => i \in 1..Len(q)
    BY <2>1
  <2> QED  BY <2>1, <2>2, <2>3, <2>4
<1> HIDE DEF n
<1>6. \A g \in Gpus : g # c.gpu => stream'[g] = stream[g]
  BY <1>1, <1>3, <1>4
<1> DEFINE Old(g, i) == i \in 1..Len(stream[g]) /\ stream'[g][i] = stream[g][i]
           New(g, i) == g = c.gpu /\ i = n /\ stream'[g][i] = c
<1>7. \A g \in Gpus : \A i \in 1..Len(stream'[g]) : Old(g, i) \/ New(g, i)
  BY <1>5, <1>6
<1>8. <<c.key, c.gpu>> \in Entries /\ <<c.key, c.gpu>>[2] = c.gpu /\ c.slot # 0 /\ c.slot \in SlotIds
  <2>1. c.slot \in SlotIds
    BY <1>3, Pairs
  <2> QED  BY <1>3, <2>1, Pairs DEF SlotIds
\* No live copy on the stream goes to the slot of c, and no ready expert has it.
<1>9. ASSUME NEW i \in 1..Len(stream[c.gpu]), stream[c.gpu][i].state = "live"
      PROVE  stream[c.gpu][i].slot # c.slot
  <2> DEFINE d == stream[c.gpu][i]
             f == <<d.key, d.gpu>>
  <2>1. d \in Copy /\ d.gpu = c.gpu
    BY <1>3, StreamAt
  <2>2. CopyOf(d) /\ c.key # d.key
    BY <1>3, <1>9 DEF CopyInv, CopiesBelong, CopiesUnique
  <2> HIDE DEF d
  <2>3. f \in Entries /\ f[2] = c.gpu /\ f # <<c.key, c.gpu>> /\ cache[f].slot = d.slot
    BY <2>1, <2>2, Pairs DEF CopyOf
  <2>4. cache[<<c.key, c.gpu>>].slot = c.slot
    BY <1>3 DEF CopyOf
  <2>5. d.slot # c.slot
    BY <1>8, <2>3, <2>4 DEF Tiers, SlotsDistinct
  <2> QED  BY <2>5 DEF d
<1>10. ASSUME NEW f \in Entries, cache[f].ready = "yes", f[2] = c.gpu PROVE cache[f].slot # c.slot
  <2>1. /\ ent[<<c.key, c.gpu>>].tier = "transferring" /\ cache[<<c.key, c.gpu>>].slot = c.slot
    BY <1>3 DEF CopyOf
  <2>2. cache[<<c.key, c.gpu>>].ready = "no"
    BY <1>8, <2>1 DEF Tiers, SlotHeld, Held
  <2>3. f # <<c.key, c.gpu>>
    BY <1>10, <2>2
  <2> QED  BY <1>8, <1>10, <2>1, <2>3 DEF Tiers, SlotsDistinct
<1>11. \A d : CopyOf(d) => CopyOf(d)'
  BY <1>2 DEF CopyOf
<1>12. CopiesBelong'
  <2>1. ASSUME NEW g \in Gpus, NEW i \in 1..Len(stream'[g]), stream'[g][i].state = "live"
        PROVE  CopyOf(stream[g][i])'
    <3>1. CopyOf(stream'[g][i])
      BY <1>3, <1>7, <2>1 DEF CopyInv, CopiesBelong
    <3> QED  BY <1>2, <3>1 DEF CopyOf
  <2> QED  BY <1>1, <1>11, <2>1 DEF CopyInv, CopiesBelong
<1>13. CopiesUnique'
  <2>1. \A a, b \in staged' : a.key = b.key /\ a.gpu = b.gpu => a = b
    BY <1>1 DEF CopyInv, CopiesUnique
  <2>2. ASSUME NEW g \in Gpus, NEW i \in 1..Len(stream'[g]), stream'[g][i].state = "live"
        PROVE  /\ \A a \in staged' : a.gpu = g => a.key # stream'[g][i].key
               /\ \A j \in 1..Len(stream'[g]) : stream'[g][j].slot = stream'[g][i].slot => j <= i
    <3>1. CASE Old(g, i)
      <4>1. /\ \A a \in staged : a.gpu = g => a.key # stream[g][i].key
            /\ \A j \in 1..Len(stream[g]) : stream[g][j].slot = stream[g][i].slot => j <= i
        BY <2>2, <3>1 DEF CopyInv, CopiesUnique
      <4>2. \A j \in 1..Len(stream'[g]) : New(g, j) => stream'[g][j].slot # stream'[g][i].slot
        BY <1>9, <2>2, <3>1
      <4> QED  BY <1>1, <1>7, <3>1, <4>1, <4>2
    <3>2. CASE New(g, i)
      <4>1. \A a \in staged' : a.gpu = g => a.key # c.key
        BY <1>1, <3>2 DEF CopyInv, CopiesUnique
      <4>2. \A j \in 1..Len(stream'[g]) : j <= i
        BY <1>5, <3>2
      <4> QED  BY <3>2, <4>1, <4>2
    <3> QED  BY <1>7, <3>1, <3>2
  <2> QED  BY <2>1, <2>2 DEF CopiesUnique
<1>14. ReadyIsQuiet'
  <2> SUFFICES ASSUME NEW f \in Entries, cache[f].ready = "yes"
               PROVE  /\ content[f[2]][cache[f].slot] = f[1]
                      /\ \A i \in 1..Len(stream'[f[2]]) : stream'[f[2]][i].slot # cache[f].slot
    BY <1>2 DEF ReadyIsQuiet
  <2>1. f[2] \in Gpus
    BY Pairs
  <2>2. /\ content[f[2]][cache[f].slot] = f[1]
        /\ \A i \in 1..Len(stream[f[2]]) : stream[f[2]][i].slot # cache[f].slot
    BY DEF CopyInv, ReadyIsQuiet
  <2> QED  BY <1>7, <1>10, <2>1, <2>2
<1>15. TransferringHasCopy'
  <2> SUFFICES ASSUME NEW f \in Entries, ent[f].tier = "transferring" PROVE InFlight(f)'
    BY <1>2 DEF TransferringHasCopy
  <2>1. InFlight(f) /\ f[2] \in Gpus
    BY Pairs DEF CopyInv, TransferringHasCopy
  <2>2. ASSUME NEW i \in 1..Len(stream'[f[2]]), stream'[f[2]][i].key = f[1],
               stream'[f[2]][i].state = "live"
        PROVE  InFlight(f)'
    BY <2>2 DEF InFlight, Listed
  <2>3. ASSUME NEW a \in staged, a.key = f[1], a.gpu = f[2] PROVE InFlight(f)'
    <3>1. CASE a = c
      BY <1>3, <1>5, <2>2, <2>3, <3>1
    <3>2. CASE a # c
      BY <1>1, <2>3, <3>2 DEF InFlight
    <3> QED  BY <3>1, <3>2
  <2>4. ASSUME NEW i \in 1..Len(stream[f[2]]), stream[f[2]][i].key = f[1],
               stream[f[2]][i].state = "live"
        PROVE  InFlight(f)'
    <3>1. i \in 1..Len(stream'[f[2]]) /\ stream'[f[2]][i] = stream[f[2]][i]
      BY <1>5, <1>6, <2>1
    <3> QED  BY <2>2, <2>4, <3>1
  <2> QED  BY <2>1, <2>3, <2>4, InFlightAt
<1> QED  BY <1>12, <1>13, <1>14, <1>15 DEF CopyInv

LEMMA CopiesOver ==
  ASSUME TypeOK, StreamsOwn, Tiers, CopyInv, NEW g \in Gpus, NEW ok \in BOOLEAN, Over(g, ok),
         HeadOf(g) \in Copy, HeadOf(g).gpu = g
  PROVE  CopyInv'
<1> DEFINE c == HeadOf(g)
           e == HeadEntry(g)
<1>1. /\ stream[g] # <<>> /\ stream' = [stream EXCEPT ![g] = Tail(@)] /\ staged' = staged
      /\ content' = [content EXCEPT ![g][c.slot] = IF ok THEN c.key ELSE Unused]
  BY Zenon DEF Over, CopyFrame
<1>2. \/ c.state = "cancelled" /\ UNCHANGED <<ent, cache>>
      \/ /\ c.state = "live" /\ OneEntry(e)
         /\ ent'[e].tier # "transferring"
         /\ cache'[e].ready = "yes" => ok /\ cache'[e].slot = cache[e].slot
  BY Zenon DEF Over
<1>3. c \in Copy /\ e \in Entries /\ e = <<c.key, c.gpu>> /\ e[1] = c.key /\ e[2] = g /\ c.gpu = g
      /\ c.slot \in SlotIds /\ c.key \in Keys
  BY Pairs DEF HeadEntry, HeadOf
<1>4. stream \in [Gpus -> Seq(Copy)] /\ staged \subseteq Copy
      /\ content \in [Gpus -> [SlotIds -> Keys \cup {Unused}]] /\ cache \in [Entries -> CacheEntry]
  BY DEF TypeOK
<1>5. c = stream[g][1] /\ 1 \in 1..Len(stream[g]) /\ Len(stream[g]) \in Nat
  <2>1. stream[g] \in Seq(Copy) /\ stream[g] # <<>>
    BY <1>1, <1>4
  <2> QED  BY <2>1 DEF HeadOf
<1>6. /\ Len(stream'[g]) = Len(stream[g]) - 1
      /\ \A i \in 1..Len(stream'[g]) :
            i \in Nat /\ i + 1 \in 1..Len(stream[g]) /\ stream'[g][i] = stream[g][i + 1]
      /\ \A i \in 1..Len(stream[g]) :
            i = 1 \/ (i - 1 \in 1..Len(stream'[g]) /\ stream'[g][i - 1] = stream[g][i])
  <2>1. stream[g] \in Seq(Copy) /\ stream'[g] = Tail(stream[g])
    BY <1>1, <1>4
  <2>2. Len(stream'[g]) = Len(stream[g]) - 1
    BY <1>1, <2>1, TailAt
  <2>3. \A i \in 1..Len(stream'[g]) : i + 1 \in 1..Len(stream[g]) /\ stream'[g][i] = stream[g][i + 1]
    BY <1>1, <2>1, TailAt
  <2>4. ASSUME NEW i \in 1..Len(stream[g]), i # 1
        PROVE  i - 1 \in 1..Len(stream'[g]) /\ stream'[g][i - 1] = stream[g][i]
    <3>1. i - 1 \in 1..Len(stream'[g]) /\ (i - 1) + 1 = i
      BY <1>5, <2>2, <2>4
    <3> QED  BY <2>3, <3>1
  <2> QED  BY <2>2, <2>3, <2>4
<1>7. \A h \in Gpus : h # g => stream'[h] = stream[h]
  BY <1>1, <1>4
\* A live copy that stays is not of the entry that is done.
<1>8. ASSUME NEW d \in Copy, CopyOf(d), c.state = "live" => <<d.key, d.gpu>> # e
      PROVE  CopyOf(d)'
  <2>1. CASE c.state = "live"
    BY <1>2, <1>3, <1>8, <2>1, OthersCopies
  <2>2. CASE c.state # "live"
    BY <1>2, <1>8, <2>2 DEF CopyOf
  <2> QED  BY <2>1, <2>2
<1>9. c.state = "live" => CopyOf(c)
  BY <1>5 DEF CopyInv, CopiesBelong
<1>10. ASSUME NEW i \in 1..Len(stream[g]), i # 1, stream[g][i].state = "live", c.state = "live"
       PROVE  <<stream[g][i].key, stream[g][i].gpu>> # e
  <2>1. CopyOf(stream[g][i]) /\ ~(stream[g][i].slot = c.slot)
    <3>1. CopyOf(stream[g][i])
      BY <1>10 DEF CopyInv, CopiesBelong
    <3>2. stream[g][i].slot = stream[g][1].slot => i <= 1
      BY <1>5, <1>10 DEF CopyInv, CopiesUnique
    <3> QED  BY <1>5, <1>10, <3>1, <3>2
  <2> QED  BY <1>3, <1>9, <1>10, <2>1 DEF CopyOf
<1>11. ASSUME NEW d \in staged, c.state = "live" PROVE <<d.key, d.gpu>> # e
  <2>1. d.gpu = g => d.key # c.key
    BY <1>5, <1>11 DEF CopyInv, CopiesUnique
  <2> QED  BY <1>3, <2>1
<1>12. CopiesBelong'
  <2>1. ASSUME NEW d \in staged PROVE d.state = "live" /\ CopyOf(d)'
    BY <1>4, <1>8, <1>11 DEF CopyInv, CopiesBelong
  <2>2. ASSUME NEW h \in Gpus, NEW i \in 1..Len(stream[h]), stream[h][i].state = "live",
               h = g => i # 1
        PROVE  LET d == stream[h][i] IN
               /\ d.by = "elm" /\ ent'[<<d.key, d.gpu>>].tier = "transferring"
               /\ ent'[<<d.key, d.gpu>>].xfer = "own" /\ cache'[<<d.key, d.gpu>>].slot = d.slot
    <3>1. PICK d : d = stream[h][i]
      OBVIOUS
    <3>2. d \in Copy /\ d.gpu = h /\ CopyOf(d)
      BY <2>2, <3>1, StreamAt DEF CopyInv, CopiesBelong
    <3>3. c.state = "live" => <<d.key, d.gpu>> # e
      BY <1>3, <1>10, <2>2, <3>1, <3>2
    <3>4. CopyOf(d)'
      BY <1>8, <3>2, <3>3
    <3> QED  BY <3>1, <3>4 DEF CopyOf
  <2>3. ASSUME NEW h \in Gpus, NEW i \in 1..Len(stream'[h]), stream'[h][i].state = "live"
        PROVE  CopyOf(stream[h][i])'
    <3>1. CASE h = g
      <4>1. i + 1 \in 1..Len(stream[g]) /\ stream'[g][i] = stream[g][i + 1] /\ i + 1 # 1
        BY <1>6, <2>3, <3>1
      <4> QED  BY <2>2, <2>3, <3>1, <4>1 DEF CopyOf
    <3>2. CASE h # g
      BY <1>7, <2>2, <2>3, <3>2 DEF CopyOf
    <3> QED  BY <3>1, <3>2
  <2> QED  BY <1>1, <2>1, <2>3 DEF CopiesBelong
<1>13. CopiesUnique'
  <2>1. \A a, b \in staged : a.key = b.key /\ a.gpu = b.gpu => a = b
    BY DEF CopyInv, CopiesUnique
  <2>2. ASSUME NEW h \in Gpus, NEW i \in 1..Len(stream'[h]), stream'[h][i].state = "live"
        PROVE  /\ \A a \in staged : a.gpu = h => a.key # stream'[h][i].key
               /\ \A j \in 1..Len(stream'[h]) : stream'[h][j].slot = stream'[h][i].slot => j <= i
    <3>1. CASE h = g
      <4>1. i \in Nat /\ i + 1 \in 1..Len(stream[g]) /\ stream'[g][i] = stream[g][i + 1]
        BY <1>6, <3>1
      <4>2. /\ \A a \in staged : a.gpu = g => a.key # stream[g][i + 1].key
            /\ \A j \in 1..Len(stream[g]) : stream[g][j].slot = stream[g][i + 1].slot => j <= i + 1
        BY <2>2, <3>1, <4>1 DEF CopyInv, CopiesUnique
      <4>3. ASSUME NEW j \in 1..Len(stream'[g]), stream'[g][j].slot = stream'[g][i].slot
            PROVE  j <= i
        <5>1. j \in Nat /\ j + 1 \in 1..Len(stream[g]) /\ stream'[g][j] = stream[g][j + 1]
          BY <1>6
        <5>2. j + 1 <= i + 1
          BY <4>1, <4>2, <4>3, <5>1
        <5> QED  BY <4>1, <5>1, <5>2
      <4> QED  BY <3>1, <4>1, <4>2, <4>3
    <3>2. CASE h # g
      BY <1>7, <2>2, <3>2 DEF CopyInv, CopiesUnique
    <3> QED  BY <3>1, <3>2
  <2> QED  BY <1>1, <2>1, <2>2 DEF CopiesUnique
<1>14. ReadyIsQuiet'
  <2> SUFFICES ASSUME NEW f \in Entries, cache'[f].ready = "yes"
               PROVE  /\ content'[f[2]][cache'[f].slot] = f[1]
                      /\ \A i \in 1..Len(stream'[f[2]]) : stream'[f[2]][i].slot # cache'[f].slot
    BY DEF ReadyIsQuiet
  <2>1. f[2] \in Gpus
    BY Pairs
  <2>2. \A s \in SlotIds, h \in Gpus : content'[h][s] = IF h = g /\ s = c.slot
                                                      THEN IF ok THEN c.key ELSE Unused
                                                      ELSE content[h][s]
    BY <1>1, <1>3, <1>4
  <2>3. CASE c.state = "live" /\ f = e
    <3>1. ok /\ cache'[e].slot = cache[e].slot /\ cache[e].slot = c.slot
      BY <1>2, <1>3, <1>9, <2>3 DEF CopyOf
    <3>2. content'[g][c.slot] = c.key
      BY <1>3, <2>2, <3>1
    <3>3. ASSUME NEW i \in 1..Len(stream'[g]) PROVE stream'[g][i].slot # c.slot
      <4>1. i \in Nat /\ i + 1 \in 1..Len(stream[g]) /\ stream'[g][i] = stream[g][i + 1]
        BY <1>6
      <4>2. stream[g][i + 1].slot = stream[g][1].slot => i + 1 <= 1
        BY <1>5, <2>3, <4>1 DEF CopyInv, CopiesUnique
      <4>3. 1 <= i
        OBVIOUS
      <4> QED  BY <1>5, <4>1, <4>2, <4>3
    <3> QED  BY <1>3, <2>3, <3>1, <3>2, <3>3
  <2>4. CASE ~(c.state = "live" /\ f = e)
    <3>1. cache'[f] = cache[f]
      BY <1>2, <2>4 DEF OneEntry
    <3>2. /\ cache[f].ready = "yes" /\ content[f[2]][cache[f].slot] = f[1]
          /\ \A i \in 1..Len(stream[f[2]]) : stream[f[2]][i].slot # cache[f].slot
      BY <3>1 DEF CopyInv, ReadyIsQuiet
    <3>3. cache[f].slot \in SlotIds
      BY <1>4, <3>2 DEF Tiers, SlotHeld, Held, CacheEntry
    <3>4. f[2] = g => cache[f].slot # c.slot
      BY <1>5, <3>2
    <3>5. content'[f[2]][cache[f].slot] = f[1]
      BY <2>1, <2>2, <3>2, <3>3, <3>4
    <3>6. \A i \in 1..Len(stream'[f[2]]) : stream'[f[2]][i].slot # cache[f].slot
      <4>1. CASE f[2] = g
        <5>1. ASSUME NEW i \in 1..Len(stream'[g]) PROVE stream'[g][i].slot # cache[f].slot
          <6>1. i + 1 \in 1..Len(stream[g]) /\ stream'[g][i] = stream[g][i + 1]
            BY <1>6
          <6> QED  BY <3>2, <4>1, <6>1
        <5> QED  BY <4>1, <5>1
      <4>2. CASE f[2] # g
        BY <1>7, <2>1, <3>2, <4>2
      <4> QED  BY <4>1, <4>2
    <3> QED  BY <3>1, <3>5, <3>6
  <2> QED  BY <2>3, <2>4
<1>15. TransferringHasCopy'
  <2> SUFFICES ASSUME NEW f \in Entries, ent'[f].tier = "transferring" PROVE InFlight(f)'
    BY DEF TransferringHasCopy
  <2>1. f[2] \in Gpus /\ f = <<f[1], f[2]>>
    BY Pairs
  <2>2. ent[f].tier = "transferring" /\ ~(c.state = "live" /\ f = e)
    BY <1>2 DEF OneEntry
  <2>3. InFlight(f)
    BY <2>2 DEF CopyInv, TransferringHasCopy
  <2>4. ASSUME NEW i \in 1..Len(stream'[f[2]]), stream'[f[2]][i].key = f[1],
               stream'[f[2]][i].state = "live"
        PROVE  InFlight(f)'
    BY <2>4 DEF InFlight, Listed
  <2>5. ASSUME NEW i \in 1..Len(stream[f[2]]), stream[f[2]][i].key = f[1],
               stream[f[2]][i].state = "live"
        PROVE  InFlight(f)'
    <3>1. CASE f[2] = g
      <4>1. i # 1
        BY <1>3, <1>5, <2>1, <2>2, <2>5, <3>1
      <4>2. i - 1 \in 1..Len(stream'[g]) /\ stream'[g][i - 1] = stream[g][i]
        BY <1>6, <2>5, <3>1, <4>1
      <4> QED  BY <2>4, <2>5, <3>1, <4>2
    <3>2. CASE f[2] # g
      BY <1>7, <2>1, <2>4, <2>5, <3>2
    <3> QED  BY <3>1, <3>2
  <2>6. CASE \E a \in staged : a.key = f[1] /\ a.gpu = f[2]
    BY <1>1, <2>6 DEF InFlight
  <2> QED  BY <2>3, <2>5, <2>6, InFlightAt
<1> QED  BY <1>12, <1>13, <1>14, <1>15 DEF CopyInv

\* The invariant, for clients that go through the manager.
Sound == TypeOK /\ StreamsOwn /\ Tiers /\ WaitersAbsent /\ CopyInv /\ ThroughManager

\* The kinds of steps.
Kind ==
  \/ Still
  \/ \E e \in Entries : Retiered(e) \/ Dropped(e) \/ Launched(e)
  \/ flush_staged
  \/ \E g \in Gpus, ok \in BOOLEAN : Over(g, ok) /\ HeadOf(g) \in Copy /\ HeadOf(g).gpu = g

\* A step of a kind keeps tiers, cache and copies together.
LEMMA KindKeeps ==
  ASSUME Sound, UNCHANGED commands, Kind
  PROVE  Tiers' /\ CopyInv'
<1> USE DEF Sound
<1>1. CASE Still
  <2>1. Tiers'
    BY <1>1 DEF Still, Tiers, SlotHeld, Held, SlotsDistinct, DrainsAndLocks
  <2> QED  BY <1>1, <2>1, CopiesStill
<1>2. ASSUME NEW e \in Entries, Retiered(e) PROVE Tiers' /\ CopyInv'
  BY <1>2, TiersOne, CopiesRetiered DEF Retiered
<1>3. ASSUME NEW e \in Entries, Dropped(e) PROVE Tiers' /\ CopyInv'
  BY <1>3, TiersOne, CopiesDropped DEF Dropped
<1>4. ASSUME NEW e \in Entries, Launched(e) PROVE Tiers' /\ CopyInv'
  BY <1>4, TiersOne, CopiesLaunched DEF Launched
<1>5. CASE flush_staged
  <2>1. Tiers'
    BY <1>5 DEF flush_staged, Tiers, SlotHeld, Held, SlotsDistinct, DrainsAndLocks
  <2> QED  BY <1>5, <2>1, CopiesFlushed
<1>6. ASSUME NEW g \in Gpus, NEW ok \in BOOLEAN, Over(g, ok), HeadOf(g) \in Copy, HeadOf(g).gpu = g
      PROVE  Tiers' /\ CopyInv'
  <2>1. CASE UNCHANGED <<ent, cache>>
    BY <1>6, <2>1, CopiesOver DEF Tiers, SlotHeld, Held, SlotsDistinct, DrainsAndLocks
  <2>2. CASE OneEntry(HeadEntry(g))
    <3>1. HeadEntry(g) \in Entries
      BY <1>6, Pairs DEF HeadEntry, HeadOf
    <3> QED  BY <1>6, <2>2, <3>1, TiersOne, CopiesOver
  <2>3. UNCHANGED <<ent, cache>> \/ OneEntry(HeadEntry(g))
    BY <1>6, Zenon DEF Over
  <2> QED  BY <2>1, <2>2, <2>3
<1> QED  BY <1>1, <1>2, <1>3, <1>4, <1>5, <1>6 DEF Kind

\* What is true of an entry, by tier.
LEMMA ByTier ==
  ASSUME Sound, NEW e \in Entries
  PROVE  /\ ent[e] \in GpuEntry /\ cache[e] \in CacheEntry
         /\ SlotHeld(e)
         /\ ent[e].tier = "transferring" => ent[e].xfer = "own"
         /\ Gone(e) => ent[e].tier = "absent"
         /\ ent[e].tier # "transferring" => ~InFlight(e)
<1> USE DEF Sound
<1>1. ent[e] \in GpuEntry /\ cache[e] \in CacheEntry /\ SlotHeld(e)
  BY DEF TypeOK, Tiers
<1>2. e[1] \in Keys /\ e[2] \in Gpus /\ e = <<e[1], e[2]>>
  BY Pairs
<1>3. ASSUME InFlight(e) PROVE ent[e].tier = "transferring" /\ ent[e].xfer = "own"
  <2>1. CASE \E c \in staged : c.key = e[1] /\ c.gpu = e[2]
    BY <1>2, <2>1 DEF CopyInv, CopiesBelong, CopyOf
  <2>2. ASSUME NEW i \in 1..Len(stream[e[2]]), stream[e[2]][i].key = e[1],
               stream[e[2]][i].state = "live"
        PROVE  ent[e].tier = "transferring" /\ ent[e].xfer = "own"
    <3>1. CopyOf(stream[e[2]][i]) /\ stream[e[2]][i].gpu = e[2]
      BY <1>2, <2>2, StreamAt DEF CopyInv, CopiesBelong
    <3> QED  BY <1>2, <2>2, <3>1 DEF CopyOf
  <2> QED  BY <1>3, <2>1, <2>2, InFlightAt
<1>4. ent[e].tier = "transferring" => InFlight(e)
  BY DEF CopyInv, TransferringHasCopy
<1>5. Gone(e) => ent[e].tier = "absent"
  BY <1>1 DEF Gone, SlotHeld, Held
<1> QED  BY <1>1, <1>3, <1>4, <1>5

\* try_start_h2d on an entry that is RESERVED, or gets its slot now.
LEMMA StartIsLaunch ==
  ASSUME Sound, UNCHANGED commands, TypeOK', NEW e \in Entries, NEW v, NEW cached, NEW res, NEW pin,
         Starts(e, v, cached, res, pin), cached = cache', UNCHANGED <<stream, content>>,
         v.tier = "reserved", v.interests # {}, ent[e].tier # "transferring",
         \A f \in Entries \ {e} : cache'[f] = cache[f],
         cache'[e].slot # 0, cache'[e].slot \in {cache[e].slot} \cup FreeSlots(e[2]),
         cache'[e].ready = "no", cache'[e].locks = 0
  PROVE  Launched(e)
<1>1. ~InFlight(e)
  BY ByTier
<1>2. \A f \in Entries \ {e} : ent'[f] = ent[f]
  BY DEF Starts
<1>3. \/ ent'[e].tier = "reserved" /\ staged' = staged
      \/ /\ ent'[e].tier = "transferring" /\ ent'[e].xfer = "own"
         /\ staged' = staged \cup {NewCopy(e, cache')}
  BY <1>1 DEF Starts
<1>4. ent'[e].interests # {}
  BY DEF Starts
<1>5. Held(ent'[e], cache'[e])
  BY <1>3, <1>4 DEF SlotHeld, Held
<1> QED  BY <1>2, <1>3, <1>5 DEF Launched, OneEntry

\* A slot is reserved and the load or the copy started.
LEMMA ReserveIsLaunch ==
  ASSUME Sound, LifecycleAssumption, UNCHANGED commands, TypeOK', NEW e \in Entries,
         NEW T \in SUBSET Tokens, T # {}, ReserveAndStart(e, T), UNCHANGED <<stream, content>>,
         ent[e].tier # "transferring"
  PROVE  Launched(e)
<1> DEFINE v == [NoEntry EXCEPT !.tier = "reserved", !.interests = T]
<1>1. PICK s \in FreeSlots(e[2]) :
        /\ cache' = [cache EXCEPT ![e] = [NotCached EXCEPT !.slot = s]]
        /\ try_start_h2d(e, v, cache')
  BY DEF ReserveAndStart
<1>2. cache \in [Entries -> CacheEntry] /\ TypeOK
  BY DEF Sound, TypeOK
<1>3. s \in SlotIds /\ s # 0
  BY DEF FreeSlots, SlotIds
<1>4. cache' \in [Entries -> CacheEntry]
  BY <1>1, <1>2, <1>3, Values
<1>5. v \in GpuEntry /\ v.tier = "reserved" /\ v.interests = T
  BY Values DEF NoEntry
<1>6. cache'[e].slot = s /\ cache'[e].ready = "no" /\ cache'[e].locks = 0
  BY <1>1, <1>2 DEF NotCached
<1>7. \A f \in Entries \ {e} : cache'[f] = cache[f]
  BY <1>1, <1>2
<1> HIDE DEF v
<1>8. PICK cached : cached = cache'
  OBVIOUS
<1>9. PICK res, pin : Starts(e, v, cached, res, pin)
  BY <1>1, <1>2, <1>4, <1>5, <1>8, TryStartEffect
<1> QED  BY <1>3, <1>5, <1>6, <1>7, <1>8, <1>9, StartIsLaunch

\* The start of an entry that has its slot.
LEMMA RestartIsLaunch ==
  ASSUME Sound, LifecycleAssumption, UNCHANGED commands, TypeOK', NEW e \in Entries,
         NEW v \in GpuEntry, v.tier = "reserved", v.interests # {}, try_start_h2d(e, v, cache),
         ent[e].tier = "reserved", UNCHANGED <<cache, stream, content>>
  PROVE  Launched(e)
<1>1. cache \in [Entries -> CacheEntry] /\ TypeOK
  BY DEF Sound, TypeOK
<1>2. cache[e].slot # 0 /\ cache[e].ready = "no" /\ cache[e].locks = 0
  BY ByTier DEF SlotHeld, Held, CacheEntry
<1>3. PICK res, pin : Starts(e, v, cache, res, pin)
  BY <1>1, TryStartEffect
<1> QED  BY <1>2, <1>3, StartIsLaunch

\* revert_gpu_entry on an entry that is not in use.
LEMMA RevertIsDrop ==
  ASSUME Sound, UNCHANGED commands, NEW e \in Entries, revert_gpu_entry(e), UNCHANGED content,
         ent[e].tier \in {"absent", "reserved", "transferring"}
  PROVE  Dropped(e)
<1>1. EntryReverted(e)
  BY RevertEffect DEF Sound
<1>2. ent'[e].tier = "absent" /\ ent'[e].interests = {}
  BY <1>1 DEF EntryReverted, NoEntry
<1>3. SlotHeld(e) /\ cache[e] \in CacheEntry /\ (ent[e].tier = "transferring" => ent[e].xfer = "own")
  BY ByTier
<1>4. ent[e].tier # "absent" => cache'[e] = NotCached
  BY <1>1, <1>3 DEF EntryReverted, SlotHeld, Held, CacheEntry
<1>5. ent[e].tier = "absent" => cache'[e] = cache[e]
  BY <1>1 DEF EntryReverted
<1>6. NotCached.slot = 0 /\ NotCached.ready = "no" /\ NotCached.locks = 0
  BY DEF NotCached
<1>7. Held(ent'[e], cache'[e])
  <2>1. CASE ent[e].tier # "absent"
    BY <1>2, <1>4, <1>6, <2>1 DEF SlotHeld, Held
  <2>2. CASE ent[e].tier = "absent"
    BY <1>2, <1>3, <1>5, <2>2 DEF SlotHeld, Held, DrainsAndLocks
  <2> QED  BY <2>1, <2>2
<1>8. OneEntry(e)
  BY <1>1, <1>4, <1>5, <1>6, <1>7 DEF EntryReverted, OneEntry
<1>9. \/ CopyCancelled(e)
      \/ ent[e].tier # "transferring" /\ UNCHANGED <<staged, stream>>
  BY <1>1, <1>3 DEF EntryReverted
<1> QED  BY <1>2, <1>4, <1>5, <1>6, <1>8, <1>9 DEF Dropped

LEMMA LoopKind ==
  ASSUME Sound, LifecycleAssumption, UNCHANGED commands, TypeOK', poll_continues
  PROVE  Kind
<1> USE DEF elmVars, tokenVars, copyVars
<1>1. TypeOK /\ WaitersAbsent /\ todo # <<>> /\ todo \in Seq(Work) /\ UNCHANGED content
  BY LoopSplit DEF Sound, TypeOK
<1>2. Head(todo) \in Work /\ Head(todo) \in Listed(todo)
  BY <1>1, TailListed
<1>3. Current \in Entries
  BY <1>2 DEF Current, Work, Entries
<1>4. ent[Current] \in GpuEntry /\ ent[Current].interests \in SUBSET Tokens
  BY <1>1, <1>3 DEF TypeOK, GpuEntry
<1>5. CASE LoopFails
  <2>1. ent[Current].tier \in {"absent", "reserved", "transferring"}
    BY <1>1, <1>2, <1>5 DEF LoopFails, WaitersAbsent, Current
  <2>2. revert_gpu_entry(Current)
    BY <1>5 DEF LoopFails, FailEntry
  <2> QED  BY <1>1, <1>3, <2>1, <2>2, RevertIsDrop DEF Kind
<1>6. CASE LoopReserves
  <2>1. /\ Head(todo).op = "wake" /\ ent[Current].tier = "absent" /\ ~Refused(Current)
        /\ ReserveAndStart(Current, ent[Current].interests) /\ UNCHANGED stream
    BY <1>6 DEF LoopReserves
  <2>2. ent[Current].interests # {}
    BY <1>1, <1>2, <2>1 DEF WaitersAbsent, Current
  <2> QED  BY <1>1, <1>3, <1>4, <2>1, <2>2, ReserveIsLaunch DEF Kind
<1>7. CASE LoopStarts
  <2>1. /\ ent[Current].tier = "reserved" /\ try_start_h2d(Current, ent[Current], cache)
        /\ UNCHANGED <<cache, stream>>
    BY <1>7 DEF LoopStarts
  <2>2. ent[Current].interests # {}
    BY <1>3, <2>1, ByTier DEF SlotHeld, Held
  <2> QED  BY <1>1, <1>3, <1>4, <2>1, <2>2, RestartIsLaunch DEF Kind
<1>8. CASE LoopSkips
  BY <1>1, <1>8 DEF LoopSkips, NoStart, Kind, Still
<1> QED  BY <1>5, <1>6, <1>7, <1>8, LoopSplit

LEMMA EnsureKind ==
  ASSUME Sound, LifecycleAssumption, UNCHANGED commands, TypeOK', NEW e \in Entries,
         ensure_resident(e)
  PROVE  Kind
<1> USE DEF elmVars, tokenVars, copyVars
<1>1. EnsureFrame(e) /\ UNCHANGED <<content, stream>> /\ next_token_ \in Tokens
  BY EnsureSplit DEF EnsureFrame
<1>2. /\ ent[e] \in GpuEntry /\ cache[e] \in CacheEntry /\ SlotHeld(e)
      /\ Gone(e) => ent[e].tier = "absent"
  BY ByTier
<1>3. ent \in [Entries -> GpuEntry] /\ cache \in [Entries -> CacheEntry]
  BY DEF Sound, TypeOK
<1>4. Asked(e) \in SUBSET Tokens /\ Asked(e) # {}
  BY <1>1, <1>2 DEF Asked, GpuEntry
<1> DEFINE v == [ent[e] EXCEPT !.interests = Asked(e)]
<1>5. v \in GpuEntry /\ v.tier = ent[e].tier /\ v.xfer = ent[e].xfer /\ v.interests = Asked(e)
  BY <1>2, <1>4 DEF GpuEntry
<1>6. CASE EnsureAnswers(e)
  BY <1>1, <1>6 DEF EnsureAnswers, Immediate, NoStart, Kind, Still
<1>7. CASE EnsureJoins(e)
  <2>1. /\ ent[e].tier \in {"transferring", "reserved"} /\ ent' = [ent EXCEPT ![e] = v]
        /\ UNCHANGED <<cache, staged>>
    BY <1>7 DEF EnsureJoins, NoStart
  <2> HIDE DEF v
  <2>2. ent'[e] = v /\ \A f \in Entries \ {e} : ent'[f] = ent[f]
    BY <1>3, <2>1
  <2>3. Held(ent'[e], cache'[e])
    BY <1>2, <1>4, <1>5, <2>1, <2>2 DEF SlotHeld, Held, DrainsAndLocks
  <2>4. Retiered(e)
    BY <1>1, <1>5, <2>1, <2>2, <2>3 DEF Retiered, OneEntry
  <2> QED  BY <2>4 DEF Kind
<1>8. CASE EnsureRestarts(e)
  <2>1. ent[e].tier = "reserved" /\ try_start_h2d(e, v, cache) /\ UNCHANGED cache
    BY <1>8 DEF EnsureRestarts
  <2> HIDE DEF v
  <2> QED  BY <1>1, <1>4, <1>5, <2>1, RestartIsLaunch DEF Kind
<1>9. ASSUME NEW u, ent' = [ent EXCEPT ![e] = u], u.tier = "absent", Gone(e), UNCHANGED <<cache, staged>>
      PROVE  Kind
  <2>1. ent'[e] = u /\ \A f \in Entries \ {e} : ent'[f] = ent[f]
    BY <1>3, <1>9
  <2>2. ent[e].tier = "absent"
    BY <1>2, <1>9
  <2>3. Held(ent'[e], cache'[e])
    BY <1>2, <1>9, <2>1, <2>2 DEF SlotHeld, Held, DrainsAndLocks
  <2>4. Dropped(e)
    BY <1>1, <1>9, <2>1, <2>2, <2>3 DEF Dropped, OneEntry
  <2> QED  BY <2>4 DEF Kind
<1>10. CASE EnsureWaits(e)
  <2>1. [NoEntry EXCEPT !.interests = Asked(e)].tier = "absent"
    BY DEF NoEntry
  <2> QED  BY <1>9, <1>10, <2>1 DEF EnsureWaits, NoStart
<1>11. CASE EnsureReserves(e)
  <2>1. Gone(e) /\ ReserveAndStart(e, Asked(e))
    BY <1>11 DEF EnsureReserves
  <2> QED  BY <1>1, <1>2, <1>4, <2>1, ReserveIsLaunch DEF Kind
<1>12. CASE EnsureFails(e)
  <2>1. NoEntry.tier = "absent"
    BY DEF NoEntry
  <2> QED  BY <1>9, <1>12, <2>1 DEF EnsureFails, NoStart
<1> QED  BY <1>6, <1>7, <1>8, <1>10, <1>11, <1>12, EnsureSplit

LEMMA ClientKind ==
  ASSUME Sound, LifecycleAssumption, UNCHANGED commands, TypeOK', Client
  PROVE  Kind
<1> USE DEF elmVars, tokenVars, copyVars
<1>1. ent \in [Entries -> GpuEntry] /\ cache \in [Entries -> CacheEntry] /\ ThroughManager
  BY DEF Sound, TypeOK
<1>2. ASSUME NEW t \in Tokens, cancel(t) PROVE Kind
  <2> DEFINE e == token_index_[t]
  <2>1. e \in Entries /\ UNCHANGED content
    BY <1>2 DEF cancel, Sound, TypeOK
  <2>2. t \in ent[e].interests
    BY <1>2, <1>1 DEF cancel, ThroughManager
  <2>3. SlotHeld(e) /\ ent[e] \in GpuEntry
    BY <2>1, ByTier
  <2>4. ent[e].tier \in {"absent", "reserved", "transferring"}
    BY <2>2, <2>3 DEF SlotHeld, Held, GpuEntry, GpuTiers
  <2>5. CASE ent[e].interests \subseteq {t}
    <3>1. revert_gpu_entry(e)
      BY <1>2, <2>5 DEF cancel
    <3> HIDE DEF e
    <3> QED  BY <2>1, <2>4, <3>1, RevertIsDrop DEF Kind
  <2>6. CASE ~(ent[e].interests \subseteq {t})
    <3> DEFINE v == [ent[e] EXCEPT !.interests = @ \ {t}]
    <3>1. ent' = [ent EXCEPT ![e] = v] /\ UNCHANGED <<cache, staged, stream>>
      BY <1>2, <2>6 DEF cancel
    <3> HIDE DEF e
    <3>2. v.tier = ent[e].tier /\ v.xfer = ent[e].xfer /\ v.interests # {}
      BY <2>3, <2>6 DEF GpuEntry
    <3> HIDE DEF v
    <3>3. ent'[e] = v /\ \A f \in Entries \ {e} : ent'[f] = ent[f]
      BY <1>1, <2>1, <3>1
    <3>4. Held(ent'[e], cache'[e])
      BY <2>3, <2>4, <3>1, <3>2, <3>3 DEF SlotHeld, Held, DrainsAndLocks
    <3>5. Retiered(e)
      BY <2>1, <3>1, <3>2, <3>3, <3>4 DEF Retiered, OneEntry
    <3> QED  BY <2>1, <3>5 DEF Kind
  <2> QED  BY <2>5, <2>6
<1>3. ASSUME NEW e \in Entries, request_evict(e) PROVE Kind
  <2>1. /\ ent' = [ent EXCEPT ![e] = NoEntry] /\ cache' = [cache EXCEPT ![e] = NotCached]
        /\ ent[e].tier # "transferring" /\ UNCHANGED <<staged, stream, content>>
    BY <1>3 DEF request_evict
  <2>2. /\ ent'[e].tier = "absent"
        /\ cache'[e].slot = 0 /\ cache'[e].ready = "no" /\ cache'[e].locks = 0
        /\ \A f \in Entries \ {e} : ent'[f] = ent[f] /\ cache'[f] = cache[f]
    BY <1>1, <2>1 DEF NoEntry, NotCached
  <2>3. Held(ent'[e], cache'[e])
    BY <2>2 DEF SlotHeld, Held
  <2>4. Dropped(e)
    BY <2>1, <2>2, <2>3 DEF Dropped, OneEntry
  <2> QED  BY <2>4 DEF Kind
<1>4. ASSUME NEW e \in Entries, request_drain(e) PROVE Kind
  <2> DEFINE v == [ent[e] EXCEPT !.tier = "draining"]
  <2>1. /\ ent' = [ent EXCEPT ![e] = v] /\ UNCHANGED <<cache, staged, stream, content>>
        /\ ent[e].tier = "hot" /\ "drain" \in commands
    BY <1>4 DEF request_drain
  <2>2. SlotHeld(e) /\ ent[e] \in GpuEntry
    BY ByTier
  <2>3. v.tier = "draining" /\ v.xfer = ent[e].xfer /\ v.interests = ent[e].interests
    BY <2>2 DEF GpuEntry
  <2> HIDE DEF v
  <2>4. ent'[e] = v /\ \A f \in Entries \ {e} : ent'[f] = ent[f]
    BY <1>1, <2>1
  <2>5. Held(ent'[e], cache'[e])
    BY <2>1, <2>2, <2>3, <2>4 DEF SlotHeld, Held, DrainsAndLocks
  <2>6. Retiered(e)
    BY <2>1, <2>3, <2>4, <2>5 DEF Retiered, OneEntry
  <2> QED  BY <2>6 DEF Kind
<1>5. ASSUME NEW e \in Entries, NEW n \in {0, 1}, cache' = [cache EXCEPT ![e].locks = n],
             n = 1 => cache[e].ready = "yes" /\ "lock" \in commands,
             UNCHANGED <<ent, staged, stream, content>>
      PROVE  Kind
  <2> DEFINE u == [cache[e] EXCEPT !.locks = n]
  <2>1. SlotHeld(e) /\ cache[e] \in CacheEntry
    BY ByTier
  <2>2. u.slot = cache[e].slot /\ u.ready = cache[e].ready /\ u.locks = n
    BY <2>1 DEF CacheEntry
  <2>3. cache' = [cache EXCEPT ![e] = u]
    BY <1>5
  <2> HIDE DEF u
  <2>4. cache'[e] = u /\ \A f \in Entries \ {e} : cache'[f] = cache[f]
    BY <1>1, <2>3
  <2>5. Held(ent'[e], cache'[e])
    BY <1>5, <2>1, <2>2, <2>4 DEF SlotHeld, Held, DrainsAndLocks
  <2>6. Retiered(e)
    BY <1>5, <2>2, <2>4, <2>5 DEF Retiered, OneEntry
  <2> QED  BY <2>6 DEF Kind
<1>6. ASSUME NEW e \in Entries, lock(e) PROVE Kind
  BY <1>5, <1>6 DEF lock
<1>7. ASSUME NEW e \in Entries, unlock(e) PROVE Kind
  <2>1. cache' = [cache EXCEPT ![e].locks = 0] /\ UNCHANGED <<ent, staged, stream, content>>
    BY <1>7 DEF unlock
  <2>2. 0 \in {0, 1} /\ 0 # 1
    OBVIOUS
  <2> QED  BY <1>5, <2>1, <2>2
<1>8. ASSUME NEW e \in Entries,
             \/ handle_cache_evict(e) \/ handle_cache_reserve(e)
             \/ handle_transfer_h2d(e) \/ handle_cancel_transfer(e)
      PROVE  FALSE
  BY <1>1, <1>8 DEF handle_cache_evict, handle_cache_reserve, handle_transfer_h2d,
                    handle_cancel_transfer, ThroughManager
<1>9. ASSUME NEW k \in Keys, handle_nvme_write(k) \/ cancel_nvme_write(k) PROVE Kind
  BY <1>9 DEF handle_nvme_write, cancel_nvme_write, Kind, Still
<1> QED  BY <1>2, <1>3, <1>4, <1>6, <1>7, <1>8, <1>9, EnsureKind DEF Client

LEMMA PollKind ==
  ASSUME Sound, LifecycleAssumption, UNCHANGED commands, TypeOK', Poll
  PROVE  Kind
<1> USE DEF elmVars, tokenVars, copyVars
<1>1. ent \in [Entries -> GpuEntry] /\ cache \in [Entries -> CacheEntry] /\ TypeOK /\ StreamsOwn
  BY DEF Sound, TypeOK
<1>2. CASE poll_nothing
  BY <1>2 DEF poll_nothing, Kind, Still
<1>3. ASSUME NEW k \in Keys, NEW ok \in BOOLEAN, poll_arena(k, ok) \/ poll_nvme(k, ok)
      PROVE  Kind
  BY <1>3 DEF poll_arena, poll_nvme, Kind, Still
<1>4. ASSUME NEW d \in drains, NEW ok \in BOOLEAN, poll_d2h(d, ok) PROVE Kind
  <2> DEFINE e == <<d.key, d.gpu>>
  <2>1. e \in Entries
    BY <1>1 DEF TypeOK, Drain, Entries
  <2>2. UNCHANGED <<content, staged, stream>>
    BY <1>4 DEF poll_d2h
  <2>3. CASE ~(d.state = "live" /\ ent[e].tier = "draining")
    <3>1. UNCHANGED <<ent, cache>>
      BY <1>4, <2>3, Zenon DEF poll_d2h
    <3> QED  BY <2>2, <3>1 DEF Kind, Still
  <2>4. CASE d.state = "live" /\ ent[e].tier = "draining"
    <3>1. /\ ent' = [ent EXCEPT ![e] = NoEntry]
          /\ cache' = IF cache[e].locks = 0 THEN [cache EXCEPT ![e] = NotCached] ELSE cache
      BY <1>4, <2>4, Zenon DEF poll_d2h
    <3> HIDE DEF e
    <3>2. SlotHeld(e) /\ cache[e] \in CacheEntry /\ cache[e].locks \in {0, 1}
      BY <2>1, ByTier DEF CacheEntry
    <3>3. ent'[e].tier = "absent" /\ \A f \in Entries \ {e} : ent'[f] = ent[f]
      BY <1>1, <2>1, <3>1 DEF NoEntry
    <3>4. CASE cache[e].locks = 0
      <4>1. /\ cache'[e].slot = 0 /\ cache'[e].ready = "no" /\ cache'[e].locks = 0
            /\ \A f \in Entries \ {e} : cache'[f] = cache[f]
        BY <1>1, <2>1, <3>1, <3>4 DEF NotCached
      <4>2. Held(ent'[e], cache'[e])
        BY <3>3, <4>1 DEF SlotHeld, Held
      <4>3. Dropped(e)
        BY <2>2, <2>4, <3>3, <4>1, <4>2 DEF Dropped, OneEntry
      <4> QED  BY <2>1, <4>3 DEF Kind
    <3>5. CASE cache[e].locks = 1
      <4>1. cache' = cache
        BY <3>1, <3>5
      <4>2. Held(ent'[e], cache'[e])
        BY <2>4, <3>2, <3>3, <3>5, <4>1 DEF SlotHeld, Held, DrainsAndLocks
      <4>3. Dropped(e)
        BY <2>2, <2>4, <3>3, <4>1, <4>2 DEF Dropped, OneEntry
      <4> QED  BY <2>1, <4>3 DEF Kind
    <3> QED  BY <3>2, <3>4, <3>5
  <2> QED  BY <2>3, <2>4
<1>5. ASSUME NEW g \in Gpus, NEW ok \in BOOLEAN, poll_h2d(g, ok) PROVE Kind
  <2> DEFINE c == HeadOf(g)
             e == HeadEntry(g)
  <2>1. /\ CopyFrame(g, ok) /\ c \in Copy /\ c.gpu = g /\ e \in Entries
        /\ (ok /\ CopySucceeds(g)) \/ (~ok /\ CopyFails(g)) \/ CopyIgnored(g, ok)
    BY <1>1, <1>5, CopySplit
  <2>2. /\ SlotHeld(e) /\ ent[e] \in GpuEntry /\ cache[e] \in CacheEntry
    BY <2>1, ByTier
  <2>3. c.state = "live" => CopyOf(c) /\ CopyAwaited(g)
    <3>1. c = stream[g][1] /\ 1 \in 1..Len(stream[g])
      <4>1. stream[g] \in Seq(Copy) /\ stream[g] # <<>>
        BY <1>1, <2>1 DEF TypeOK, CopyFrame
      <4> QED  BY <4>1 DEF HeadOf
    <3>2. c.state = "live" => CopyOf(c)
      BY <3>1 DEF Sound, CopyInv, CopiesBelong
    <3> QED  BY <2>1, <3>2 DEF CopyOf, CopyAwaited, HeadEntry, HeadOf
  <2>4. SUFFICES Over(g, ok)
    BY <2>1 DEF Kind
  <2>5. CASE CopyIgnored(g, ok)
    <3>1. c.state = "cancelled"
      <4>1. ~CopyAwaited(g)
        BY <2>5, Zenon DEF CopyIgnored
      <4> QED  BY <2>1, <2>3, <4>1, Pairs
    <3>2. UNCHANGED <<ent, cache>>
      <4>1. /\ cache' = IF c.state = "live" /\ c.by = "command" /\ ok /\ cache[e].slot # 0
                        THEN [cache EXCEPT ![e].ready = "yes"] ELSE cache
            /\ ent' = ent
        BY <2>5, Zenon DEF CopyIgnored
      <4> HIDE DEF c, e
      <4> QED  BY <3>1, <4>1
    <3> QED  BY <2>1, <3>1, <3>2, Zenon DEF Over
  <2>6. ASSUME CopyAwaited(g)
        PROVE  /\ c.state = "live" /\ ent[e].tier = "transferring" /\ cache[e].slot # 0
               /\ cache[e].ready = "no" /\ cache[e].locks = 0
    BY <2>2, <2>6 DEF CopyAwaited, SlotHeld, Held, CacheEntry
  <2>7. CASE ok /\ CopySucceeds(g)
    <3>1. /\ CopyAwaited(g)
          /\ ent' = [ent EXCEPT ![e] = [NoEntry EXCEPT !.tier = "hot"]]
          /\ cache' = IF cache[e].slot = 0 THEN cache ELSE [cache EXCEPT ![e].ready = "yes"]
      BY <2>7, Zenon DEF CopySucceeds
    <3> HIDE DEF e, c
    <3>2. cache' = [cache EXCEPT ![e].ready = "yes"]
      BY <2>6, <3>1
    <3>3. /\ ent'[e].tier = "hot" /\ ent'[e].interests = {}
          /\ \A f \in Entries \ {e} : ent'[f] = ent[f]
      BY <1>1, <2>1, <3>1 DEF NoEntry
    <3>4. /\ cache'[e].ready = "yes" /\ cache'[e].slot = cache[e].slot /\ cache'[e].locks = 0
          /\ \A f \in Entries \ {e} : cache'[f] = cache[f]
      BY <1>1, <2>1, <2>2, <2>6, <3>1, <3>2 DEF CacheEntry
    <3>5. Held(ent'[e], cache'[e])
      BY <2>6, <3>1, <3>3, <3>4 DEF SlotHeld, Held
    <3>6. OneEntry(e) /\ ent'[e].tier # "transferring" /\ c.state = "live"
      BY <2>6, <3>1, <3>3, <3>4, <3>5 DEF OneEntry
    <3> QED  BY <2>1, <2>7, <3>4, <3>6, Zenon DEF Over, e, c
  <2>8. CASE ~ok /\ CopyFails(g)
    <3>1. /\ CopyAwaited(g)
          /\ ent' = [ent EXCEPT ![e] = NoEntry]
          /\ cache' = IF cache[e].locks = 0 THEN [cache EXCEPT ![e] = NotCached] ELSE cache
      BY <2>8, Zenon DEF CopyFails
    <3> HIDE DEF e, c
    <3>2. cache' = [cache EXCEPT ![e] = NotCached]
      BY <2>6, <3>1
    <3>3. /\ ent'[e].tier = "absent"
          /\ \A f \in Entries \ {e} : ent'[f] = ent[f]
      BY <1>1, <2>1, <3>1 DEF NoEntry
    <3>4. /\ cache'[e].ready = "no" /\ cache'[e].slot = 0 /\ cache'[e].locks = 0
          /\ \A f \in Entries \ {e} : cache'[f] = cache[f]
      BY <1>1, <2>1, <3>2 DEF NotCached
    <3>5. Held(ent'[e], cache'[e])
      BY <3>3, <3>4 DEF SlotHeld, Held
    <3>6. OneEntry(e) /\ ent'[e].tier # "transferring" /\ c.state = "live" /\ cache'[e].ready # "yes"
      BY <2>6, <3>1, <3>3, <3>4, <3>5 DEF OneEntry
    <3> QED  BY <2>1, <3>6, Zenon DEF Over, e, c
  <2> QED  BY <2>1, <2>5, <2>7, <2>8
<1> QED  BY <1>2, <1>3, <1>4, <1>5 DEF Poll

LEMMA StepKind ==
  ASSUME Sound, LifecycleAssumption, TypeOK', Next
  PROVE  Kind
  BY LoopKind, ClientKind, PollKind DEF Next, Kind

-------------------------------------------------------------------------------
(* Those who wait for the NVMe tier.                                       *)

\* The parts of WaitersAbsent about who waits, and about the loop.
WaitingRight ==
  /\ \A k \in Keys : waiters[k] # <<>> => host[k] = "loading"
  /\ \A k \in Keys : \A g \in Listed(waiters[k]) :
        ent[<<k, g>>].tier = "absent" /\ ent[<<k, g>>].interests # {}

Wakeable(f) == ent[f].tier # "absent" \/ ent[f].interests # {} \/ Refused(f)

CellsRight ==
  /\ \A w \in Listed(todo) : w.op \in {"wake", "drop"} => waiters[w.key] = <<>>
  /\ \A w \in Listed(todo) : w.op \in {"start", "fail"} => w.live = "no"
  /\ \A w \in Listed(todo) : w.op = "drop" => ent[<<w.key, w.gpu>>].tier = "absent"
  /\ \A w \in Listed(todo) : w.op = "wake" => Wakeable(<<w.key, w.gpu>>)
  /\ \A w, x \in Listed(todo) : w.op = x.op

LEMMA WaitersParts == WaitersAbsent <=> WaitingRight /\ CellsRight
  BY DEF WaitersAbsent, WaitingRight, CellsRight, Wakeable

LEMMA WaitersPartsNext == WaitingRight' /\ CellsRight' => WaitersAbsent'
  BY WaitersParts, PTL

\* Nobody new waits, and who goes on waiting is as before or still asks.
FewerWait ==
  /\ \A k \in Keys : /\ Listed(waiters'[k]) \subseteq Listed(waiters[k])
                     /\ waiters[k] = <<>> => waiters'[k] = <<>>
                     /\ host'[k] = host[k] \/ waiters'[k] = <<>>
  /\ \A k \in Keys : \A g \in Listed(waiters'[k]) :
        \/ ent'[<<k, g>>] = ent[<<k, g>>]
        \/ ent'[<<k, g>>].tier = "absent" /\ ent'[<<k, g>>].interests # {}

LEMMA FewerWaitRight ==
  ASSUME WaitingRight, FewerWait
  PROVE  WaitingRight'
  BY DEF WaitingRight, FewerWait

LEMMA NoCells ==
  ASSUME todo' = <<>>
  PROVE  CellsRight'
<1>1. Listed(todo') = {}
  BY DEF Listed
<1> QED  BY <1>1 DEF CellsRight

\* A step on an entry that is not ABSENT, or one on no entry.
LEMMA OtherEntries ==
  ASSUME WaitingRight, NEW e \in Entries, \A f \in Entries \ {e} : ent'[f] = ent[f],
         ent[e].tier # "absent",
         \A k \in Keys : /\ Listed(waiters'[k]) \subseteq Listed(waiters[k])
                         /\ waiters[k] = <<>> => waiters'[k] = <<>>
                         /\ host'[k] = host[k] \/ waiters'[k] = <<>>,
         waiters \in [Keys -> Seq(Gpus)]
  PROVE  FewerWait
<1>1. ASSUME NEW k \in Keys, NEW g \in Listed(waiters'[k]) PROVE ent'[<<k, g>>] = ent[<<k, g>>]
  <2>1. waiters[k] \in Seq(Gpus) /\ g \in Listed(waiters[k])
    OBVIOUS
  <2>2. g \in Gpus
    BY <2>1 DEF Listed
  <2>3. <<k, g>> \in Entries /\ ent[<<k, g>>].tier = "absent"
    BY <2>1, <2>2 DEF Entries, WaitingRight
  <2> QED  BY <2>3
<1> QED  BY <1>1 DEF FewerWait

\* revert_gpu_entry takes the entry off the list.
LEMMA RevertedWait ==
  ASSUME TypeOK, NEW e \in Entries, EntryReverted(e), UNCHANGED host
  PROVE  FewerWait
<1>1. /\ \A f \in Entries \ {e} : ent'[f] = ent[f]
      /\ waiters' \in [Keys -> Seq(Gpus)]
      /\ \A k \in Keys : /\ Listed(waiters'[k]) \subseteq Listed(waiters[k])
                         /\ waiters[k] = <<>> => waiters'[k] = <<>>
      /\ e[2] \notin Listed(waiters'[e[1]])
  BY DEF EntryReverted
<1>2. ASSUME NEW k \in Keys, NEW g \in Listed(waiters'[k]) PROVE ent'[<<k, g>>] = ent[<<k, g>>]
  <2>1. waiters'[k] \in Seq(Gpus)
    BY <1>1
  <2>2. g \in Gpus
    BY <2>1 DEF Listed
  <2>3. <<k, g>> \in Entries /\ <<k, g>> # e
    BY <1>1, <2>2 DEF Entries
  <2> QED  BY <1>1, <2>3
<1> QED  BY <1>1, <1>2 DEF FewerWait

\* A cell of a loop that goes on is a cell of the loop, or a stale copy of one.
CellsFrom ==
  \A w \in Listed(todo') : \E c \in Listed(todo) :
     w.op = c.op /\ w.key = c.key /\ w.gpu = c.gpu /\ w.live \in {c.live, "no"}

LEMMA CellsTyped ==
  ASSUME TypeOK
  PROVE  \A c \in Listed(todo) :
            c \in Work /\ c.key \in Keys /\ c.gpu \in Gpus /\ <<c.key, c.gpu>> \in Entries
<1>1. todo \in Seq(Work)
  BY DEF TypeOK
<1>2. \A c \in Listed(todo) : c \in Work
  BY <1>1 DEF Listed
<1> QED  BY <1>2 DEF Work, Entries

LEMMA CellsGoOn ==
  ASSUME TypeOK, CellsRight, FewerWait, CellsFrom,
         \A c \in Listed(todo) : c.op = "drop" => ent'[<<c.key, c.gpu>>].tier = "absent",
         \A c \in Listed(todo) : c.op = "wake" => Wakeable(<<c.key, c.gpu>>)'
  PROVE  CellsRight'
<1>1. \A c \in Listed(todo) : c.key \in Keys
  BY CellsTyped
<1>2. \A w \in Listed(todo') : w.op \in {"wake", "drop"} => waiters'[w.key] = <<>>
  BY <1>1 DEF CellsRight, CellsFrom, FewerWait
<1>3. \A w \in Listed(todo') : w.op \in {"start", "fail"} => w.live = "no"
  BY DEF CellsRight, CellsFrom
<1>4. \A w \in Listed(todo') : w.op = "drop" => ent'[<<w.key, w.gpu>>].tier = "absent"
  BY DEF CellsFrom
<1>5. \A w \in Listed(todo') : w.op = "wake" => Wakeable(<<w.key, w.gpu>>)'
  <2> SUFFICES ASSUME NEW w \in Listed(todo'), w.op = "wake" PROVE Wakeable(<<w.key, w.gpu>>)'
    OBVIOUS
  <2>1. PICK c \in Listed(todo) : w.op = c.op /\ w.key = c.key /\ w.gpu = c.gpu
    BY DEF CellsFrom
  <2>2. Wakeable(<<c.key, c.gpu>>)'
    BY <2>1
  <2> QED  BY <2>1, <2>2
<1>6. \A w, x \in Listed(todo') : w.op = x.op
  BY DEF CellsRight, CellsFrom
<1> QED  BY <1>2, <1>3, <1>4, <1>5, <1>6 DEF CellsRight

LEMMA LoopWaiters ==
  ASSUME Sound, LifecycleAssumption, UNCHANGED commands, TypeOK', poll_continues
  PROVE  WaitersAbsent'
<1> USE DEF elmVars, tokenVars, copyVars
<1>1. TypeOK /\ WaitingRight /\ CellsRight
  BY WaitersParts DEF Sound
<1>2. todo # <<>> /\ todo \in Seq(Work) /\ UNCHANGED host
  BY <1>1, LoopSplit DEF TypeOK
<1>3. PICK e : e = Current
  OBVIOUS
<1>4. /\ Head(todo) \in Listed(todo) /\ Listed(Tail(todo)) \subseteq Listed(todo)
      /\ Head(todo) \in Work
  BY <1>2, TailListed
<1>5. /\ e \in Entries /\ e[1] = Head(todo).key /\ e[2] = Head(todo).gpu
      /\ e = <<Head(todo).key, Head(todo).gpu>>
  BY <1>3, <1>4 DEF Current, Work, Entries
<1>6. ent \in [Entries -> GpuEntry] /\ cache \in [Entries -> CacheEntry]
      /\ waiters \in [Keys -> Seq(Gpus)]
  BY <1>1 DEF TypeOK
<1>7. todo' = Tail(todo) => CellsFrom
  BY <1>4 DEF CellsFrom
<1>8. \A c \in Listed(todo) : c.op = Head(todo).op
  BY <1>1, <1>4 DEF CellsRight
<1>9. ASSUME FewerWait, CellsFrom,
             Head(todo).op = "drop" =>
               \A c \in Listed(todo) : ent'[<<c.key, c.gpu>>].tier = "absent",
             Head(todo).op = "wake" =>
               \A c \in Listed(todo) : Wakeable(<<c.key, c.gpu>>)'
      PROVE  WaitersAbsent'
  <2>1. WaitingRight'
    BY <1>1, <1>9, FewerWaitRight
  <2>2. CellsRight'
    <3>1. \A c \in Listed(todo) : c.op = "drop" => ent'[<<c.key, c.gpu>>].tier = "absent"
      BY <1>8, <1>9
    <3>2. \A c \in Listed(todo) : c.op = "wake" => Wakeable(<<c.key, c.gpu>>)'
      BY <1>8, <1>9
    <3> QED  BY <1>1, <1>9, <3>1, <3>2, CellsGoOn
  <2> QED  BY <2>1, <2>2, WaitersPartsNext
<1>10. \A c \in Listed(todo) : <<c.key, c.gpu>> \in Entries
  BY <1>1, CellsTyped
<1>11. CASE LoopFails
  <2>1. EntryReverted(e)
    BY <1>1, <1>3, <1>5, <1>11, RevertEffect DEF LoopFails, FailEntry
  <2>2. FewerWait
    BY <1>1, <1>2, <1>5, <2>1, RevertedWait
  <2>3. ent'[e] = NoEntry /\ \A f \in Entries \ {e} : ent'[f] = ent[f]
    BY <2>1 DEF EntryReverted
  <2>4. CellsFrom
    <3> DEFINE cells == Erased(todo, e[2])
    <3>1. todo' = Tail(cells)
      BY <1>3, <1>11 DEF LoopFails, FailEntry
    <3>2. /\ cells \in Seq(Work) /\ Len(cells) = Len(todo)
          /\ \A i \in 1..Len(todo) : \E c \in Listed(todo) :
               cells[i] = c \/ cells[i] = [c EXCEPT !.live = "no"]
      BY <1>2, ErasedType
    <3> HIDE DEF cells
    <3>3. cells # <<>>
      BY <1>2, <3>2
    <3>4. Listed(todo') \subseteq Listed(cells)
      BY <3>1, <3>2, <3>3, TailListed
    <3>5. ASSUME NEW w \in Listed(todo')
          PROVE  \E c \in Listed(todo) :
                   w.op = c.op /\ w.key = c.key /\ w.gpu = c.gpu /\ w.live \in {c.live, "no"}
      <4>1. PICK i \in 1..Len(todo) : w = cells[i]
        BY <3>2, <3>4 DEF Listed
      <4>2. PICK c \in Listed(todo) : w = c \/ w = [c EXCEPT !.live = "no"]
        BY <3>2, <4>1
      <4>3. c \in Work
        BY <1>1, CellsTyped
      <4>4. w.op = c.op /\ w.key = c.key /\ w.gpu = c.gpu /\ w.live \in {c.live, "no"}
        BY <4>2, <4>3 DEF Work
      <4> QED  BY <4>4
    <3> QED  BY <3>5 DEF CellsFrom
  <2>5. ASSUME Head(todo).op = "drop", NEW c \in Listed(todo)
        PROVE  ent'[<<c.key, c.gpu>>].tier = "absent"
    <3>1. c.op = "drop" /\ ent[<<c.key, c.gpu>>].tier = "absent" /\ <<c.key, c.gpu>> \in Entries
      BY <1>1, <1>8, <1>10, <2>5 DEF CellsRight
    <3> QED  BY <2>3, <3>1 DEF NoEntry
  <2>6. ASSUME Head(todo).op = "wake", NEW c \in Listed(todo)
        PROVE  Wakeable(<<c.key, c.gpu>>)'
    <3>1. ent[e].tier = "absent" /\ Refused(e)
      BY <1>3, <1>11, <2>6 DEF LoopFails
    <3>2. cache' = cache
      <4>1. \A f \in Entries : cache'[f] = cache[f]
        BY <2>1, <3>1 DEF EntryReverted
      <4>2. cache' \in [Entries -> CacheEntry]
        BY <2>1 DEF EntryReverted
      <4> QED  BY <1>6, <4>1, <4>2
    <3>3. Wakeable(<<c.key, c.gpu>>) /\ <<c.key, c.gpu>> \in Entries
      BY <1>1, <1>8, <1>10, <2>6 DEF CellsRight
    <3>4. PICK f : f = <<c.key, c.gpu>>
      OBVIOUS
    <3>5. Wakeable(f)'
      <4>1. CASE f = e
        BY <3>1, <3>2, <4>1 DEF Wakeable, Refused, FreeSlots
      <4>2. CASE f # e
        BY <2>3, <3>2, <3>3, <3>4, <4>2 DEF Wakeable, Refused, FreeSlots
      <4> QED  BY <4>1, <4>2
    <3> QED  BY <3>4, <3>5
  <2> QED  BY <1>9, <2>2, <2>4, <2>5, <2>6
<1>12. CASE LoopReserves
  <2>1. /\ Head(todo).op = "wake" /\ ent[e].tier = "absent" /\ ~Refused(e)
        /\ ReserveAndStart(e, ent[e].interests) /\ UNCHANGED waiters /\ todo' = Tail(todo)
    BY <1>3, <1>12 DEF LoopReserves
  <2> DEFINE v == [NoEntry EXCEPT !.tier = "reserved", !.interests = ent[e].interests]
  <2>2. PICK s \in FreeSlots(e[2]) :
          /\ cache' = [cache EXCEPT ![e] = [NotCached EXCEPT !.slot = s]]
          /\ try_start_h2d(e, v, cache')
    BY <2>1 DEF ReserveAndStart
  <2>3. ent[e].interests \in SUBSET Tokens
    BY <1>5, <1>6 DEF GpuEntry
  <2>4. v \in GpuEntry /\ v.tier = "reserved"
    BY <2>3, Values DEF NoEntry
  <2>5. s \in SlotIds /\ cache' \in [Entries -> CacheEntry]
    BY <1>5, <1>6, <2>2, Values DEF FreeSlots
  <2> HIDE DEF v
  <2>6. PICK cached : cached = cache'
    OBVIOUS
  <2>7. PICK res, pin : Starts(e, v, cached, res, pin)
    BY <1>1, <1>5, <2>2, <2>4, <2>5, <2>6, TryStartEffect
  <2>8. ent'[e].tier # "absent" /\ \A f \in Entries \ {e} : ent'[f] = ent[f]
    BY <2>4, <2>7 DEF Starts
  <2>9. waiters[e[1]] = <<>>
    BY <1>1, <1>4, <1>5, <2>1 DEF CellsRight
  <2>10. FewerWait
    <3>1. ASSUME NEW k \in Keys, NEW g \in Listed(waiters[k]) PROVE ent'[<<k, g>>] = ent[<<k, g>>]
      <4>1. waiters[k] \in Seq(Gpus) /\ k # e[1]
        BY <1>6, <2>9, <3>1 DEF Listed
      <4>2. <<k, g>> \in Entries /\ <<k, g>> # e
        BY <1>5, <4>1 DEF Listed, Entries
      <4> QED  BY <2>8, <4>2
    <3> QED  BY <1>2, <2>1, <3>1 DEF FewerWait
  <2>11. ASSUME NEW c \in Listed(todo) PROVE Wakeable(<<c.key, c.gpu>>)'
    <3>1. PICK f : f = <<c.key, c.gpu>>
      OBVIOUS
    <3>2. Wakeable(f) /\ f \in Entries
      BY <1>1, <1>8, <1>10, <2>1, <3>1 DEF CellsRight
    <3>3. Wakeable(f)'
      <4>1. CASE f = e
        BY <2>8, <4>1 DEF Wakeable
      <4>2. CASE f # e
        <5>1. ent'[f] = ent[f] /\ cache'[f].slot = cache[f].slot
          BY <1>6, <2>2, <2>8, <3>2, <4>2
        <5>2. FreeSlots(f[2])' \subseteq FreeSlots(f[2])
          <6> SUFFICES ASSUME NEW x \in SlotIds, NEW k \in Keys, cache[<<k, f[2]>>].slot = x
                       PROVE  \E j \in Keys : cache'[<<j, f[2]>>].slot = x
            BY DEF FreeSlots
          <6>1. f[2] \in Gpus /\ <<k, f[2]>> \in Entries /\ x # 0
            BY <3>2, Pairs DEF Entries, SlotIds
          <6>2. cache[e].slot = 0
            BY <2>1 DEF Refused
          <6>3. <<k, f[2]>> # e
            BY <6>1, <6>2
          <6>4. cache'[<<k, f[2]>>] = cache[<<k, f[2]>>]
            BY <1>6, <2>2, <6>1, <6>3
          <6> QED  BY <6>4
        <5>3. CASE Refused(f)
          BY <5>1, <5>2, <5>3 DEF Refused, Wakeable
        <5>4. CASE ~Refused(f)
          BY <3>2, <5>1, <5>4 DEF Wakeable
        <5> QED  BY <5>3, <5>4
      <4> QED  BY <4>1, <4>2
    <3> QED  BY <3>1, <3>3
  <2> QED  BY <1>7, <1>9, <2>1, <2>10, <2>11
<1>13. CASE LoopStarts
  <2>1. /\ Head(todo).op \in {"wake", "start"} /\ ent[e].tier = "reserved"
        /\ try_start_h2d(e, ent[e], cache) /\ UNCHANGED <<waiters, cache>> /\ todo' = Tail(todo)
    BY <1>3, <1>13 DEF LoopStarts
  <2>2. PICK res, pin : Starts(e, ent[e], cache, res, pin)
    BY <1>1, <1>5, <1>6, <2>1, TryStartEffect
  <2>3. ent'[e].tier # "absent" /\ \A f \in Entries \ {e} : ent'[f] = ent[f]
    BY <2>1, <2>2 DEF Starts
  <2>4. FewerWait
    BY <1>1, <1>2, <1>5, <1>6, <2>1, <2>3, OtherEntries
  <2>5. ASSUME Head(todo).op = "wake", NEW c \in Listed(todo) PROVE Wakeable(<<c.key, c.gpu>>)'
    <3>1. PICK f : f = <<c.key, c.gpu>>
      OBVIOUS
    <3>2. Wakeable(f) /\ f \in Entries
      BY <1>1, <1>8, <1>10, <2>5, <3>1 DEF CellsRight
    <3>3. Wakeable(f)'
      BY <2>1, <2>3, <3>2 DEF Wakeable, Refused, FreeSlots
    <3> QED  BY <3>1, <3>3
  <2> QED  BY <1>7, <1>9, <2>1, <2>4, <2>5
<1>14. CASE LoopSkips
  <2>1. UNCHANGED <<ent, cache, waiters>> /\ todo' = Tail(todo)
    BY <1>14 DEF LoopSkips
  <2>2. FewerWait
    BY <1>2, <2>1 DEF FewerWait
  <2>3. Head(todo).op = "drop" => \A c \in Listed(todo) : ent'[<<c.key, c.gpu>>].tier = "absent"
    BY <1>1, <1>8, <2>1 DEF CellsRight
  <2>4. Head(todo).op = "wake" => \A c \in Listed(todo) : Wakeable(<<c.key, c.gpu>>)'
    <3>1. \A f : Wakeable(f) => Wakeable(f)'
      BY <2>1 DEF Wakeable, Refused, FreeSlots
    <3>2. Head(todo).op = "wake" => \A c \in Listed(todo) : Wakeable(<<c.key, c.gpu>>)
      BY <1>1, <1>8 DEF CellsRight
    <3>3. ASSUME NEW c \in Listed(todo), Head(todo).op = "wake" PROVE Wakeable(<<c.key, c.gpu>>)'
      <4>1. PICK f : f = <<c.key, c.gpu>>
        OBVIOUS
      <4> QED  BY <3>1, <3>2, <3>3, <4>1
    <3> QED  BY <3>3
  <2> QED  BY <1>7, <1>9, <2>1, <2>2, <2>3, <2>4
<1> QED  BY <1>11, <1>12, <1>13, <1>14, LoopSplit

\* The cells of a loop over waiters of the arena, or of slot pressure.
LEMMA NewCells ==
  ASSUME \A w \in Listed(todo') : w.op \in {"start", "fail"} /\ w.live = "no",
         \A w, x \in Listed(todo') : w.op = x.op
  PROVE  CellsRight'
  BY DEF CellsRight

LEMMA EnsureWaiters ==
  ASSUME Sound, LifecycleAssumption, UNCHANGED commands, TypeOK', todo = <<>>,
         NEW e \in Entries, ensure_resident(e)
  PROVE  WaitersAbsent'
<1> USE DEF elmVars, tokenVars, copyVars
<1>1. TypeOK /\ WaitingRight
  BY WaitersParts DEF Sound
<1>2. e[1] \in Keys /\ e[2] \in Gpus /\ e = <<e[1], e[2]>>
  BY Pairs
<1>3. /\ ent \in [Entries -> GpuEntry] /\ waiters \in [Keys -> Seq(Gpus)]
      /\ host \in [Keys -> {"cold", "loading", "warm"}] /\ cache \in [Entries -> CacheEntry]
      /\ ent[e] \in GpuEntry
  BY <1>1 DEF TypeOK
<1>4. /\ next_token_ \in Tokens /\ todo' = <<>>
      /\ host' = [host EXCEPT ![e[1]] = IF Gone(e) /\ Warm(e[1]) THEN "warm" ELSE HostTier(e[1])]
  BY EnsureSplit DEF EnsureFrame
<1>5. CellsRight'
  BY <1>4, NoCells
<1>6. SUFFICES WaitingRight'
  BY <1>5, WaitersPartsNext
<1>7. waiters[e[1]] # <<>> => HostTier(e[1]) = "loading" /\ ~Warm(e[1])
  BY <1>1, <1>2 DEF WaitingRight, HostTier, Warm
<1>8. \A k \in Keys : host'[k] = host[k] \/ waiters[k] = <<>>
  BY <1>1, <1>2, <1>3, <1>4, <1>7 DEF WaitingRight
<1>9. Asked(e) \in SUBSET Tokens /\ Asked(e) # {}
  BY <1>3, <1>4 DEF Asked, GpuEntry
<1>10. ASSUME UNCHANGED waiters, ent[e].tier # "absent", \A f \in Entries \ {e} : ent'[f] = ent[f]
       PROVE  WaitingRight'
  <2>1. FewerWait
    BY <1>1, <1>3, <1>8, <1>10, OtherEntries
  <2> QED  BY <1>1, <2>1, FewerWaitRight
<1>11. ASSUME waiters[e[1]] = <<>>, \A k \in Keys : waiters'[k] = waiters[k],
              \A f \in Entries \ {e} : ent'[f] = ent[f]
       PROVE  WaitingRight'
  <2>1. ASSUME NEW k \in Keys, NEW g \in Listed(waiters'[k]) PROVE ent'[<<k, g>>] = ent[<<k, g>>]
    <3>1. waiters[k] \in Seq(Gpus) /\ g \in Listed(waiters[k]) /\ k # e[1]
      BY <1>3, <1>11, <2>1 DEF Listed
    <3>2. <<k, g>> \in Entries /\ <<k, g>> # e
      BY <1>2, <3>1 DEF Listed, Entries
    <3> QED  BY <1>11, <3>2
  <2>2. FewerWait
    BY <1>8, <1>11, <2>1 DEF FewerWait
  <2> QED  BY <1>1, <2>2, FewerWaitRight
<1>12. CASE EnsureAnswers(e)
  <2>1. UNCHANGED <<ent, waiters>>
    BY <1>12 DEF EnsureAnswers, Immediate
  <2>2. FewerWait
    BY <1>8, <2>1 DEF FewerWait
  <2> QED  BY <1>1, <2>2, FewerWaitRight
<1>13. CASE EnsureJoins(e)
  <2>1. /\ ent[e].tier # "absent" /\ UNCHANGED waiters
        /\ \A f \in Entries \ {e} : ent'[f] = ent[f]
    BY <1>3, <1>13 DEF EnsureJoins
  <2> QED  BY <1>10, <2>1
<1>14. CASE EnsureRestarts(e)
  <2> DEFINE v == [ent[e] EXCEPT !.interests = Asked(e)]
  <2>1. ent[e].tier = "reserved" /\ UNCHANGED waiters /\ try_start_h2d(e, v, cache)
    BY <1>14 DEF EnsureRestarts
  <2>2. v \in GpuEntry
    BY <1>3, <1>9, Values
  <2> HIDE DEF v
  <2>3. PICK res, pin : Starts(e, v, cache, res, pin)
    BY <1>1, <1>3, <2>1, <2>2, TryStartEffect
  <2>4. \A f \in Entries \ {e} : ent'[f] = ent[f]
    BY <2>3 DEF Starts
  <2> QED  BY <1>10, <2>1, <2>4
<1>15. CASE EnsureWaits(e)
  <2>1. /\ HostTier(e[1]) = "loading"
        /\ ent' = [ent EXCEPT ![e] = [NoEntry EXCEPT !.interests = Asked(e)]]
        /\ waiters' = [waiters EXCEPT ![e[1]] = Append(@, e[2])]
    BY <1>15 DEF EnsureWaits
  <2>2. ent'[e].tier = "absent" /\ ent'[e].interests # {} /\ \A f \in Entries \ {e} : ent'[f] = ent[f]
    BY <1>3, <1>9, <2>1 DEF NoEntry
  <2>3. \A k \in Keys : k # e[1] => waiters'[k] = waiters[k] /\ host'[k] = host[k]
    BY <1>2, <1>3, <1>4, <2>1
  <2>4. host'[e[1]] = "loading"
    <3>1. ~Warm(e[1])
      BY <2>1 DEF Warm
    <3> QED  BY <1>2, <1>3, <1>4, <2>1, <3>1
  <2>5. Listed(waiters'[e[1]]) \subseteq Listed(waiters[e[1]]) \cup {e[2]}
    <3> DEFINE q == waiters[e[1]]
    <3>1. q \in Seq(Gpus) /\ waiters'[e[1]] = Append(q, e[2])
      BY <1>2, <1>3, <2>1
    <3> HIDE DEF q
    <3>2. /\ Len(Append(q, e[2])) = Len(q) + 1 /\ Append(q, e[2])[Len(q) + 1] = e[2]
          /\ \A i \in 1..Len(q) : Append(q, e[2])[i] = q[i]
      BY <1>2, <3>1
    <3>3. Listed(Append(q, e[2])) \subseteq Listed(q) \cup {e[2]}
      BY <3>1, <3>2 DEF Listed
    <3> QED  BY <3>1, <3>3 DEF q
  <2>6. ASSUME NEW k \in Keys, NEW g \in Listed(waiters'[k])
        PROVE  ent'[<<k, g>>].tier = "absent" /\ ent'[<<k, g>>].interests # {}
    <3>1. CASE <<k, g>> = e
      BY <2>2, <3>1
    <3>2. CASE <<k, g>> # e
      <4>1. g \in Listed(waiters[k])
        BY <1>2, <2>3, <2>5, <2>6, <3>2
      <4>2. waiters[k] \in Seq(Gpus)
        BY <1>3
      <4>3. <<k, g>> \in Entries
        BY <4>1, <4>2 DEF Listed, Entries
      <4> QED  BY <1>1, <2>2, <3>2, <4>1, <4>3 DEF WaitingRight
    <3> QED  BY <3>1, <3>2
  <2>7. \A k \in Keys : waiters'[k] # <<>> => host'[k] = "loading"
    BY <1>1, <2>3, <2>4 DEF WaitingRight
  <2> QED  BY <2>6, <2>7 DEF WaitingRight
<1>16. CASE EnsureReserves(e)
  <2>1. Warm(e[1]) /\ ReserveAndStart(e, Asked(e)) /\ UNCHANGED waiters
    BY <1>16 DEF EnsureReserves
  <2> DEFINE v == [NoEntry EXCEPT !.tier = "reserved", !.interests = Asked(e)]
  <2>2. PICK s \in FreeSlots(e[2]) :
          /\ cache' = [cache EXCEPT ![e] = [NotCached EXCEPT !.slot = s]]
          /\ try_start_h2d(e, v, cache')
    BY <2>1 DEF ReserveAndStart
  <2>3. v \in GpuEntry
    BY <1>9, Values
  <2>4. cache' \in [Entries -> CacheEntry]
    BY <1>3, <2>2, Values DEF FreeSlots
  <2> HIDE DEF v
  <2>5. PICK res, pin : Starts(e, v, cache', res, pin)
    BY <1>1, <2>2, <2>3, <2>4, TryStartEffect
  <2>6. \A f \in Entries \ {e} : ent'[f] = ent[f]
    BY <2>5 DEF Starts
  <2> QED  BY <1>7, <1>11, <2>1, <2>6
<1>17. CASE EnsureFails(e)
  <2>1. /\ HostTier(e[1]) # "loading" /\ ent' = [ent EXCEPT ![e] = NoEntry]
        /\ waiters' = [waiters EXCEPT ![e[1]] = Without(@, e[2])]
    BY <1>17 DEF EnsureFails
  <2>2. waiters[e[1]] = <<>>
    BY <1>7, <2>1
  <2>3. \A k \in Keys : waiters'[k] = waiters[k]
    BY <1>2, <1>3, <2>1, <2>2, WithoutEmpty
  <2> QED  BY <1>3, <1>11, <2>1, <2>2, <2>3
<1> QED  BY <1>12, <1>13, <1>14, <1>15, <1>16, <1>17, EnsureSplit

LEMMA WaitersStep ==
  ASSUME Sound, LifecycleAssumption, TypeOK', Next
  PROVE  WaitersAbsent'
<1> USE DEF elmVars, tokenVars, copyVars
<1>1. CASE poll_continues
  BY <1>1, LoopWaiters DEF Next
<1>2. SUFFICES ASSUME todo = <<>>, Client \/ flush_staged \/ Poll PROVE WaitersAbsent'
  BY <1>1 DEF Next
<1>3. TypeOK /\ WaitingRight /\ UNCHANGED commands /\ ThroughManager
  BY WaitersParts DEF Sound, Next
<1>4. /\ ent \in [Entries -> GpuEntry] /\ waiters \in [Keys -> Seq(Gpus)]
  BY <1>3 DEF TypeOK
<1>5. ASSUME todo' = <<>>, FewerWait PROVE WaitersAbsent'
  BY <1>3, <1>5, NoCells, FewerWaitRight, WaitersPartsNext
<1>6. ASSUME UNCHANGED <<ent, waiters, host>> PROVE FewerWait
  BY <1>6 DEF FewerWait
<1>7. ASSUME NEW e \in Entries, NEW u, ent' = [ent EXCEPT ![e] = u], ent[e].tier # "absent",
             UNCHANGED <<waiters, host>>
      PROVE  FewerWait
  <2>1. \A f \in Entries \ {e} : ent'[f] = ent[f]
    BY <1>4, <1>7
  <2> QED  BY <1>3, <1>4, <1>7, <2>1, OtherEntries
<1>8. CASE Client
  <2>1. ASSUME NEW t \in Tokens, cancel(t) PROVE WaitersAbsent'
    <3>1. PICK e : e = token_index_[t]
      OBVIOUS
    <3>2. e \in Entries /\ UNCHANGED <<host, todo>>
      BY <1>3, <2>1, <3>1 DEF cancel, TypeOK
    <3>3. CASE ent[e].interests \subseteq {t}
      <4>1. revert_gpu_entry(e)
        BY <2>1, <3>1, <3>3 DEF cancel
      <4> QED  BY <1>2, <1>3, <1>5, <3>2, <4>1, RevertEffect, RevertedWait
    <3>4. CASE ~(ent[e].interests \subseteq {t})
      <4>1. ent' = [ent EXCEPT ![e].interests = @ \ {t}] /\ UNCHANGED waiters
        BY <2>1, <3>1, <3>4 DEF cancel
      <4>2. ent[e] \in GpuEntry
        BY <1>4, <3>2
      <4>3. /\ ent'[e].tier = ent[e].tier /\ ent'[e].interests # {}
            /\ \A f \in Entries \ {e} : ent'[f] = ent[f]
        BY <1>4, <3>2, <3>4, <4>1, <4>2 DEF GpuEntry
      <4>4. ASSUME NEW k \in Keys, NEW g \in Listed(waiters[k])
            PROVE  \/ ent'[<<k, g>>] = ent[<<k, g>>]
                   \/ ent'[<<k, g>>].tier = "absent" /\ ent'[<<k, g>>].interests # {}
        <5>1. waiters[k] \in Seq(Gpus)
          BY <1>4
        <5>2. <<k, g>> \in Entries /\ ent[<<k, g>>].tier = "absent"
          BY <1>3, <4>4, <5>1 DEF Listed, Entries, WaitingRight
        <5> QED  BY <4>3, <5>2
      <4>5. FewerWait
        BY <3>2, <4>1, <4>4 DEF FewerWait
      <4> QED  BY <1>2, <1>5, <3>2, <4>5
    <3> QED  BY <3>3, <3>4
  <2>2. ASSUME NEW e \in Entries, request_evict(e) PROVE WaitersAbsent'
    <3>1. /\ ent' = [ent EXCEPT ![e] = NoEntry] /\ ent[e].interests = {}
          /\ UNCHANGED <<waiters, host, todo>>
      BY <2>2 DEF request_evict
    <3>2. \A f \in Entries \ {e} : ent'[f] = ent[f]
      BY <1>4, <3>1
    <3>3. ASSUME NEW k \in Keys, NEW g \in Listed(waiters[k]) PROVE ent'[<<k, g>>] = ent[<<k, g>>]
      <4>1. waiters[k] \in Seq(Gpus)
        BY <1>4
      <4>2. <<k, g>> \in Entries /\ ent[<<k, g>>].interests # {}
        BY <1>3, <3>3, <4>1 DEF Listed, Entries, WaitingRight
      <4> QED  BY <3>1, <3>2, <4>2
    <3>4. FewerWait
      BY <3>1, <3>3 DEF FewerWait
    <3> QED  BY <1>2, <1>5, <3>1, <3>4
  <2>3. ASSUME NEW e \in Entries, request_drain(e) PROVE WaitersAbsent'
    <3>1. /\ ent' = [ent EXCEPT ![e] = [ent[e] EXCEPT !.tier = "draining"]] /\ ent[e].tier = "hot"
          /\ UNCHANGED <<waiters, host, todo>>
      BY <2>3 DEF request_drain
    <3> QED  BY <1>2, <1>5, <1>7, <3>1
  <2>4. ASSUME NEW e \in Entries,
               \/ lock(e) \/ unlock(e) \/ handle_cache_evict(e) \/ handle_cache_reserve(e)
               \/ handle_transfer_h2d(e) \/ handle_cancel_transfer(e)
        PROVE  WaitersAbsent'
    <3>1. UNCHANGED <<ent, waiters, host, todo>>
      BY <2>4 DEF lock, unlock, handle_cache_evict, handle_cache_reserve, handle_transfer_h2d,
                  handle_cancel_transfer
    <3> QED  BY <1>2, <1>5, <1>6, <3>1
  <2>5. ASSUME NEW k \in Keys, handle_nvme_write(k) \/ cancel_nvme_write(k) PROVE WaitersAbsent'
    <3>1. UNCHANGED <<ent, waiters, host, todo>>
      BY <2>5 DEF handle_nvme_write, cancel_nvme_write
    <3> QED  BY <1>2, <1>5, <1>6, <3>1
  <2> QED  BY <1>2, <1>3, <1>8, <2>1, <2>2, <2>3, <2>4, <2>5, EnsureWaiters DEF Client
<1>9. CASE flush_staged
  <2>1. UNCHANGED <<ent, waiters, host, todo>>
    BY <1>9 DEF flush_staged
  <2> QED  BY <1>2, <1>5, <1>6, <2>1
<1>10. CASE Poll
  <2>1. CASE poll_nothing
    <3>1. UNCHANGED <<ent, waiters, host, todo>>
      BY <2>1 DEF poll_nothing
    <3> QED  BY <1>2, <1>5, <1>6, <3>1
  <2>2. ASSUME NEW k \in Keys, NEW ok \in BOOLEAN, poll_arena(k, ok) PROVE WaitersAbsent'
    <3> DEFINE op == IF ok THEN "start" ELSE "fail"
    <3>1. /\ UNCHANGED <<ent, waiters, host>>
          /\ todo' = Works(op, k, arena_load_waiters_[k], "no")
      BY <2>2 DEF poll_arena
    <3>2. op \in {"start", "fail"} /\ arena_load_waiters_[k] \in Seq(Gpus)
      BY <1>3 DEF TypeOK
    <3> HIDE DEF op
    <3>3. \A w \in Listed(todo') : w.op = op /\ w.live = "no"
      BY <3>1, <3>2, WorksType
    <3>4. CellsRight'
      BY <3>2, <3>3, NewCells
    <3> QED  BY <1>3, <1>6, <3>1, <3>4, FewerWaitRight, WaitersPartsNext
  <2>3. ASSUME NEW k \in Keys, NEW ok \in BOOLEAN, poll_nvme(k, ok) PROVE WaitersAbsent'
    <3>1. CASE host[k] # "loading"
      <4>1. UNCHANGED <<ent, host, todo, waiters>>
        BY <2>3, <3>1 DEF poll_nvme
      <4> QED  BY <1>2, <1>5, <1>6, <4>1
    <3>2. CASE host[k] = "loading"
      <4> DEFINE op == IF ok THEN "wake" ELSE "drop"
      <4>1. /\ host' = [host EXCEPT ![k] = IF ok THEN "warm" ELSE "cold"]
            /\ todo' = Works(op, k, waiters[k], "yes")
            /\ waiters' = [waiters EXCEPT ![k] = <<>>] /\ ent' = ent
        BY <2>3, <3>2 DEF poll_nvme
      <4>2. op \in {"wake", "drop"} /\ waiters[k] \in Seq(Gpus)
            /\ host \in [Keys -> {"cold", "loading", "warm"}]
        BY <1>3 DEF TypeOK
      <4> HIDE DEF op
      <4>3. \A w \in Listed(todo') : w.op = op /\ w.key = k /\ w.gpu \in Listed(waiters[k])
        BY <4>1, <4>2, WorksType
      <4>4. \A j \in Keys : IF j = k THEN waiters'[j] = <<>>
                                     ELSE waiters'[j] = waiters[j] /\ host'[j] = host[j]
        BY <1>4, <4>1, <4>2
      <4>5. FewerWait
        <5>1. Listed(<<>>) = {}
          BY DEF Listed
        <5> QED  BY <4>1, <4>4, <5>1 DEF FewerWait
      <4>6. \A w \in Listed(todo') : /\ ent'[<<w.key, w.gpu>>].tier = "absent"
                                     /\ ent'[<<w.key, w.gpu>>].interests # {}
        BY <1>3, <4>1, <4>3 DEF WaitingRight
      <4>7. CellsRight'
        BY <4>2, <4>3, <4>4, <4>6 DEF CellsRight, Wakeable
      <4> QED  BY <1>3, <4>5, <4>7, FewerWaitRight, WaitersPartsNext
    <3> QED  BY <3>1, <3>2
  <2>4. ASSUME NEW d \in drains, NEW ok \in BOOLEAN, poll_d2h(d, ok) PROVE WaitersAbsent'
    <3> DEFINE e == <<d.key, d.gpu>>
    <3>1. e \in Entries
      BY <1>3 DEF TypeOK, Drain, Entries
    <3>2. UNCHANGED <<waiters, host, todo>>
      BY <2>4 DEF poll_d2h
    <3>3. ent' = ent \/ (ent[e].tier = "draining" /\ ent' = [ent EXCEPT ![e] = NoEntry])
      BY <2>4, Zenon DEF poll_d2h
    <3> QED  BY <1>2, <1>5, <1>6, <1>7, <3>1, <3>2, <3>3
  <2>5. ASSUME NEW g \in Gpus, NEW ok \in BOOLEAN, poll_h2d(g, ok) PROVE WaitersAbsent'
    <3>1. PICK e : e = HeadEntry(g)
      OBVIOUS
    <3>2. e \in Entries /\ UNCHANGED host
      BY <1>3, <2>5, <3>1, CopySplit DEF Sound, CopyFrame
    <3>3. e[1] \in Keys /\ e[2] \in Gpus
      BY <3>2, Pairs
    <3>4. CASE CopySucceeds(g)
      <4>1. /\ ent[e].tier = "transferring"
            /\ ent' = [ent EXCEPT ![e] = [NoEntry EXCEPT !.tier = "hot"]]
            /\ todo' = [i \in 1..Len(slot_pressure_waiters_) |->
                          [op |-> "start", key |-> slot_pressure_waiters_[i][1],
                           gpu |-> slot_pressure_waiters_[i][2], live |-> "no"]]
            /\ UNCHANGED waiters
        BY <3>1, <3>4, Zenon DEF CopySucceeds, CopyAwaited
      <4>2. \A w \in Listed(todo') : w.op = "start" /\ w.live = "no"
        <5>1. slot_pressure_waiters_ \in Seq(Entries)
          BY <1>3 DEF TypeOK
        <5>2. todo' \in Seq(Work)
          BY DEF TypeOK
        <5>3. Len(todo') = Len(slot_pressure_waiters_)
          BY <4>1, <5>1, <5>2
        <5>4. ASSUME NEW i \in 1..Len(todo') PROVE todo'[i].op = "start" /\ todo'[i].live = "no"
          BY <4>1, <5>3
        <5> QED  BY <5>4 DEF Listed
      <4>3. CellsRight'
        BY <4>2, NewCells
      <4>4. FewerWait
        BY <1>7, <3>2, <4>1
      <4> QED  BY <1>3, <4>3, <4>4, FewerWaitRight, WaitersPartsNext
    <3>5. CASE CopyFails(g)
      <4>1. /\ ent[e].tier = "transferring"
            /\ ent' = [ent EXCEPT ![e] = NoEntry]
            /\ waiters' = [waiters EXCEPT ![e[1]] = Without(@, e[2])]
            /\ UNCHANGED todo
        BY <3>1, <3>5, Zenon DEF CopyFails, CopyAwaited
      <4>2. /\ Listed(Without(waiters[e[1]], e[2])) \subseteq Listed(waiters[e[1]])
            /\ waiters[e[1]] = <<>> => Without(waiters[e[1]], e[2]) = <<>>
        BY <1>4, <3>3, WithoutType, WithoutEmpty
      <4>3. \A k \in Keys : /\ Listed(waiters'[k]) \subseteq Listed(waiters[k])
                            /\ waiters[k] = <<>> => waiters'[k] = <<>>
        BY <1>4, <3>3, <4>1, <4>2
      <4>4. \A f \in Entries \ {e} : ent'[f] = ent[f]
        BY <1>4, <4>1
      <4>5. FewerWait
        BY <1>3, <1>4, <3>2, <4>1, <4>3, <4>4, OtherEntries
      <4> QED  BY <1>2, <1>5, <4>1, <4>5
    <3>6. CASE CopyIgnored(g, ok)
      <4>1. UNCHANGED <<ent, waiters, todo>>
        BY <3>6, Zenon DEF CopyIgnored
      <4> QED  BY <1>2, <1>5, <1>6, <3>2, <4>1
    <3> QED  BY <1>3, <2>5, <3>4, <3>5, <3>6, CopySplit DEF Sound
  <2> QED  BY <1>10, <2>1, <2>2, <2>3, <2>4, <2>5 DEF Poll
<1> QED  BY <1>2, <1>8, <1>9, <1>10

-------------------------------------------------------------------------------
(* What a client that goes through the manager can rely on.                *)

LEMMA ManagerHolds == ASSUME LifecycleAssumption PROVE Spec => []ManagerInv
<1>1. Init => ManagerInv
  <2> SUFFICES ASSUME Init PROVE Tiers /\ WaitersAbsent /\ CopyInv
    BY DEF ManagerInv
  <2>1. \A e \in Entries : ent[e] = NoEntry /\ cache[e] = NotCached
    BY DEF Init
  <2>2. /\ NoEntry.tier = "absent" /\ NotCached.slot = 0 /\ NotCached.ready = "no"
        /\ NotCached.locks = 0
    BY DEF NoEntry, NotCached
  <2>3. Tiers
    BY <2>1, <2>2 DEF Tiers, SlotHeld, Held, SlotsDistinct
  <2>4. Listed(<<>>) = {} /\ Len(<<>>) = 0
    BY DEF Listed
  <2>5. WaitersAbsent
    BY <2>4 DEF Init, WaitersAbsent
  <2>6. \A g \in Gpus : \A i \in 1..Len(stream[g]) : FALSE
    BY DEF Init
  <2>7. CopyInv
    BY <2>1, <2>2, <2>6 DEF Init, CopyInv, CopiesBelong, CopiesUnique, ReadyIsQuiet,
                            TransferringHasCopy
  <2> QED  BY <2>3, <2>5, <2>7
<1>2. TypeOK /\ TypeOK' /\ StreamsOwn /\ ManagerInv /\ [Next]_vars => ManagerInv'
  <2> SUFFICES ASSUME TypeOK, TypeOK', StreamsOwn, ManagerInv, [Next]_vars PROVE ManagerInv'
    OBVIOUS
  <2>1. CASE UNCHANGED vars
    <3>1. Tiers => Tiers'
      BY <2>1 DEF vars, state, Tiers, SlotHeld, Held, SlotsDistinct, DrainsAndLocks
    <3>2. WaitersAbsent => WaitersAbsent'
      BY <2>1 DEF vars, state, elmVars, WaitersAbsent, Refused, FreeSlots
    <3>3. CopyInv => CopyInv'
      BY <2>1, CopiesStill DEF vars, state, copyVars, Still
    <3>4. ThroughManager' => ThroughManager
      BY <2>1 DEF vars, ThroughManager
    <3> QED  BY <3>1, <3>2, <3>3, <3>4 DEF ManagerInv
  <2>2. CASE Next
    <3>1. UNCHANGED commands
      BY <2>2 DEF Next
    <3>2. SUFFICES ASSUME ThroughManager PROVE Tiers' /\ WaitersAbsent' /\ CopyInv'
      BY <3>1 DEF ManagerInv, ThroughManager
    <3>3. Sound
      BY <3>2 DEF Sound, ManagerInv
    <3>4. Kind
      BY <2>2, <3>3, StepKind
    <3> QED  BY <2>2, <3>1, <3>3, <3>4, KindKeeps, WaitersStep
  <2> QED  BY <2>1, <2>2
<1> QED  BY <1>1, <1>2, TypesHold, PTL DEF Spec

\* An expert that the cache calls ready has its bytes in its slot.  A transfer
\* that was reverted runs on, and its slot may meanwhile be another expert's;
\* that copy is then behind it on the same stream.
THEOREM ReadyHasContent == ASSUME LifecycleAssumption PROVE Spec => []ReadyMeansContent
<1>1. ManagerInv => ReadyMeansContent
  BY DEF ManagerInv, ReadyMeansContent, CopyInv, ReadyIsQuiet
<1> QED  BY <1>1, ManagerHolds, PTL

\* The types, the index of open requests and the tiers against the cache, when
\* no client both drains and locks experts.  (A drain that ends while a MoE step
\* holds its expert leaves it ABSENT with its slot: process_d2h_completion does
\* not look at what evict answers.)
THEOREM LifecycleBooksAgree ==
  ASSUME LifecycleAssumption, \A C \in Clients : ~({"drain", "lock"} \subseteq C)
  PROVE  Spec => []LifecycleInv
<1>1. TypeOK /\ Books /\ ManagerInv => LifecycleInv
  <2> SUFFICES ASSUME TypeOK, Books, ManagerInv PROVE LifecycleInv
    OBVIOUS
  <2>1. ~DrainsAndLocks
    BY DEF DrainsAndLocks, TypeOK
  <2>2. ASSUME ThroughManager, NEW e \in Entries
        PROVE  /\ ent[e].tier = "absent" <=> cache[e].slot = 0
               /\ cache[e].ready = "yes" <=> ent[e].tier \in {"hot", "draining"}
               /\ ent[e].tier \in {"reserved", "transferring"} => ent[e].interests # {}
    <3>1. ent[e] \in GpuEntry /\ cache[e] \in CacheEntry
      BY DEF TypeOK
    <3>2. ent[e].tier \in GpuTiers
      BY <3>1 DEF GpuEntry
    <3>3. Held(ent[e], cache[e])
      BY <2>2 DEF ManagerInv, Tiers, SlotHeld
    <3> QED  BY <2>1, <3>2, <3>3 DEF Held, GpuTiers
  <2> QED  BY <2>2 DEF LifecycleInv, TierCacheAgree, Books
<1> QED  BY <1>1, TypesHold, BooksHold, ManagerHolds, PTL

\* Every wait list only grows and a load goes on: who is queued stays queued.
StillQueued ==
  /\ \A k \in Keys : arena[k] = "loading" => arena'[k] = "loading"
  /\ \A k \in Keys : Listed(arena_load_waiters_[k]) \subseteq Listed(arena_load_waiters_'[k])

LEMMA QueuedKept ==
  ASSUME NEW f \in Entries, StillQueued, Queued(f),
         \A w \in Listed(todo) : w.key = f[1] /\ w.gpu = f[2] => w \in Listed(todo')
  PROVE  Queued(f)'
<1>1. f[1] \in Keys
  BY Pairs
<1>2. CASE ReservedIsDriven(f)
  BY <1>1, <1>2 DEF StillQueued, Queued, ReservedIsDriven
<1>3. CASE ~ReservedIsDriven(f)
  BY <1>3 DEF Queued
<1> QED  BY <1>2, <1>3

\* The set-up of a behaviour does not change.
LEMMA SameSetUp ==
  ASSUME UNCHANGED commands
  PROVE  /\ NvmeKeys' = NvmeKeys /\ ArenaKeys' = ArenaKeys /\ ArenaEntries' = ArenaEntries
         /\ Direct' = Direct
BY DEF NvmeKeys, ArenaKeys, ArenaEntries, Direct

LEMMA ArenaPairs == \A f \in ArenaEntries : f \in Entries /\ f[1] \in ArenaKeys /\ f[1] \in Keys
BY Pairs DEF ArenaEntries, ArenaKeys

\* What try_start_h2d leaves RESERVED is queued.
LEMMA StartQueues ==
  ASSUME TypeOK, ~Direct, NEW e \in Entries, NEW v, NEW cached, NEW res, NEW pin,
         Starts(e, v, cached, res, pin), cached[e].slot # 0
  PROVE  /\ StillQueued
         /\ e \in ArenaEntries /\ ent'[e].tier = "reserved" => ReservedIsDriven(e)'
<1>1. e[1] \in Keys /\ Resolved(e[1], res, pin)
  BY Pairs DEF Starts
<1>2. \A k \in Keys : arena[k] = "loading" => arena'[k] = "loading"
  BY <1>1 DEF Resolved
<1>3. StillQueued
  BY <1>2 DEF Starts, StillQueued
<1>4. ASSUME e \in ArenaEntries, ent'[e].tier = "reserved" PROVE ReservedIsDriven(e)'
  <2>1. res \in {"ready", "pending"}
    BY <1>1, <1>4 DEF Resolved, ArenaEntries
  <2>2. res = "pending"
    BY <1>4, <2>1 DEF Starts
  <2> QED  BY <1>1, <2>2 DEF Starts, Resolved, ReservedIsDriven
<1> QED  BY <1>3, <1>4

\* The two ways Driven is kept: nobody becomes RESERVED, or one entry is started.
LEMMA DrivenQuiet ==
  ASSUME Driven, StillQueued, UNCHANGED commands,
         \A k \in ArenaKeys : host'[k] # "loading",
         \A w \in Listed(todo') : w.op \in {"start", "fail"} \/ w.key \in NvmeKeys,
         \A f \in ArenaEntries : ent'[f].tier = "absent" => ent'[f].interests = {},
         \A f \in ArenaEntries : ent'[f].tier = "reserved" =>
            /\ ent[f].tier = "reserved"
            /\ \A w \in Listed(todo) : w.key = f[1] /\ w.gpu = f[2] => w \in Listed(todo')
  PROVE  Driven'
<1>1. \A f \in ArenaEntries : ent'[f].tier = "reserved" => Queued(f)'
  BY QueuedKept, ArenaPairs DEF Driven
<1> QED  BY <1>1, SameSetUp DEF Driven

LEMMA DrivenStarts ==
  ASSUME TypeOK, Driven, ~Direct, UNCHANGED commands,
         NEW e \in Entries, NEW v, NEW cached, NEW res, NEW pin,
         Starts(e, v, cached, res, pin), cached[e].slot # 0, v.tier = "reserved",
         \A k \in ArenaKeys : host'[k] # "loading",
         \A w \in Listed(todo') : w.op \in {"start", "fail"} \/ w.key \in NvmeKeys,
         \A f \in ArenaEntries \ {e} : \A w \in Listed(todo) :
            w.key = f[1] /\ w.gpu = f[2] => w \in Listed(todo')
  PROVE  Driven'
<1>1. StillQueued /\ (e \in ArenaEntries /\ ent'[e].tier = "reserved" => ReservedIsDriven(e)')
  BY StartQueues
<1>2. ent'[e].tier # "absent" /\ \A f \in Entries \ {e} : ent'[f] = ent[f]
  BY DEF Starts
<1>3. \A f \in ArenaEntries : ent'[f].tier = "absent" => ent'[f].interests = {}
  BY <1>2, ArenaPairs DEF Driven
<1>4. ASSUME NEW f \in ArenaEntries, ent'[f].tier = "reserved" PROVE Queued(f)'
  <2>1. CASE f = e
    BY <1>1, <1>4, <2>1 DEF Queued
  <2>2. CASE f # e
    <3>1. Queued(f) /\ f \in Entries
      BY <1>2, <1>4, <2>2, ArenaPairs DEF Driven
    <3> QED  BY <1>1, <2>2, <3>1, QueuedKept
  <2> QED  BY <2>1, <2>2
<1> QED  BY <1>3, <1>4, SameSetUp DEF Driven

\* A host entry of an expert that the arena serves is warm once it is looked at.
LEMMA HostsWarm ==
  ASSUME Driven, NEW k \in ArenaKeys
  PROVE  HostTier(k) # "loading"
  BY DEF Driven, HostTier, compute_host_tier, ArenaKeys

\* What a loop over gpu_waiters has left after an erase is still of the same experts.
LEMMA ErasedKeys ==
  ASSUME NEW K, NEW cells \in Seq(Work), NEW g, cells # <<>>, \A c \in Listed(cells) : c.key \in K
  PROVE  \A w \in Listed(Tail(Erased(cells, g))) : w.key \in K
<1>1. PICK left : left = Erased(cells, g)
  OBVIOUS
<1>2. /\ left \in Seq(Work) /\ Len(left) = Len(cells)
      /\ \A i \in 1..Len(cells) : \E c \in Listed(cells) :
           left[i] = c \/ left[i] = [c EXCEPT !.live = "no"]
  BY <1>1, ErasedType
<1>3. left # <<>>
  BY <1>2
<1>4. Listed(Tail(left)) \subseteq Listed(left)
  BY <1>2, <1>3, TailListed
<1>5. ASSUME NEW w \in Listed(left) PROVE w.key \in K
  <2>1. PICK i \in 1..Len(cells) : w = left[i]
    BY <1>2 DEF Listed
  <2>2. PICK c \in Listed(cells) : w = c \/ w = [c EXCEPT !.live = "no"]
    BY <1>2, <2>1
  <2>3. c \in Work
    BY DEF Listed
  <2>4. w.key = c.key
    BY <2>2, <2>3 DEF Work
  <2> QED  BY <2>4
<1> QED  BY <1>1, <1>4, <1>5

LEMMA LoopDriven ==
  ASSUME Sound, LifecycleAssumption, UNCHANGED commands, ~Direct, Driven, poll_continues
  PROVE  Driven'
<1> USE DEF elmVars, tokenVars, copyVars
<1>1. TypeOK /\ CellsRight /\ UNCHANGED host /\ todo # <<>> /\ todo \in Seq(Work)
  BY LoopSplit, WaitersParts DEF Sound, TypeOK
<1>2. PICK e : e = Current
  OBVIOUS
<1>3. /\ Head(todo) \in Listed(todo) /\ Listed(Tail(todo)) \subseteq Listed(todo)
      /\ Head(todo) \in Work /\ Listed(todo) \subseteq Listed(Tail(todo)) \cup {Head(todo)}
  BY <1>1, TailListed
<1>4. e \in Entries /\ e = <<Head(todo).key, Head(todo).gpu>> /\ e[1] = Head(todo).key
  BY <1>2, <1>3 DEF Current, Work, Entries
<1>5. \A k \in ArenaKeys : host'[k] # "loading"
  BY <1>1 DEF Driven
<1>6. ent \in [Entries -> GpuEntry] /\ cache \in [Entries -> CacheEntry]
  BY <1>1 DEF TypeOK
\* A loop that wakes or drops is over the waiters of an expert on the NVMe tier.
<1>w. Head(todo).op \in {"wake", "drop"} =>
        e[1] \in NvmeKeys /\ e \notin ArenaEntries /\ \A c \in Listed(todo) : c.key \in NvmeKeys
  <2>1. \A c \in Listed(todo) : c.op = Head(todo).op
    BY <1>1, <1>3 DEF CellsRight
  <2> QED  BY <1>3, <1>4, <2>1 DEF Driven, ArenaEntries
<1>7. todo' = Tail(todo) =>
        /\ \A w \in Listed(todo') : w.op \in {"start", "fail"} \/ w.key \in NvmeKeys
        /\ \A f \in ArenaEntries \ {e} : \A w \in Listed(todo) :
             w.key = f[1] /\ w.gpu = f[2] => w \in Listed(todo')
  <2>1. \A f \in Entries \ {e} : ~(Head(todo).key = f[1] /\ Head(todo).gpu = f[2])
    BY <1>4, Pairs
  <2> QED  BY <1>3, <2>1, ArenaPairs DEF Driven
<1>8. CASE LoopFails
  <2>1. FailEntry(e)
    BY <1>2, <1>8 DEF LoopFails
  <2>2. EntryReverted(e)
    BY <1>1, <1>4, <2>1, RevertEffect DEF FailEntry
  <2>3. /\ ent'[e].tier = "absent" /\ ent'[e].interests = {}
        /\ \A f \in Entries \ {e} : ent'[f] = ent[f]
    BY <2>2 DEF EntryReverted, NoEntry
  <2>4. StillQueued
    BY <2>1 DEF FailEntry, StillQueued
  <2>5. \A f \in ArenaEntries : ent'[f].tier = "absent" => ent'[f].interests = {}
    BY <2>3, ArenaPairs DEF Driven
  <2>6. \A f \in ArenaEntries : ent'[f].tier = "reserved" => f # e /\ ent[f].tier = "reserved"
    BY <2>3, ArenaPairs
  <2>7. CASE Head(todo).op \in {"start", "fail"}
    <3>1. \A c \in Listed(todo) : c.op = Head(todo).op
      BY <1>1, <1>3 DEF CellsRight
    <3>2. \A c \in Listed(todo) : c.live = "no"
      BY <1>1, <2>7, <3>1 DEF CellsRight
    <3>3. Erased(todo, e[2]) = todo
      BY <1>1, <3>2, ErasedType
    <3>4. todo' = Tail(todo)
      BY <2>1, <3>3 DEF FailEntry
    <3> QED  BY <1>5, <1>7, <2>4, <2>5, <2>6, <3>4, DrivenQuiet
  <2>8. CASE Head(todo).op \in {"wake", "drop"}
    <3>1. \A c \in Listed(todo) : c.key \in NvmeKeys
      BY <1>w, <2>8
    <3>2. todo' = Tail(Erased(todo, e[2]))
      BY <2>1 DEF FailEntry
    <3>3. \A w \in Listed(todo') : w.key \in NvmeKeys
      BY <1>1, <3>1, <3>2, ErasedKeys
    <3>4. \A f \in ArenaEntries : \A w \in Listed(todo) : w.key # f[1]
      BY <3>1 DEF ArenaEntries
    <3> QED  BY <1>5, <2>4, <2>5, <2>6, <3>3, <3>4, DrivenQuiet
  <2> QED  BY <1>3, <2>7, <2>8 DEF Work
<1>9. CASE LoopReserves
  <2> DEFINE v == [NoEntry EXCEPT !.tier = "reserved", !.interests = ent[e].interests]
  <2>1. PICK s \in FreeSlots(e[2]) :
          /\ cache' = [cache EXCEPT ![e] = [NotCached EXCEPT !.slot = s]]
          /\ try_start_h2d(e, v, cache')
    BY <1>2, <1>9 DEF LoopReserves, ReserveAndStart
  <2>2. v \in GpuEntry /\ v.tier = "reserved"
    <3>1. ent[e].interests \in SUBSET Tokens
      BY <1>4, <1>6 DEF GpuEntry
    <3> QED  BY <3>1, Values DEF NoEntry
  <2>3. s \in SlotIds /\ s # 0 /\ cache' \in [Entries -> CacheEntry]
    <3>1. s \in SlotIds
      BY DEF FreeSlots
    <3>2. s # 0
      BY <3>1 DEF SlotIds, LifecycleAssumption
    <3>3. [NotCached EXCEPT !.slot = s] \in CacheEntry
      BY <3>1, Values
    <3> QED  BY <1>6, <2>1, <3>1, <3>2, <3>3
  <2>4. cache'[e].slot = s
    BY <1>4, <1>6, <2>1 DEF NotCached
  <2> HIDE DEF v
  <2>5. PICK cached : cached = cache'
    OBVIOUS
  <2>6. PICK res, pin : Starts(e, v, cached, res, pin)
    BY <1>1, <1>4, <2>1, <2>2, <2>3, <2>5, TryStartEffect
  <2>7. todo' = Tail(todo)
    BY <1>9 DEF LoopReserves
  <2> QED  BY <1>1, <1>4, <1>5, <1>7, <2>2, <2>3, <2>4, <2>5, <2>6, <2>7, DrivenStarts
<1>10. CASE LoopStarts
  <2>1. /\ ent[e].tier = "reserved" /\ try_start_h2d(e, ent[e], cache) /\ todo' = Tail(todo)
    BY <1>2, <1>10 DEF LoopStarts
  <2>2. PICK res, pin : Starts(e, ent[e], cache, res, pin)
    BY <1>1, <1>4, <1>6, <2>1, TryStartEffect
  <2>3. cache[e].slot # 0
    BY <1>4, <2>1, ByTier DEF SlotHeld, Held
  <2> QED  BY <1>1, <1>4, <1>5, <1>7, <2>1, <2>2, <2>3, DrivenStarts
<1>11. CASE LoopSkips
  <2>1. /\ todo' = Tail(todo) /\ UNCHANGED ent /\ NoStart
        /\ ent[e].tier # "reserved"
    BY <1>2, <1>11 DEF LoopSkips
  <2>2. StillQueued
    BY <2>1 DEF NoStart, StillQueued
  <2>3. \A f \in ArenaEntries : ent'[f].tier = "reserved" => f # e /\ ent[f].tier = "reserved"
    BY <2>1
  <2>4. \A f \in ArenaEntries : ent'[f].tier = "absent" => ent'[f].interests = {}
    BY <2>1 DEF Driven
  <2> QED  BY <1>5, <1>7, <2>1, <2>2, <2>3, <2>4, DrivenQuiet
<1> QED  BY <1>8, <1>9, <1>10, <1>11, LoopSplit

LEMMA EnsureDriven ==
  ASSUME Sound, LifecycleAssumption, UNCHANGED commands, ~Direct, Driven, todo = <<>>,
         NEW e \in Entries, ensure_resident(e)
  PROVE  Driven'
<1> USE DEF elmVars, tokenVars, copyVars
<1>1. TypeOK /\ ent \in [Entries -> GpuEntry] /\ cache \in [Entries -> CacheEntry]
      /\ ent[e] \in GpuEntry /\ host \in [Keys -> {"cold", "loading", "warm"}]
  BY DEF Sound, TypeOK
<1>2. e[1] \in Keys /\ (e \in ArenaEntries <=> e[1] \in ArenaKeys)
      /\ (e[1] \in ArenaKeys => HostTier(e[1]) # "loading")
  BY Pairs, HostsWarm DEF ArenaEntries, ArenaKeys
<1>3. /\ next_token_ \in Tokens /\ todo' = <<>>
      /\ host' = [host EXCEPT ![e[1]] = IF Gone(e) /\ Warm(e[1]) THEN "warm" ELSE HostTier(e[1])]
  BY EnsureSplit DEF EnsureFrame
<1>4. \A k \in ArenaKeys : host'[k] # "loading"
  <2>1. \A k \in ArenaKeys : k \in Keys /\ host[k] # "loading"
    BY DEF Driven, ArenaKeys
  <2> QED  BY <1>1, <1>2, <1>3, <2>1
<1>5. /\ \A w \in Listed(todo') : w.op \in {"start", "fail"} \/ w.key \in NvmeKeys
      /\ \A w \in Listed(todo) : w \in Listed(todo')
  BY <1>3 DEF Listed
<1>6. Asked(e) \in SUBSET Tokens
  BY <1>1, <1>3 DEF Asked, GpuEntry
<1>7. ASSUME NEW u, ent' = [ent EXCEPT ![e] = u], NoStart,
             e \in ArenaEntries /\ u.tier = "absent" => u.interests = {},
             u.tier = "reserved" => ent[e].tier = "reserved"
      PROVE  Driven'
  <2>1. ent'[e] = u /\ \A f \in Entries \ {e} : ent'[f] = ent[f]
    BY <1>1, <1>7
  <2>2. StillQueued
    BY <1>7 DEF NoStart, StillQueued
  <2>3. \A f \in ArenaEntries : ent'[f].tier = "absent" => ent'[f].interests = {}
    BY <1>7, <2>1, ArenaPairs DEF Driven
  <2>4. \A f \in ArenaEntries : ent'[f].tier = "reserved" => ent[f].tier = "reserved"
    BY <1>7, <2>1, ArenaPairs
  <2> QED  BY <1>4, <1>5, <2>2, <2>3, <2>4, DrivenQuiet
<1>8. CASE EnsureAnswers(e)
  <2>1. UNCHANGED ent /\ NoStart
    BY <1>8 DEF EnsureAnswers, Immediate
  <2>2. ent' = [ent EXCEPT ![e] = ent[e]]
    BY <1>1, <2>1
  <2>3. e \in ArenaEntries /\ ent[e].tier = "absent" => ent[e].interests = {}
    BY DEF Driven
  <2> QED  BY <1>7, <2>1, <2>2, <2>3
<1>9. CASE EnsureJoins(e)
  <2> DEFINE v == [ent[e] EXCEPT !.interests = Asked(e)]
  <2>1. /\ ent[e].tier # "absent" /\ ent' = [ent EXCEPT ![e] = v] /\ NoStart
    BY <1>9 DEF EnsureJoins
  <2>2. v.tier = ent[e].tier
    BY <1>1 DEF GpuEntry
  <2> HIDE DEF v
  <2> QED  BY <1>7, <2>1, <2>2
<1>10. CASE EnsureRestarts(e)
  <2> DEFINE v == [ent[e] EXCEPT !.interests = Asked(e)]
  <2>1. ent[e].tier = "reserved" /\ try_start_h2d(e, v, cache)
    BY <1>10 DEF EnsureRestarts
  <2>2. v \in GpuEntry /\ v.tier = "reserved"
    BY <1>1, <1>6, <2>1, Values DEF GpuEntry
  <2> HIDE DEF v
  <2>3. PICK res, pin : Starts(e, v, cache, res, pin)
    BY <1>1, <2>1, <2>2, TryStartEffect
  <2>4. cache[e].slot # 0
    BY <2>1, ByTier DEF SlotHeld, Held
  <2> QED  BY <1>1, <1>4, <1>5, <2>2, <2>3, <2>4, DrivenStarts
<1>11. CASE EnsureWaits(e)
  <2> DEFINE v == [NoEntry EXCEPT !.interests = Asked(e)]
  <2>1. ent' = [ent EXCEPT ![e] = v] /\ NoStart /\ e \notin ArenaEntries
    BY <1>2, <1>11 DEF EnsureWaits
  <2>2. v.tier = "absent"
    BY DEF NoEntry
  <2> HIDE DEF v
  <2> QED  BY <1>7, <2>1, <2>2
<1>12. CASE EnsureReserves(e)
  <2> DEFINE v == [NoEntry EXCEPT !.tier = "reserved", !.interests = Asked(e)]
  <2>1. PICK s \in FreeSlots(e[2]) :
          /\ cache' = [cache EXCEPT ![e] = [NotCached EXCEPT !.slot = s]]
          /\ try_start_h2d(e, v, cache')
    BY <1>12 DEF EnsureReserves, ReserveAndStart
  <2>2. v \in GpuEntry /\ v.tier = "reserved"
    BY <1>6, Values DEF NoEntry
  <2>3. s \in SlotIds /\ s # 0 /\ cache' \in [Entries -> CacheEntry]
    <3>1. s \in SlotIds
      BY DEF FreeSlots
    <3>2. s # 0
      BY <3>1 DEF SlotIds, LifecycleAssumption
    <3>3. [NotCached EXCEPT !.slot = s] \in CacheEntry
      BY <3>1, Values
    <3> QED  BY <1>1, <2>1, <3>1, <3>2, <3>3
  <2>4. cache'[e].slot = s
    BY <1>1, <2>1 DEF NotCached
  <2> HIDE DEF v
  <2>5. PICK cached : cached = cache'
    OBVIOUS
  <2>6. PICK res, pin : Starts(e, v, cached, res, pin)
    BY <1>1, <2>1, <2>2, <2>3, <2>5, TryStartEffect
  <2> QED  BY <1>1, <1>4, <1>5, <2>2, <2>3, <2>4, <2>5, <2>6, DrivenStarts
<1>13. CASE EnsureFails(e)
  <2>1. ent' = [ent EXCEPT ![e] = NoEntry] /\ NoStart
    BY <1>13 DEF EnsureFails
  <2>2. NoEntry.tier = "absent" /\ NoEntry.interests = {}
    BY DEF NoEntry
  <2> QED  BY <1>7, <2>1, <2>2
<1> QED  BY <1>8, <1>9, <1>10, <1>11, <1>12, <1>13, EnsureSplit

LEMMA DrivenStep ==
  ASSUME Sound, LifecycleAssumption, TypeOK', ~Direct, Driven, Next
  PROVE  Driven'
<1> USE DEF elmVars, tokenVars, copyVars
<1>0. UNCHANGED commands
  BY DEF Next
<1>1. CASE poll_continues
  BY <1>0, <1>1, LoopDriven
<1>2. SUFFICES ASSUME todo = <<>>, Client \/ flush_staged \/ Poll PROVE Driven'
  BY <1>1 DEF Next
<1>3. TypeOK /\ ent \in [Entries -> GpuEntry] /\ Listed(<<>>) = {} /\ ThroughManager
  BY DEF Sound, TypeOK, Listed
\* A step that starts nothing and leaves the lists alone.
<1>4. ASSUME UNCHANGED <<host, todo, arena, arena_load_waiters_>>,
             \A f \in ArenaEntries : ent'[f].tier = "absent" => ent'[f].interests = {},
             \A f \in ArenaEntries : ent'[f].tier = "reserved" => ent[f].tier = "reserved"
      PROVE  Driven'
  <2>1. StillQueued
    BY <1>4 DEF StillQueued
  <2>2. /\ \A k \in ArenaKeys : host'[k] # "loading"
        /\ \A w \in Listed(todo') : w.op \in {"start", "fail"} \/ w.key \in NvmeKeys
    BY <1>4 DEF Driven
  <2> QED  BY <1>0, <1>4, <2>1, <2>2, DrivenQuiet
<1>5. ASSUME UNCHANGED <<ent, host, todo, arena, arena_load_waiters_>>
      PROVE  Driven'
  BY <1>4, <1>5 DEF Driven
<1>6. ASSUME NEW e \in Entries, NEW u, ent' = [ent EXCEPT ![e] = u],
             e \in ArenaEntries /\ u.tier = "absent" => u.interests = {},
             u.tier = "reserved" => ent[e].tier = "reserved",
             UNCHANGED <<host, todo, arena, arena_load_waiters_>>
      PROVE  Driven'
  <2>1. ent'[e] = u /\ \A f \in Entries \ {e} : ent'[f] = ent[f]
    BY <1>3, <1>6
  <2>2. /\ \A f \in ArenaEntries : ent'[f].tier = "absent" => ent'[f].interests = {}
        /\ \A f \in ArenaEntries : ent'[f].tier = "reserved" => ent[f].tier = "reserved"
    BY <1>6, <2>1, ArenaPairs DEF Driven
  <2> QED  BY <1>4, <1>6, <2>2
<1>7. /\ NoEntry.tier = "absent" /\ NoEntry.interests = {}
      /\ [NoEntry EXCEPT !.tier = "hot"].tier = "hot"
  BY DEF NoEntry
<1>8. CASE Client
  <2>1. ASSUME NEW t \in Tokens, cancel(t) PROVE Driven'
    <3>1. PICK e : e = token_index_[t]
      OBVIOUS
    <3>2. e \in Entries /\ UNCHANGED <<host, todo, arena, arena_load_waiters_>>
      BY <1>3, <2>1, <3>1 DEF cancel, TypeOK
    <3>3. CASE ent[e].interests \subseteq {t}
      <4>1. ent' = [ent EXCEPT ![e] = NoEntry]
        BY <2>1, <3>1, <3>3 DEF cancel, revert_gpu_entry
      <4> QED  BY <1>6, <1>7, <3>2, <4>1
    <3>4. CASE ~(ent[e].interests \subseteq {t})
      <4> DEFINE v == [ent[e] EXCEPT !.interests = @ \ {t}]
      <4>1. ent' = [ent EXCEPT ![e] = v]
        BY <2>1, <3>1, <3>4 DEF cancel
      <4>2. v.tier = ent[e].tier /\ (e \in ArenaEntries => ent[e].tier # "absent")
        BY <1>3, <3>2, <3>4 DEF GpuEntry, Driven
      <4> HIDE DEF v
      <4> QED  BY <1>6, <3>2, <4>1, <4>2
    <3> QED  BY <3>3, <3>4
  <2>2. ASSUME NEW e \in Entries, request_evict(e) PROVE Driven'
    BY <1>6, <1>7, <2>2 DEF request_evict
  <2>3. ASSUME NEW e \in Entries, request_drain(e) PROVE Driven'
    <3> DEFINE v == [ent[e] EXCEPT !.tier = "draining"]
    <3>1. /\ ent' = [ent EXCEPT ![e] = v]
          /\ UNCHANGED <<host, todo, arena, arena_load_waiters_>>
      BY <2>3 DEF request_drain
    <3>2. v.tier = "draining"
      BY <1>3 DEF GpuEntry
    <3> HIDE DEF v
    <3> QED  BY <1>6, <3>1, <3>2
  <2>4. ASSUME NEW e \in Entries, lock(e) \/ unlock(e) PROVE Driven'
    BY <1>5, <2>4 DEF lock, unlock
  <2>5. ASSUME NEW e \in Entries,
               \/ handle_cache_evict(e) \/ handle_cache_reserve(e)
               \/ handle_transfer_h2d(e) \/ handle_cancel_transfer(e)
        PROVE  FALSE
    BY <1>3, <2>5 DEF handle_cache_evict, handle_cache_reserve, handle_transfer_h2d,
                      handle_cancel_transfer, ThroughManager
  <2>6. ASSUME NEW k \in Keys, handle_nvme_write(k) \/ cancel_nvme_write(k) PROVE Driven'
    BY <1>5, <2>6 DEF handle_nvme_write, cancel_nvme_write
  <2> QED  BY <1>0, <1>2, <1>8, <2>1, <2>2, <2>3, <2>4, <2>5, <2>6, EnsureDriven DEF Client
<1>9. CASE flush_staged
  BY <1>5, <1>9 DEF flush_staged
<1>10. CASE Poll
  <2>1. CASE poll_nothing
    BY <1>5, <2>1 DEF poll_nothing
  <2>2. ASSUME NEW k \in Keys, NEW ok \in BOOLEAN, poll_arena(k, ok) PROVE Driven'
    <3> DEFINE op == IF ok THEN "start" ELSE "fail"
    <3>1. /\ UNCHANGED <<ent, host>>
          /\ todo' = Works(op, k, arena_load_waiters_[k], "no")
          /\ arena' = [arena EXCEPT ![k] = IF ok THEN "ready" ELSE "reserved"]
          /\ arena_load_waiters_' = [arena_load_waiters_ EXCEPT ![k] = <<>>]
      BY <2>2 DEF poll_arena
    <3>2. /\ op \in {"start", "fail"} /\ arena_load_waiters_ \in [Keys -> Seq(Gpus)]
          /\ arena \in [Keys -> ArenaStates]
      BY <1>3 DEF TypeOK, ArenaStates
    <3> HIDE DEF op
    <3>3. /\ \A w \in Listed(todo') : w.op = op
          /\ \A g \in Listed(arena_load_waiters_[k]) :
                \E w \in Listed(todo') : w.key = k /\ w.gpu = g
      BY <3>1, <3>2, WorksType
    <3>4. \A j \in Keys : j # k => arena'[j] = arena[j] /\ arena_load_waiters_'[j] = arena_load_waiters_[j]
      BY <3>1, <3>2
    <3>5. ASSUME NEW f \in ArenaEntries, ent[f].tier = "reserved" PROVE Queued(f)'
      <4>1. ReservedIsDriven(f) /\ f[1] \in Keys
        BY <1>2, <1>3, <3>5, ArenaPairs DEF Driven, Queued
      <4>2. CASE f[1] # k
        BY <3>4, <4>1, <4>2 DEF Queued, ReservedIsDriven
      <4>3. CASE f[1] = k
        BY <3>3, <4>1, <4>3 DEF Queued, ReservedIsDriven
      <4> QED  BY <4>2, <4>3
    <3> QED  BY <1>0, <3>1, <3>2, <3>3, <3>5, SameSetUp DEF Driven
  <2>3. ASSUME NEW k \in Keys, NEW ok \in BOOLEAN, poll_nvme(k, ok) PROVE Driven'
    <3>1. /\ UNCHANGED <<ent, arena, arena_load_waiters_>>
          /\ host \in [Keys -> {"cold", "loading", "warm"}] /\ waiters[k] \in Seq(Gpus)
      BY <1>3, <2>3 DEF poll_nvme, TypeOK
    <3>2. CASE host[k] # "loading"
      <4>1. UNCHANGED <<host, todo>>
        BY <2>3, <3>2 DEF poll_nvme
      <4> QED  BY <1>5, <3>1, <4>1
    <3>3. CASE host[k] = "loading"
      <4> DEFINE op == IF ok THEN "wake" ELSE "drop"
      <4>1. /\ host' = [host EXCEPT ![k] = IF ok THEN "warm" ELSE "cold"]
            /\ todo' = Works(op, k, waiters[k], "yes")
        BY <2>3, <3>3 DEF poll_nvme
      <4>2. op \in {"start", "fail", "wake", "drop"}
        OBVIOUS
      <4> HIDE DEF op
      <4>3. \A w \in Listed(todo') : w.key = k
        BY <3>1, <4>1, <4>2, WorksType
      <4>4. k \in NvmeKeys
        BY <3>3 DEF Driven, ArenaKeys
      <4>5. \A j \in ArenaKeys : host'[j] # "loading"
        BY <3>1, <4>1 DEF Driven, ArenaKeys
      <4>6. \A f \in ArenaEntries : ent'[f].tier = "absent" => ent'[f].interests = {}
        BY <3>1 DEF Driven
      <4>7. StillQueued
        BY <3>1 DEF StillQueued
      <4> QED  BY <1>0, <1>2, <1>3, <3>1, <4>3, <4>4, <4>5, <4>6, <4>7, DrivenQuiet
    <3> QED  BY <3>2, <3>3
  <2>4. ASSUME NEW d \in drains, NEW ok \in BOOLEAN, poll_d2h(d, ok) PROVE Driven'
    <3> DEFINE e == <<d.key, d.gpu>>
    <3>1. e \in Entries
      <4>1. d \in Drain
        BY <1>3 DEF TypeOK
      <4>2. d.key \in Keys /\ d.gpu \in Gpus
        BY <4>1 DEF Drain
      <4> QED  BY <4>2 DEF Entries
    <3>2. UNCHANGED <<host, todo, arena, arena_load_waiters_>>
      BY <2>4 DEF poll_d2h
    <3>3. ent' = ent \/ ent' = [ent EXCEPT ![e] = NoEntry]
      BY <2>4, Zenon DEF poll_d2h
    <3> HIDE DEF e
    <3> QED  BY <1>5, <1>6, <1>7, <3>1, <3>2, <3>3
  <2>5. ASSUME NEW g \in Gpus, NEW ok \in BOOLEAN, poll_h2d(g, ok) PROVE Driven'
    <3>1. PICK e : e = HeadEntry(g)
      OBVIOUS
    <3>2. e \in Entries /\ UNCHANGED <<host, arena, arena_load_waiters_>>
      BY <1>3, <2>5, <3>1, CopySplit DEF Sound, CopyFrame
    <3>3. CASE CopySucceeds(g)
      <4> DEFINE q == slot_pressure_waiters_
      <4>1. /\ ent' = [ent EXCEPT ![e] = [NoEntry EXCEPT !.tier = "hot"]]
            /\ todo' = [i \in 1..Len(q) |->
                          [op |-> "start", key |-> q[i][1], gpu |-> q[i][2], live |-> "no"]]
        BY <3>1, <3>3, Zenon DEF CopySucceeds
      <4>2. q \in Seq(Entries) /\ todo' \in Seq(Work)
        BY <1>3 DEF TypeOK
      <4> HIDE DEF q
      <4>3. Len(todo') = Len(q)
        BY <4>1, <4>2
      <4>4. ASSUME NEW i \in 1..Len(todo') PROVE todo'[i].op = "start"
        BY <4>1, <4>3
      <4>5. \A w \in Listed(todo') : w.op \in {"start", "fail"}
        BY <4>4 DEF Listed
      <4>6. ent'[e].tier = "hot" /\ \A f \in Entries \ {e} : ent'[f] = ent[f]
        BY <1>3, <1>7, <3>2, <4>1
      <4>7. /\ \A f \in ArenaEntries : ent'[f].tier = "reserved" => ent[f].tier = "reserved"
            /\ \A f \in ArenaEntries : ent'[f].tier = "absent" => ent'[f].interests = {}
        BY <4>6, ArenaPairs DEF Driven
      <4>8. StillQueued /\ \A k \in ArenaKeys : host'[k] # "loading"
        BY <3>2 DEF StillQueued, Driven
      <4> QED  BY <1>0, <1>2, <1>3, <4>5, <4>7, <4>8, DrivenQuiet
    <3>4. CASE CopyFails(g)
      <4>1. ent' = [ent EXCEPT ![e] = NoEntry] /\ UNCHANGED todo
        BY <3>1, <3>4, Zenon DEF CopyFails
      <4> QED  BY <1>6, <1>7, <3>2, <4>1
    <3>5. CASE CopyIgnored(g, ok)
      <4>1. UNCHANGED <<ent, todo>>
        BY <3>5, Zenon DEF CopyIgnored
      <4> QED  BY <1>5, <3>2, <4>1
    <3> QED  BY <1>3, <2>5, <3>3, <3>4, <3>5, CopySplit DEF Sound
  <2> QED  BY <1>10, <2>1, <2>2, <2>3, <2>4, <2>5 DEF Poll
<1> QED  BY <1>2, <1>8, <1>9, <1>10

\* Between two polls nothing that somebody waits for is forgotten: with a source that
\* can fall back to the mmap, an expert that the arena serves has a load under way,
\* with its entry as a waiter, or a copy.  Clients, the loader ring and an NVMe tier
\* beside it are arbitrary.
THEOREM NothingIsForgotten == ASSUME LifecycleAssumption PROVE Spec => []WaitedForIsDriven
<1>1. Init => DrivenInv
  BY DEF Init, DrivenInv, Driven, NoEntry, Listed, ArenaEntries, ArenaKeys
<1>2. TypeOK /\ TypeOK' /\ StreamsOwn /\ ManagerInv /\ DrivenInv /\ [Next]_vars => DrivenInv'
  <2> SUFFICES ASSUME TypeOK, TypeOK', StreamsOwn, ManagerInv, DrivenInv, [Next]_vars
               PROVE  DrivenInv'
    OBVIOUS
  <2>1. CASE UNCHANGED vars
    <3>1. UNCHANGED <<commands, ent, host, todo, arena, arena_load_waiters_>>
      BY <2>1 DEF vars, state, elmVars
    <3> QED  BY <3>1, SameSetUp DEF DrivenInv, Driven, Queued, ReservedIsDriven, ThroughManager
  <2>2. CASE Next
    <3>1. UNCHANGED commands
      BY <2>2 DEF Next
    <3>2. SUFFICES ASSUME ThroughManager, ~Direct PROVE Driven'
      BY <3>1, SameSetUp DEF DrivenInv, ThroughManager
    <3>3. Sound /\ Driven
      BY <3>2 DEF Sound, ManagerInv, DrivenInv
    <3> QED  BY <2>2, <3>2, <3>3, DrivenStep
  <2> QED  BY <2>1, <2>2
<1>3. TypeOK /\ Unawaited /\ ManagerInv /\ DrivenInv => WaitedForIsDriven
  <2> SUFFICES ASSUME TypeOK, Unawaited, ManagerInv, DrivenInv, ThroughManager, ~Direct,
                      todo = <<>>, NEW e \in Entries, e[1] \notin NvmeKeys, ent[e].interests # {}
               PROVE  \/ ent[e].tier = "reserved" /\ ReservedIsDriven(e)
                      \/ ent[e].tier = "transferring" /\ InFlight(e)
    BY DEF WaitedForIsDriven
  <2>1. ent[e] \in GpuEntry
    BY DEF TypeOK
  <2>2. ent[e].tier \in GpuTiers
    BY <2>1 DEF GpuEntry
  <2>3. Driven /\ e \in ArenaEntries
    BY DEF DrivenInv, ArenaEntries
  <2>4. ent[e].tier \in {"reserved", "transferring"}
    BY <2>2, <2>3 DEF Driven, Unawaited, GpuTiers
  <2>5. ent[e].tier = "reserved" => ReservedIsDriven(e)
    BY <2>3 DEF Driven, Queued, Listed
  <2>6. ent[e].tier = "transferring" => InFlight(e)
    BY DEF ManagerInv, CopyInv, TransferringHasCopy
  <2> QED  BY <2>4, <2>5, <2>6
<1> QED  BY <1>1, <1>2, <1>3, TypesHold, BooksHold, ManagerHolds, PTL DEF Spec
===============================================================================
