--------------------------- MODULE PinnedArenaProofs ---------------------------
(***************************************************************************)
(* Proofs about PinnedArena, for any experts, nodes, slots, readers, depth *)
(* of the loader's ring and versions of the files.                         *)
(*                                                                         *)
(* A step of the migrator goes through states of its own (evict, then      *)
(* begin; commit, then begin the second half of a swap), so the parts of   *)
(* the invariant take the tables as parameters: from and to are the slots  *)
(* of the relocation under way, NoCell when there is none.                 *)
(***************************************************************************)
EXTENDS PinnedArena, FiniteSetTheorems, WellFoundedInduction, TLAPS

Cell  == [key : Keys \cup {Free}, ready : YesNo, loading : YesNo, inflight : Nat]
Recs  == [state : {"empty", "loading", "active"}, key : Keys \cup {Free},
          version : Versions \cup {0}]
Load  == [key : Keys, cell : Cells, state : {"queued", "reading", "ok", "failed"}]
Read  == [cell : CellsOrNone, key : Keys \cup {Free}]
Bytes == (Keys \X Versions) \cup {Torn}

\* An expert is in the slot on its node, and in the target of its relocation.
Placed(cl, loc, to) ==
  \A c \in Cells : cl[c].key # Free => loc[cl[c].key] = c[1] \/ c = to

\* No node has an expert twice.
NoTwins(cl) ==
  \A c, d \in Cells : c[1] = d[1] /\ cl[c].key = cl[d].key /\ cl[c].key # Free => c = d

\* What the table of locations says is there.
Located(cl, loc) ==
  \A k \in Keys : loc[k] # Nowhere => \E c \in Cells : c[1] = loc[k] /\ cl[c].key = k

ReadersOf(rd, c) == {r \in Readers : rd[r] # NoRead /\ rd[r].cell = c}

Pins(cl, rd, from) ==
  \A c \in Cells : cl[c].inflight = Cardinality(ReadersOf(rd, c)) + (IF from = c THEN 1 ELSE 0)

\* Bytes b are expert k, no older than version v.
Whole(b, k, v) == b[1] = k /\ b[2] >= v

\* A load fills the slot its expert has and nobody reads; once the daemon serves
\* the slot is marked, and no expert is loaded twice.
LoadsOwn(cl, loc, by, ld, id, dm) ==
  /\ \A l \in ld :
       /\ cl[l.cell].key = l.key /\ cl[l.cell].ready = "no" /\ loc[l.key] = l.cell[1]
       /\ dm = "serving" => cl[l.cell].loading = "yes"
       /\ l.state = "ok" => Whole(by[l.cell], l.key, id[l.key])
  /\ \A l, m \in ld : l.key = m.key => l = m

\* A copy to a GPU reads a slot that is ready and has its expert.
ReadsHold(cl, rd) ==
  \A r \in Readers : rd[r] # NoRead =>
     /\ rd[r].cell \in Cells /\ rd[r].key \in Keys
     /\ cl[rd[r].cell].key = rd[r].key /\ cl[rd[r].cell].ready = "yes"

\* An active record tells what the bytes are; a ready slot has an active record
\* of its expert, and a slot that was given out and is not ready has none.
Records(cl, rc, by, id) ==
  \A c \in Cells :
     /\ rc[c].state = "active" => Whole(by[c], rc[c].key, rc[c].version)
     /\ cl[c].ready = "yes" => /\ rc[c].state = "active" /\ rc[c].key = cl[c].key
                               /\ Whole(by[c], cl[c].key, id[cl[c].key])
     /\ cl[c].ready = "no" /\ cl[c].key # Free => rc[c].state # "active"

\* The tables, for a relocation from one slot to another or none.
Sound(cl, loc, rc, by, ld, rd, id, dm, from, to) ==
  /\ cl \in [Cells -> Cell] /\ loc \in [Keys -> Nodes \cup {Nowhere}]
  /\ rc \in [Cells -> Recs] /\ by \in [Cells -> Bytes]
  /\ Placed(cl, loc, to) /\ NoTwins(cl) /\ Located(cl, loc) /\ Pins(cl, rd, from)
  /\ LoadsOwn(cl, loc, by, ld, id, dm) /\ ReadsHold(cl, rd) /\ Records(cl, rc, by, id)

\* The source and the target of the relocation of k.
Relocates(cl, loc, from, to, k) ==
  /\ k \in Keys /\ from \in Cells /\ to \in Cells
  /\ cl[from].key = k /\ cl[from].ready = "yes" /\ loc[k] = from[1]
  /\ cl[to].key = k /\ cl[to].ready = "no" /\ cl[to].loading = "yes" /\ to[1] # from[1]

Demoting == phase_ \in {"demote_copy", "demote_commit"}

\* The migrator: nothing is under way, or Moving goes from one slot to another,
\* on the node that the commit will write into the table of locations.
Migrating ==
  IF phase_ = "idle" THEN copy = NoCopy
  ELSE /\ daemon = "serving" /\ copy.state # "none"
       /\ Relocates(cell, location_, copy.from, copy.to, Moving)
       /\ copy.to[1] = IF Demoting THEN spare_node_ ELSE move.hbm
       /\ Demoting => move.key \in Keys
       /\ phase_ \in {"demote_commit", "promote_commit"} => copy.state = "done"
       /\ copy.state = "done" => bytes[copy.to] = bytes[copy.from]

\* Files only grow newer, and no bytes are newer than their file.
FilesGrow ==
  /\ \A k \in Keys : ident[k] <= files[k]
  /\ \A c \in Cells : bytes[c] # Torn => bytes[c][2] <= files[bytes[c][1]]

ArenaSound ==
  /\ TypeOK /\ Migrating /\ FilesGrow
  /\ Sound(cell, location_, rec, bytes, loads, reads, ident, daemon, copy.from, copy.to)
-------------------------------------------------------------------------------
(* Slots.                                                                  *)

\* A slot is a node and a number, and NoCell is none.
LEMMA CellFacts ==
  /\ \A c \in Cells : c[1] \in Nodes /\ c[2] \in Nat /\ c = <<c[1], c[2]>> /\ c[1] # Nowhere
  /\ NoCell \notin Cells
<1>1. \A c \in Cells : c[1] \in Nodes /\ c[2] \in 1..Size[c[1]] /\ c = <<c[1], c[2]>>
  <2> TAKE c \in Cells
  <2>1. PICK n \in Nodes : c \in {n} \X (1..Size[n])
    BY DEF Cells
  <2>2. c[1] = n /\ c[2] \in 1..Size[n] /\ c = <<c[1], c[2]>>
    BY <2>1
  <2>3. QED
    BY <2>2
<1>2. \A n \in Nodes : n \in Nat /\ Size[n] \in Nat
  BY ArenaAssumption
<1>3. \A c \in Cells : c[1] \in Nodes /\ c[2] \in Nat /\ c = <<c[1], c[2]>> /\ c[1] # Nowhere
  BY <1>1, <1>2 DEF Nowhere
<1>4. NoCell[1] = Nowhere
  BY DEF NoCell
<1>5. QED
  BY <1>3, <1>4

\* A set of natural numbers has a least one.
LEMMA NatMin ==
  ASSUME NEW T \in SUBSET Nat, T # {}
  PROVE  \E x \in T : \A y \in T : x <= y
<1> DEFINE R == OpToRel(<, Nat)
<1>1. IsWellFoundedOn(R, Nat)
  BY NatLessThanWellFounded
<1>2. \A x, y \in Nat : x < y => <<x, y>> \in R
  BY DEF OpToRel
<1> HIDE DEF R
<1>3. PICK x \in T : \A y \in T : ~ (<<y, x>> \in R)
  BY <1>1, WFMin
<1>4. \A y \in T : x <= y
  <2> TAKE y \in T
  <2>1. x \in Nat /\ y \in Nat
    OBVIOUS
  <2>2. ~(y < x)
    BY <1>2, <1>3, <2>1, Zenon
  <2>3. QED
    BY <2>1, <2>2
<1>5. QED
  BY <1>4

\* FirstOf picks one of the slots it is given.
LEMMA FirstOfIn ==
  ASSUME NEW S \in SUBSET Cells, S # {}
  PROVE  FirstOf(S) \in S
<1> DEFINE T == {c[2] : c \in S}
<1>1. T \in SUBSET Nat /\ T # {}
  BY CellFacts
<1>2. PICK x \in T : \A y \in T : x <= y
  BY <1>1, NatMin
<1>3. PICK c \in S : c[2] = x
  OBVIOUS
<1>4. \A d \in S : c[2] <= d[2]
  BY <1>2, <1>3
<1>5. QED
  BY <1>4 DEF FirstOf

\* Source finds the one slot of an expert on its node.
LEMMA SourceIs ==
  ASSUME NEW cl, NEW loc, NEW k, k # Free, NoTwins(cl),
         NEW c \in Cells, c[1] = loc[k], cl[c].key = k
  PROVE  Source(loc, cl, k) = c
<1>1. \A d \in Cells : d[1] = loc[k] /\ cl[d].key = k => d = c
  BY DEF NoTwins
<1>2. Source(loc, cl, k) \in Cells /\ Source(loc, cl, k)[1] = loc[k]
      /\ cl[Source(loc, cl, k)].key = k
  BY DEF Source
<1>3. QED
  BY <1>1, <1>2

\* The experts of a node's free slots, and of the slots with a given expert.
LEMMA FreeOfFacts ==
  ASSUME NEW cl, NEW n
  PROVE  /\ FreeOf(cl, n) \in SUBSET Cells
         /\ FreeOf(cl, n) # {} =>
              /\ FirstOf(FreeOf(cl, n)) \in Cells /\ FirstOf(FreeOf(cl, n))[1] = n
              /\ cl[FirstOf(FreeOf(cl, n))].key = Free
<1>1. \A c \in FreeOf(cl, n) : c \in Cells /\ c[1] = n /\ cl[c].key = Free
  BY DEF FreeOf, CellsOf
<1>2. QED
  BY <1>1, FirstOfIn

-------------------------------------------------------------------------------
(* Bytes and pins.                                                         *)

\* What is whole is no torn slot.
LEMMA BytesFacts ==
  ASSUME NEW b \in Bytes
  PROVE  /\ b[1] # Free /\ b[2] \in Nat
         /\ b[1] \in Keys => b # Torn /\ b[2] \in Versions /\ b = <<b[1], b[2]>>
         /\ b # Torn => b[1] \in Keys
<1>1. CASE b = Torn
  BY <1>1, ArenaAssumption DEF Torn, Free
<1>2. CASE b \in Keys \X Versions
  <2>1. b[1] \in Keys /\ b[2] \in Versions /\ b = <<b[1], b[2]>>
    BY <1>2
  <2>2. \A v \in Versions : v \in Nat
    BY ArenaAssumption DEF Versions
  <2>3. b # Torn
    BY <2>1, ArenaAssumption
  <2>4. QED
    BY <2>1, <2>2, <2>3, ArenaAssumption
<1>3. QED
  BY <1>1, <1>2 DEF Bytes

\* The readers of a slot are finitely many.
LEMMA ReadersFinite ==
  ASSUME NEW rd, NEW c
  PROVE  IsFiniteSet(ReadersOf(rd, c)) /\ Cardinality(ReadersOf(rd, c)) \in Nat
<1>1. ReadersOf(rd, c) \in SUBSET Readers
  BY DEF ReadersOf
<1>2. IsFiniteSet(ReadersOf(rd, c))
  BY <1>1, FS_Subset, ArenaAssumption
<1>3. QED
  BY <1>2, FS_CardinalityType

\* A slot without pins is neither read nor the source of a relocation; the source
\* with one pin is read by nobody.
LEMMA Unpinned ==
  ASSUME NEW cl, NEW rd, NEW from, Pins(cl, rd, from), NEW c \in Cells
  PROVE  /\ cl[c].inflight = 0 => ReadersOf(rd, c) = {} /\ from # c
         /\ from = c /\ cl[c].inflight <= 1 => ReadersOf(rd, c) = {}
         /\ from # c /\ ReadersOf(rd, c) = {} => cl[c].inflight = 0
<1>1. cl[c].inflight = Cardinality(ReadersOf(rd, c)) + (IF from = c THEN 1 ELSE 0)
  BY DEF Pins
<1>2. /\ Cardinality(ReadersOf(rd, c)) \in Nat
      /\ Cardinality(ReadersOf(rd, c)) = 0 <=> ReadersOf(rd, c) = {}
  BY ReadersFinite, FS_EmptySet
<1>3. QED
  BY <1>1, <1>2

\* Nobody reads a slot that is not ready.
LEMMA UnreadyUnread ==
  ASSUME NEW cl, NEW rd, ReadsHold(cl, rd), NEW c \in Cells, cl[c].ready # "yes"
  PROVE  ReadersOf(rd, c) = {}
BY DEF ReadsHold, ReadersOf

\* A slot that is ready has an expert.
LEMMA ReadyHasKey ==
  ASSUME NEW cl \in [Cells -> Cell], NEW rc, NEW by \in [Cells -> Bytes], NEW id,
         Records(cl, rc, by, id), NEW c \in Cells, cl[c].ready = "yes"
  PROVE  cl[c].key \in Keys
<1>1. by[c][1] = cl[c].key
  BY DEF Records, Whole
<1>2. cl[c].key # Free /\ cl[c].key \in Keys \cup {Free}
  BY <1>1, BytesFacts DEF Cell
<1>3. QED
  BY <1>2

-------------------------------------------------------------------------------
(* What a step does to the tables.                                         *)

\* Slot c is given to k, or k has it already: nobody reads or writes it, and what
\* it holds afterwards is described by its record.  The expert it had is nowhere.
Filled(cl, loc, rc, by, ld, rd, id, dm, from, to, c, k, cl1, loc1, rc1, by1, ld1, rd1) ==
  /\ c \in Cells /\ k \in Keys /\ ld \subseteq Load
  /\ ReadersOf(rd, c) = {} /\ c # from /\ c # to /\ \A l \in ld : l.cell # c
  /\ to \in Cells => cl[to].key # k
  /\ (cl[c].key = k /\ loc[k] = c[1]) \/ (cl[c].key # k /\ loc[k] = Nowhere)
  /\ cl1 \in [Cells -> Cell] /\ rc1 \in [Cells -> Recs] /\ by1 \in [Cells -> Bytes]
  /\ loc1 \in [Keys -> Nodes \cup {Nowhere}]
  /\ \A d \in Cells : d # c => cl1[d] = cl[d] /\ rc1[d] = rc[d] /\ by1[d] = by[d]
  /\ cl1[c].key = k /\ cl1[c].inflight = Cardinality(ReadersOf(rd1, c))
  /\ loc1[k] = c[1]
  /\ \A j \in Keys : j # k => loc1[j] = IF j = cl[c].key THEN Nowhere ELSE loc[j]
  /\ \A l \in ld1 : \/ l \in ld
                    \/ /\ l = [key |-> k, cell |-> c, state |-> "queued"]
                       /\ cl1[c].ready = "no"
                       /\ dm = "serving" => cl1[c].loading = "yes"
  /\ \A r \in Readers : \/ rd1[r] = rd[r]
                        \/ /\ rd1[r] = [cell |-> c, key |-> k] /\ rd[r] = NoRead
                           /\ cl1[c].ready = "yes"
  /\ rc1[c].state = "active" => Whole(by1[c], rc1[c].key, rc1[c].version)
  /\ cl1[c].ready = "yes" => /\ rc1[c].state = "active" /\ rc1[c].key = k
                             /\ Whole(by1[c], k, id[k])
  /\ cl1[c].ready = "no" => rc1[c].state # "active"

LEMMA Fill ==
  ASSUME NEW cl, NEW loc, NEW rc, NEW by, NEW ld, NEW rd, NEW id, NEW dm, NEW from, NEW to,
         NEW c, NEW k, NEW cl1, NEW loc1, NEW rc1, NEW by1, NEW ld1, NEW rd1,
         Sound(cl, loc, rc, by, ld, rd, id, dm, from, to),
         Filled(cl, loc, rc, by, ld, rd, id, dm, from, to, c, k, cl1, loc1, rc1, by1, ld1, rd1)
  PROVE  Sound(cl1, loc1, rc1, by1, ld1, rd1, id, dm, from, to)
<1> USE DEF Filled
<1>1. /\ cl \in [Cells -> Cell] /\ loc \in [Keys -> Nodes \cup {Nowhere}]
      /\ Placed(cl, loc, to) /\ NoTwins(cl) /\ Located(cl, loc) /\ Pins(cl, rd, from)
      /\ LoadsOwn(cl, loc, by, ld, id, dm) /\ ReadsHold(cl, rd) /\ Records(cl, rc, by, id)
  BY DEF Sound
<1>2. /\ \A d \in Cells : cl[d].key \in Keys \cup {Free} /\ d[1] \in Nodes /\ d[1] # Nowhere
      /\ Free \notin Keys
  BY <1>1, CellFacts, ArenaAssumption DEF Cell
<1>3. \A d \in Cells : d # c => cl[d].key # k
  BY <1>1, <1>2 DEF Placed, NoTwins
<1>4. \A d \in Cells : d # c /\ d # to /\ cl[d].key # Free => cl[d].key # cl[c].key
  BY <1>1, <1>2 DEF Placed, NoTwins
<1>5. Placed(cl1, loc1, to)
  <2> SUFFICES ASSUME NEW d \in Cells, cl1[d].key # Free, d # to
               PROVE  loc1[cl1[d].key] = d[1]
    BY DEF Placed
  <2>1. CASE d = c
    BY <2>1
  <2>2. CASE d # c
    <3>1. cl1[d].key = cl[d].key /\ cl[d].key \in Keys /\ cl[d].key # k
      BY <1>2, <1>3, <2>2
    <3>2. loc[cl[d].key] = d[1] /\ cl[d].key # cl[c].key
      BY <1>1, <1>4, <2>2, <3>1 DEF Placed
    <3>3. QED
      BY <3>1, <3>2
  <2>3. QED
    BY <2>1, <2>2
<1>6. NoTwins(cl1)
  BY <1>1, <1>3 DEF NoTwins
<1>7. Located(cl1, loc1)
  <2> SUFFICES ASSUME NEW j \in Keys, loc1[j] # Nowhere
               PROVE  \E d \in Cells : d[1] = loc1[j] /\ cl1[d].key = j
    BY DEF Located
  <2>1. CASE j = k
    BY <2>1
  <2>2. CASE j # k
    <3>1. loc1[j] = loc[j] /\ j # cl[c].key
      BY <2>2
    <3>2. PICK d \in Cells : d[1] = loc[j] /\ cl[d].key = j
      BY <1>1, <3>1 DEF Located
    <3>3. d # c
      BY <3>1, <3>2
    <3>4. QED
      BY <3>1, <3>2, <3>3
  <2>3. QED
    BY <2>1, <2>2
<1>8. Pins(cl1, rd1, from)
  <2> SUFFICES ASSUME NEW d \in Cells
               PROVE  cl1[d].inflight = Cardinality(ReadersOf(rd1, d)) +
                                        (IF from = d THEN 1 ELSE 0)
    BY DEF Pins
  <2>1. CASE d = c
    BY <2>1, ReadersFinite
  <2>2. CASE d # c
    <3>1. \A r \in Readers : r \in ReadersOf(rd1, d) <=> r \in ReadersOf(rd, d)
      BY <2>2 DEF ReadersOf
    <3>2. ReadersOf(rd1, d) = ReadersOf(rd, d)
      BY <3>1 DEF ReadersOf
    <3>3. QED
      BY <1>1, <2>2, <3>2 DEF Pins
  <2>3. QED
    BY <2>1, <2>2
<1>9. LoadsOwn(cl1, loc1, by1, ld1, id, dm)
  <2>1. \A l \in ld : /\ l.cell \in Cells /\ l.cell # c /\ l.key \in Keys
                      /\ cl[l.cell].key = l.key /\ l.key # k /\ loc[l.key] = l.cell[1]
    BY <1>1, <1>3 DEF LoadsOwn, Load
  <2>2. \A l \in ld : loc1[l.key] = loc[l.key]
    <3> TAKE l \in ld
    <3>1. l.key # cl[c].key
      <4> SUFFICES ASSUME l.key = cl[c].key PROVE FALSE
        OBVIOUS
      <4>1. loc[cl[c].key] = c[1]
        BY <1>1, <1>2, <2>1 DEF Placed
      <4>2. QED
        BY <1>1, <1>2, <2>1, <4>1 DEF NoTwins
    <3>2. QED
      BY <2>1, <3>1
  <2>3. ASSUME NEW l \in ld1
        PROVE  /\ cl1[l.cell].key = l.key /\ cl1[l.cell].ready = "no"
               /\ loc1[l.key] = l.cell[1]
               /\ dm = "serving" => cl1[l.cell].loading = "yes"
               /\ l.state = "ok" => Whole(by1[l.cell], l.key, id[l.key])
    <3>1. CASE l \in ld
      <4>1. cl1[l.cell] = cl[l.cell] /\ by1[l.cell] = by[l.cell] /\ loc1[l.key] = loc[l.key]
        BY <2>1, <2>2, <3>1
      <4>2. QED
        BY <1>1, <3>1, <4>1 DEF LoadsOwn
    <3>2. CASE l \notin ld
      <4>1. l.key = k /\ l.cell = c /\ l.state = "queued"
        BY <3>2
      <4>2. QED
        BY <3>2, <4>1
    <3>3. QED
      BY <3>1, <3>2
  <2>4. \A l, m \in ld1 : l.key = m.key => l = m
    <3> SUFFICES ASSUME NEW l \in ld1, NEW m \in ld1, l.key = m.key PROVE l = m
      OBVIOUS
    <3>1. /\ l \in ld \/ (l = [key |-> k, cell |-> c, state |-> "queued"] /\ l.key = k)
          /\ m \in ld \/ (m = [key |-> k, cell |-> c, state |-> "queued"] /\ m.key = k)
      OBVIOUS
    <3>2. QED
      BY <1>1, <2>1, <3>1 DEF LoadsOwn
  <2>5. QED
    BY <2>3, <2>4 DEF LoadsOwn
<1>10. ReadsHold(cl1, rd1)
  <2> SUFFICES ASSUME NEW r \in Readers, rd1[r] # NoRead
               PROVE  /\ rd1[r].cell \in Cells /\ rd1[r].key \in Keys
                      /\ cl1[rd1[r].cell].key = rd1[r].key /\ cl1[rd1[r].cell].ready = "yes"
    BY DEF ReadsHold
  <2>1. CASE rd1[r] = rd[r]
    <3>1. rd[r].cell # c
      BY <2>1 DEF ReadersOf
    <3>2. QED
      BY <1>1, <2>1, <3>1 DEF ReadsHold
  <2>2. CASE rd1[r] = [cell |-> c, key |-> k] /\ cl1[c].ready = "yes"
    BY <2>2
  <2>3. QED
    BY <2>1, <2>2
<1>11. Records(cl1, rc1, by1, id)
  BY <1>1 DEF Records
<1>12. QED
  BY <1>5, <1>6, <1>7, <1>8, <1>9, <1>10, <1>11 DEF Sound

\* A slot that nobody reads or fills is freed.  Its record stays.
LEMMA Evict ==
  ASSUME NEW cl, NEW loc, NEW rc, NEW by, NEW ld, NEW rd, NEW id, NEW dm,
         Sound(cl, loc, rc, by, ld, rd, id, dm, NoCell, NoCell), ld \subseteq Load,
         NEW c \in Cells, NEW k \in Keys, cl[c].key = k, cl[c].inflight = 0,
         \A l \in ld : l.cell # c
  PROVE  Sound([cl EXCEPT ![c] = FreeCell], [loc EXCEPT ![k] = Nowhere], rc, by, ld, rd,
               id, dm, NoCell, NoCell)
<1> DEFINE cl1 == [cl EXCEPT ![c] = FreeCell]
           loc1 == [loc EXCEPT ![k] = Nowhere]
<1>1. /\ cl \in [Cells -> Cell] /\ loc \in [Keys -> Nodes \cup {Nowhere}]
      /\ rc \in [Cells -> Recs] /\ by \in [Cells -> Bytes]
      /\ Placed(cl, loc, NoCell) /\ NoTwins(cl) /\ Located(cl, loc) /\ Pins(cl, rd, NoCell)
      /\ LoadsOwn(cl, loc, by, ld, id, dm) /\ ReadsHold(cl, rd) /\ Records(cl, rc, by, id)
  BY DEF Sound
<1>2. /\ \A d \in Cells : cl[d].key \in Keys \cup {Free} /\ d[1] \in Nodes /\ d # NoCell
      /\ Free \notin Keys /\ FreeCell \in Cell
  BY <1>1, CellFacts, ArenaAssumption DEF Cell, FreeCell, YesNo
<1>3. /\ cl1 \in [Cells -> Cell] /\ loc1 \in [Keys -> Nodes \cup {Nowhere}]
      /\ cl1[c] = FreeCell /\ \A d \in Cells : d # c => cl1[d] = cl[d]
      /\ loc1[k] = Nowhere /\ \A j \in Keys : j # k => loc1[j] = loc[j]
  BY <1>1, <1>2
<1>4. FreeCell.key = Free /\ FreeCell.ready = "no" /\ FreeCell.inflight = 0
  BY DEF FreeCell
<1>5. ReadersOf(rd, c) = {}
  BY <1>1, Unpinned
<1> HIDE DEF cl1, loc1
<1>6. \A d \in Cells : d # c => cl[d].key # k
  BY <1>1, <1>2 DEF Placed, NoTwins
<1>7. Placed(cl1, loc1, NoCell)
  BY <1>1, <1>2, <1>3, <1>4, <1>6 DEF Placed
<1>8. NoTwins(cl1)
  BY <1>1, <1>3, <1>4 DEF NoTwins
<1>9. Located(cl1, loc1)
  BY <1>1, <1>3 DEF Located
<1>10. Pins(cl1, rd, NoCell)
  <2>1. Cardinality(ReadersOf(rd, c)) = 0
    BY <1>5, FS_EmptySet
  <2>2. QED
    BY <1>1, <1>2, <1>3, <1>4, <2>1 DEF Pins
<1>11. LoadsOwn(cl1, loc1, by, ld, id, dm)
  <2>1. \A l \in ld : /\ l.cell \in Cells /\ l.cell # c /\ l.key \in Keys
                      /\ cl[l.cell].key = l.key
    BY <1>1 DEF LoadsOwn, Load
  <2>2. \A l \in ld : cl1[l.cell] = cl[l.cell] /\ loc1[l.key] = loc[l.key]
    BY <1>3, <1>6, <2>1
  <2>3. QED
    BY <1>1, <2>2 DEF LoadsOwn
<1>12. ReadsHold(cl1, rd)
  BY <1>1, <1>3, <1>5 DEF ReadsHold, ReadersOf
<1>13. Records(cl1, rc, by, id)
  BY <1>1, <1>3, <1>4 DEF Records
<1>14. Sound(cl1, loc1, rc, by, ld, rd, id, dm, NoCell, NoCell)
  BY <1>1, <1>3, <1>7, <1>8, <1>9, <1>10, <1>11, <1>12, <1>13 DEF Sound
<1>15. QED
  BY <1>14 DEF cl1, loc1

\* The relocation of k to node n has begun in tables cl and rc, which are now cl1
\* and rc1: a free slot of n is the target, the slot k has is pinned.
Begun(cl, loc, rc, k, n, cl1, rc1, src, tgt) ==
  /\ src \in Cells /\ cl[src].key = k /\ src[1] = loc[k] /\ cl[src].ready = "yes"
  /\ tgt \in Cells /\ cl[tgt].key = Free /\ tgt[1] = n /\ n # src[1]
  /\ \A d \in Cells : d[1] = n => cl[d].key # k
  /\ cl1 \in [Cells -> Cell] /\ rc1 \in [Cells -> Recs]
  /\ cl1[tgt].key = k /\ cl1[tgt].ready = "no" /\ cl1[tgt].loading = "yes"
  /\ cl1[tgt].inflight = 0 /\ rc1[tgt].state = "loading"
  /\ cl1[src].key = k /\ cl1[src].ready = "yes"
  /\ cl1[src].loading = cl[src].loading /\ cl1[src].inflight = cl[src].inflight + 1
  /\ \A d \in Cells : d # tgt => rc1[d] = rc[d] /\ (d # src => cl1[d] = cl[d])

\* The cells and records after migrate_begin, slot by slot.
LEMMA BeginCells ==
  ASSUME NEW cl \in [Cells -> Cell], NEW loc \in [Keys -> Nodes \cup {Nowhere}],
         NEW rc \in [Cells -> Recs], Located(cl, loc), NoTwins(cl),
         NEW k \in Keys, NEW n, MayBegin(loc, cl, k, n), ident \in [Keys -> Versions]
  PROVE  Begun(cl, loc, rc, k, n, migrate_begin(loc, cl, k, n),
               on_load_start(on_reuse(rc, FirstOf(FreeOf(cl, n))), FirstOf(FreeOf(cl, n)), k),
               Source(loc, cl, k), FirstOf(FreeOf(cl, n)))
<1> DEFINE src == Source(loc, cl, k)
           tgt == FirstOf(FreeOf(cl, n))
           cl1 == migrate_begin(loc, cl, k, n)
           rc1 == on_load_start(on_reuse(rc, tgt), tgt, k)
           new == [FreeCell EXCEPT !.key = k, !.loading = "yes"]
<1>1. PICK c \in Cells : c[1] = loc[k] /\ cl[c].key = k
  BY DEF MayBegin, Located
<1>2. src = c
  BY <1>1, SourceIs, ArenaAssumption
<1>3. tgt \in Cells /\ cl[tgt].key = Free /\ tgt[1] = n /\ n # src[1]
  BY <1>1, <1>2, FreeOfFacts DEF MayBegin
<1>4. \A d \in Cells : d[1] = n => cl[d].key # k
  BY DEF MayBegin, At, CellsOf
<1>5. new \in Cell
  BY DEF Cell, FreeCell, YesNo
<1>6. cl[src] \in Cell /\ [cl[src] EXCEPT !.inflight = @ + 1] \in Cell
  BY <1>1, <1>2 DEF Cell
<1>7. tgt # src
  BY <1>3
<1>8. cl1 = [cl EXCEPT ![tgt] = new, ![src].inflight = @ + 1]
  BY DEF migrate_begin
<1>9. /\ cl1 \in [Cells -> Cell] /\ cl1[tgt] = new
      /\ cl1[src] = [cl[src] EXCEPT !.inflight = @ + 1]
      /\ \A d \in Cells : d # tgt /\ d # src => cl1[d] = cl[d]
  <2> HIDE DEF new, src, tgt, cl1
  <2>1. cl1 = [cl EXCEPT ![tgt] = new, ![src] = [cl[src] EXCEPT !.inflight = @ + 1]]
    BY <1>1, <1>2, <1>3, <1>7, <1>8
  <2>2. QED
    BY <1>1, <1>2, <1>3, <1>5, <1>6, <1>7, <2>1
<1>10. Stamp("loading", k) \in Recs /\ Stamp("loading", k).state = "loading"
  BY DEF Stamp, Recs
<1>11. rc1 \in [Cells -> Recs] /\ rc1[tgt].state = "loading"
       /\ \A d \in Cells : d # tgt => rc1[d] = rc[d]
  <2>1. on_reuse(rc, tgt) \in [Cells -> Recs]
        /\ \A d \in Cells : d # tgt => on_reuse(rc, tgt)[d] = rc[d]
    BY <1>3 DEF on_reuse, Recs
  <2>2. QED
    BY <1>3, <1>10, <2>1 DEF on_load_start
<1>12. cl[src].ready = "yes"
  BY DEF MayBegin
<1> HIDE DEF src, tgt, cl1, rc1
<1>13. /\ cl1[tgt].key = k /\ cl1[tgt].ready = "no" /\ cl1[tgt].loading = "yes"
       /\ cl1[tgt].inflight = 0
  BY <1>9 DEF FreeCell
<1>14. /\ cl1[src].key = k /\ cl1[src].ready = "yes"
       /\ cl1[src].loading = cl[src].loading /\ cl1[src].inflight = cl[src].inflight + 1
  BY <1>1, <1>2, <1>6, <1>9, <1>12 DEF Cell
<1> HIDE DEF new
<1>15. Begun(cl, loc, rc, k, n, cl1, rc1, src, tgt)
  BY <1>1, <1>2, <1>3, <1>4, <1>9, <1>11, <1>12, <1>13, <1>14 DEF Begun
<1>16. QED
  BY <1>15 DEF src, tgt, cl1, rc1

\* A relocation begins: the target is given to the expert and marked, the source
\* pinned.  Nothing is read from or loaded into the target.
LEMMA BeginSound ==
  ASSUME NEW cl, NEW loc, NEW rc, NEW by, NEW ld, NEW rd, NEW id, NEW dm,
         Sound(cl, loc, rc, by, ld, rd, id, dm, NoCell, NoCell), ld \subseteq Load,
         NEW k \in Keys, NEW n, NEW cl1, NEW rc1, NEW src, NEW tgt,
         Begun(cl, loc, rc, k, n, cl1, rc1, src, tgt)
  PROVE  /\ Sound(cl1, loc, rc1, by, ld, rd, id, dm, src, tgt)
         /\ Relocates(cl1, loc, src, tgt, k) /\ tgt[1] = n
         /\ \A c \in Cells : cl[c].key # Free => cl1[c].key = cl[c].key /\
                                                  cl1[c].ready = cl[c].ready
<1>1. /\ cl \in [Cells -> Cell] /\ loc \in [Keys -> Nodes \cup {Nowhere}]
      /\ rc \in [Cells -> Recs] /\ by \in [Cells -> Bytes]
      /\ Placed(cl, loc, NoCell) /\ NoTwins(cl) /\ Located(cl, loc) /\ Pins(cl, rd, NoCell)
      /\ LoadsOwn(cl, loc, by, ld, id, dm) /\ ReadsHold(cl, rd)
      /\ Records(cl, rc, by, id)
  BY DEF Sound
<1>2. /\ src \in Cells /\ cl[src].key = k /\ src[1] = loc[k] /\ cl[src].ready = "yes"
      /\ tgt \in Cells /\ cl[tgt].key = Free /\ tgt[1] = n /\ n # src[1]
      /\ \A d \in Cells : d[1] = n => cl[d].key # k
      /\ cl1 \in [Cells -> Cell] /\ rc1 \in [Cells -> Recs]
      /\ rc1[tgt].state = "loading"
      /\ \A d \in Cells : d # tgt => rc1[d] = rc[d] /\ (d # src => cl1[d] = cl[d])
  BY DEF Begun
<1>3. /\ cl1[tgt].key = k /\ cl1[tgt].ready = "no" /\ cl1[tgt].loading = "yes"
      /\ cl1[tgt].inflight = 0
  BY DEF Begun
<1>4. /\ cl1[src].key = k /\ cl1[src].ready = "yes"
      /\ cl1[src].loading = cl[src].loading /\ cl1[src].inflight = cl[src].inflight + 1
      /\ cl[src].inflight \in Nat
  BY <1>1 DEF Begun, Cell
<1>5. \A d \in Cells : d # tgt => /\ cl1[d].key = cl[d].key /\ cl1[d].ready = cl[d].ready
                                  /\ cl1[d].loading = cl[d].loading
  BY <1>2, <1>4
<1>6. /\ \A d \in Cells : cl[d].key \in Keys \cup {Free} /\ d # NoCell
      /\ Free \notin Keys
  BY <1>1, CellFacts, ArenaAssumption DEF Cell
<1>7. ReadersOf(rd, tgt) = {}
  BY <1>1, <1>2, <1>6 DEF ReadsHold, ReadersOf
<1>8. Placed(cl1, loc, tgt)
  BY <1>1, <1>5, <1>6 DEF Placed
<1>9. NoTwins(cl1)
  <2> SUFFICES ASSUME NEW c \in Cells, NEW d \in Cells, c[1] = d[1],
                      cl1[c].key = cl1[d].key, cl1[c].key # Free, c # d
               PROVE  FALSE
    BY DEF NoTwins
  <2>1. CASE c = tgt
    BY <1>2, <1>3, <1>5, <2>1
  <2>2. CASE d = tgt
    BY <1>2, <1>3, <1>5, <2>2
  <2>3. CASE c # tgt /\ d # tgt
    BY <1>1, <1>5, <2>3 DEF NoTwins
  <2>4. QED
    BY <2>1, <2>2, <2>3
<1>10. Located(cl1, loc)
  <2> SUFFICES ASSUME NEW j \in Keys, loc[j] # Nowhere
               PROVE  \E d \in Cells : d[1] = loc[j] /\ cl1[d].key = j
    BY DEF Located
  <2>1. PICK d \in Cells : d[1] = loc[j] /\ cl[d].key = j
    BY <1>1 DEF Located
  <2>2. d # tgt
    BY <1>2, <1>6, <2>1
  <2>3. QED
    BY <1>5, <2>1, <2>2
<1>11. Pins(cl1, rd, src)
  <2> SUFFICES ASSUME NEW d \in Cells
               PROVE  cl1[d].inflight = Cardinality(ReadersOf(rd, d)) +
                                        (IF src = d THEN 1 ELSE 0)
    BY DEF Pins
  <2>1. /\ cl[d].inflight = Cardinality(ReadersOf(rd, d)) + 0
        /\ Cardinality(ReadersOf(rd, d)) \in Nat
    BY <1>1, <1>6, ReadersFinite DEF Pins
  <2>2. CASE d = tgt
    <3>1. Cardinality(ReadersOf(rd, d)) = 0 /\ src # d
      BY <1>2, <1>7, <2>2, FS_EmptySet
    <3>2. QED
      BY <1>3, <2>2, <3>1
  <2>3. CASE d = src
    BY <1>4, <2>1, <2>3
  <2>4. CASE d # tgt /\ d # src
    BY <1>2, <2>1, <2>4
  <2>5. QED
    BY <2>2, <2>3, <2>4
<1>12. LoadsOwn(cl1, loc, by, ld, id, dm)
  <2>1. \A l \in ld : l.cell \in Cells /\ l.cell # tgt
    BY <1>1, <1>2, <1>6 DEF LoadsOwn, Load
  <2>2. QED
    BY <1>1, <1>5, <2>1 DEF LoadsOwn
<1>13. ReadsHold(cl1, rd)
  BY <1>1, <1>5, <1>7 DEF ReadsHold, ReadersOf
<1>14. Records(cl1, rc1, by, id)
  <2> SUFFICES ASSUME NEW d \in Cells
               PROVE  /\ rc1[d].state = "active" => Whole(by[d], rc1[d].key, rc1[d].version)
                      /\ cl1[d].ready = "yes" => /\ rc1[d].state = "active"
                                                 /\ rc1[d].key = cl1[d].key
                                                 /\ Whole(by[d], cl1[d].key, id[cl1[d].key])
                      /\ cl1[d].ready = "no" /\ cl1[d].key # Free => rc1[d].state # "active"
    BY DEF Records
  <2>1. CASE d = tgt
    BY <1>2, <1>3, <2>1
  <2>2. CASE d # tgt
    <3>1. rc1[d] = rc[d] /\ cl1[d].key = cl[d].key /\ cl1[d].ready = cl[d].ready
      BY <1>2, <1>5, <2>2
    <3>2. QED
      BY <1>1, <3>1 DEF Records
  <2>3. QED
    BY <2>1, <2>2
<1>15. Sound(cl1, loc, rc1, by, ld, rd, id, dm, src, tgt)
  BY <1>1, <1>2, <1>8, <1>9, <1>10, <1>11, <1>12, <1>13, <1>14 DEF Sound
<1>16. Relocates(cl1, loc, src, tgt, k) /\ tgt[1] = n
  BY <1>2, <1>3, <1>4 DEF Relocates
<1>17. QED
  BY <1>2, <1>5, <1>15, <1>16

\* The relocation of k is committed: the tables are now cl1, loc1 and rc1.
Committed(k, from, to, cl1, loc1, rc1) ==
  /\ k = Moving /\ phase_ # "idle" /\ CopyIsDone /\ MayCommit(k)
  /\ from = copy.from /\ to = copy.to /\ cl1 = committed(k, copy.to)
  /\ loc1 = [location_ EXCEPT ![k] = copy.to[1]] /\ rc1 = on_load_ready(rec, copy.to, k)

\* A relocation is committed when nobody but the migrator pins its source: the
\* target, which has the same bytes, is ready, and the source free.
LEMMA CommitSound ==
  ASSUME ArenaSound, NEW k, NEW from, NEW to, NEW cl1, NEW loc1, NEW rc1,
         Committed(k, from, to, cl1, loc1, rc1)
  PROVE  /\ Sound(cl1, loc1, rc1, bytes, loads, reads, ident, daemon, NoCell, NoCell)
         /\ \A c \in Cells : cell[c].ready = "yes" /\ c # from => cl1[c] = cell[c]
         /\ cl1[to].key = k /\ cl1[to].ready = "yes"
<1> USE DEF Committed
<1>1. /\ cell \in [Cells -> Cell] /\ location_ \in [Keys -> Nodes \cup {Nowhere}]
      /\ rec \in [Cells -> Recs] /\ bytes \in [Cells -> Bytes]
      /\ Placed(cell, location_, to) /\ NoTwins(cell) /\ Located(cell, location_)
      /\ Pins(cell, reads, from) /\ LoadsOwn(cell, location_, bytes, loads, ident, daemon)
      /\ ReadsHold(cell, reads) /\ Records(cell, rec, bytes, ident)
      /\ loads \subseteq Load /\ ident \in [Keys -> Versions]
  BY DEF ArenaSound, Sound, TypeOK, Load
<1>2. /\ k \in Keys /\ from \in Cells /\ to \in Cells /\ to[1] # from[1] /\ from # to
      /\ cell[from].key = k /\ cell[from].ready = "yes" /\ location_[k] = from[1]
      /\ cell[to].key = k /\ cell[to].ready = "no" /\ bytes[to] = bytes[from]
  BY DEF ArenaSound, Migrating, Relocates, CopyIsDone
<1>3. Source(location_, cell, k) = from
  BY <1>1, <1>2, SourceIs, ArenaAssumption
<1>4. cell[from].inflight <= 1
  BY <1>3 DEF MayCommit
<1>5. ReadersOf(reads, from) = {} /\ ReadersOf(reads, to) = {}
  BY <1>1, <1>2, <1>4, Unpinned, UnreadyUnread
<1>6. cell[to].inflight = 0
  BY <1>1, <1>2, <1>5, Unpinned
<1>7. FreeCell \in Cell /\ FreeCell.key = Free /\ FreeCell.ready = "no" /\ FreeCell.inflight = 0
  BY DEF Cell, FreeCell, YesNo
<1> DEFINE done == [cell[to] EXCEPT !.ready = "yes", !.loading = "no"]
<1>8. /\ done \in Cell /\ done.key = k /\ done.ready = "yes" /\ done.inflight = 0
  <2>1. cell[to] \in Cell /\ "yes" \in YesNo /\ "no" \in YesNo
    BY <1>1, <1>2 DEF YesNo
  <2>2. \A v \in Cell : /\ [v EXCEPT !.ready = "yes", !.loading = "no"] \in Cell
                        /\ [v EXCEPT !.ready = "yes", !.loading = "no"].key = v.key
                        /\ [v EXCEPT !.ready = "yes", !.loading = "no"].ready = "yes"
                        /\ [v EXCEPT !.ready = "yes", !.loading = "no"].inflight = v.inflight
    BY <2>1 DEF Cell
  <2> QED  BY <1>2, <1>6, <2>1, <2>2
<1>9. /\ cl1 \in [Cells -> Cell] /\ cl1[from] = FreeCell /\ cl1[to] = done
      /\ \A d \in Cells : d # from /\ d # to => cl1[d] = cell[d]
  <2>1. cl1 = [cell EXCEPT ![to].ready = "yes", ![to].loading = "no", ![from] = FreeCell]
    BY <1>3 DEF committed
  <2>2. cl1 = [cell EXCEPT ![to] = done, ![from] = FreeCell]
    BY <1>1, <1>2, <2>1
  <2> HIDE DEF done
  <2>3. QED
    BY <1>1, <1>2, <1>7, <1>8, <2>2
<1>10. /\ loc1 \in [Keys -> Nodes \cup {Nowhere}] /\ loc1[k] = to[1]
       /\ \A j \in Keys : j # k => loc1[j] = location_[j]
  BY <1>1, <1>2, CellFacts
<1>11. /\ rc1 \in [Cells -> Recs] /\ rc1[to].state = "active" /\ rc1[to].key = k
       /\ rc1[to].version = ident[k] /\ \A d \in Cells : d # to => rc1[d] = rec[d]
  BY <1>1, <1>2 DEF on_load_ready, Stamp, Recs
<1> HIDE DEF done
<1>12. /\ \A d \in Cells : cell[d].key \in Keys \cup {Free} /\ d # NoCell
       /\ Free \notin Keys
  BY <1>1, CellFacts, ArenaAssumption DEF Cell
<1>13. \A d \in Cells : d # from /\ d # to => cell[d].key # k
  BY <1>1, <1>2, <1>12 DEF Placed, NoTwins
<1>14. Placed(cl1, loc1, NoCell)
  <2> SUFFICES ASSUME NEW d \in Cells, cl1[d].key # Free PROVE loc1[cl1[d].key] = d[1]
    BY DEF Placed
  <2>1. CASE d = to
    BY <1>8, <1>9, <1>10, <2>1
  <2>2. CASE d # from /\ d # to
    <3>1. cl1[d].key = cell[d].key /\ cell[d].key \in Keys /\ cell[d].key # k
      BY <1>9, <1>12, <1>13, <2>2
    <3>2. QED
      BY <1>1, <1>10, <2>2, <3>1 DEF Placed
  <2>3. QED
    BY <1>7, <1>9, <2>1, <2>2
<1>15. NoTwins(cl1)
  <2> SUFFICES ASSUME NEW c \in Cells, NEW d \in Cells, c[1] = d[1],
                      cl1[c].key = cl1[d].key, cl1[c].key # Free, c # d
               PROVE  FALSE
    BY DEF NoTwins
  <2>1. c # from /\ d # from
    BY <1>7, <1>9
  <2>2. QED
    BY <1>1, <1>8, <1>9, <1>13, <2>1 DEF NoTwins
<1>16. Located(cl1, loc1)
  <2> SUFFICES ASSUME NEW j \in Keys, loc1[j] # Nowhere
               PROVE  \E d \in Cells : d[1] = loc1[j] /\ cl1[d].key = j
    BY DEF Located
  <2>1. CASE j = k
    BY <1>2, <1>8, <1>9, <1>10, <2>1
  <2>2. CASE j # k
    <3>1. PICK d \in Cells : d[1] = location_[j] /\ cell[d].key = j
      BY <1>1, <1>10, <2>2 DEF Located
    <3>2. d # from /\ d # to
      BY <1>2, <2>2, <3>1
    <3>3. QED
      BY <1>9, <1>10, <2>2, <3>1, <3>2
  <2>3. QED
    BY <2>1, <2>2
<1>17. Pins(cl1, reads, NoCell)
  <2>1. Cardinality(ReadersOf(reads, from)) = 0 /\ Cardinality(ReadersOf(reads, to)) = 0
    BY <1>5, FS_EmptySet
  <2>2. QED
    BY <1>1, <1>7, <1>8, <1>9, <1>12, <2>1 DEF Pins
<1>18. LoadsOwn(cl1, loc1, bytes, loads, ident, daemon)
  <2>1. \A l \in loads : l.cell \in Cells /\ l.key \in Keys /\ cell[l.cell].key = l.key
    BY <1>1 DEF LoadsOwn, Load
  <2>2. \A l \in loads : l.cell # from /\ l.cell # to /\ l.key # k
    BY <1>1, <1>2, <1>13, <2>1 DEF LoadsOwn
  <2>3. \A l \in loads : cl1[l.cell] = cell[l.cell] /\ loc1[l.key] = location_[l.key]
    BY <1>9, <1>10, <2>1, <2>2
  <2>4. QED
    BY <1>1, <2>3 DEF LoadsOwn
<1>19. ReadsHold(cl1, reads)
  BY <1>1, <1>5, <1>9 DEF ReadsHold, ReadersOf
<1>20. Records(cl1, rc1, bytes, ident)
  <2> SUFFICES ASSUME NEW d \in Cells
               PROVE  /\ rc1[d].state = "active" => Whole(bytes[d], rc1[d].key, rc1[d].version)
                      /\ cl1[d].ready = "yes" => /\ rc1[d].state = "active"
                                                 /\ rc1[d].key = cl1[d].key
                                                 /\ Whole(bytes[d], cl1[d].key, ident[cl1[d].key])
                      /\ cl1[d].ready = "no" /\ cl1[d].key # Free => rc1[d].state # "active"
    BY DEF Records
  <2>1. CASE d = to
    <3>1. Whole(bytes[to], k, ident[k])
      BY <1>1, <1>2 DEF Records
    <3>2. QED
      BY <1>8, <1>9, <1>11, <2>1, <3>1
  <2>2. CASE d = from
    BY <1>1, <1>2, <1>7, <1>9, <1>11, <2>2 DEF Records
  <2>3. CASE d # to /\ d # from
    <3>1. rc1[d] = rec[d] /\ cl1[d] = cell[d]
      BY <1>9, <1>11, <2>3
    <3>2. QED
      BY <1>1, <3>1 DEF Records
  <2>4. QED
    BY <2>1, <2>2, <2>3
<1>21. Sound(cl1, loc1, rc1, bytes, loads, reads, ident, daemon, NoCell, NoCell)
  BY <1>1, <1>9, <1>10, <1>11, <1>14, <1>15, <1>16, <1>17, <1>18, <1>19, <1>20 DEF Sound
<1>22. /\ \A c \in Cells : cell[c].ready = "yes" /\ c # from => cl1[c] = cell[c]
       /\ cl1[to].key = k /\ cl1[to].ready = "yes"
  BY <1>2, <1>8, <1>9
<1>23. QED
  BY <1>21, <1>22

-------------------------------------------------------------------------------
(* The parts of the invariant that most steps leave alone.                 *)

\* Types of what Sound does not speak of.
OtherTypes ==
  /\ index \in [Keys -> CellsOrNone]
  /\ files \in [Keys -> Versions] /\ ident \in [Keys -> Versions]
  /\ loads \subseteq Load /\ reads \in [Readers -> Read]
  /\ phase_ \in {"idle", "demote_copy", "demote_commit", "promote_copy", "promote_commit"}
  /\ move \in [key : Keys \cup {Free}, victim : Keys \cup {Free}, hbm : Nodes \cup {Nowhere},
               src : Nodes \cup {Nowhere}]
  /\ spare_node_ \in Nodes \cup {Nowhere}
  /\ copy \in [state : {"none", "queued", "copying", "done"}, from : CellsOrNone, to : CellsOrNone]
  /\ daemon \in {"preload", "serving"}

SoundNow ==
  Sound(cell, location_, rec, bytes, loads, reads, ident, daemon, copy.from, copy.to)

\* The parts of the inductive invariant, taken apart and put together.
LEMMA ArenaParts == ArenaSound <=> OtherTypes /\ Migrating /\ FilesGrow /\ SoundNow
<1>1. SoundNow => /\ cell \in [Cells -> Cell] /\ location_ \in [Keys -> Nodes \cup {Nowhere}]
                  /\ rec \in [Cells -> Recs] /\ bytes \in [Cells -> Bytes]
  BY DEF SoundNow, Sound
<1>2. SoundNow => (TypeOK <=> OtherTypes)
  BY <1>1 DEF TypeOK, OtherTypes, Cell, Recs, Bytes, Load, Read
<1>3. QED
  BY <1>2 DEF ArenaSound, SoundNow

LEMMA NextArenaParts == OtherTypes' /\ Migrating' /\ FilesGrow' /\ SoundNow' => ArenaSound'
BY ArenaParts, PTL

\* What Sound says of the tables of the state.
LEMMA Tables ==
  ASSUME SoundNow
  PROVE  /\ cell \in [Cells -> Cell] /\ location_ \in [Keys -> Nodes \cup {Nowhere}]
         /\ rec \in [Cells -> Recs] /\ bytes \in [Cells -> Bytes]
         /\ Placed(cell, location_, copy.to) /\ NoTwins(cell) /\ Located(cell, location_)
         /\ Pins(cell, reads, copy.from)
         /\ LoadsOwn(cell, location_, bytes, loads, ident, daemon)
         /\ ReadsHold(cell, reads) /\ Records(cell, rec, bytes, ident)
BY DEF SoundNow, Sound

\* A step that leaves the relocation and its two slots alone.
LEMMA MigratingKept ==
  ASSUME Migrating, UNCHANGED <<migVars, daemon>>,
         phase_ # "idle" =>
           /\ location_'[Moving] = location_[Moving]
           /\ cell'[copy.from].key = cell[copy.from].key
           /\ cell'[copy.from].ready = cell[copy.from].ready
           /\ cell'[copy.to] = cell[copy.to]
           /\ bytes'[copy.from] = bytes[copy.from] /\ bytes'[copy.to] = bytes[copy.to]
  PROVE  Migrating'
<1>1. /\ phase_' = phase_ /\ copy' = copy /\ move' = move /\ daemon' = daemon
      /\ spare_node_' = spare_node_ /\ Moving' = Moving /\ Demoting' = Demoting
  BY DEF migVars, Moving, Demoting
<1>2. CASE phase_ = "idle"
  BY <1>1, <1>2 DEF Migrating
<1>3. CASE phase_ # "idle"
  <2>1. Relocates(cell, location_, copy.from, copy.to, Moving)
    BY <1>3 DEF Migrating
  <2>2. Relocates(cell', location_', copy.from, copy.to, Moving)
    BY <1>3, <2>1 DEF Relocates
  <2>3. QED
    BY <1>1, <1>3, <2>2 DEF Migrating
<1>4. QED
  BY <1>2, <1>3

\* A step that writes whole bytes of a file, or tears a slot, leaves no slot newer
\* than its file.
LEMMA FilesKept ==
  ASSUME FilesGrow, bytes \in [Cells -> Bytes], files \in [Keys -> Versions],
         UNCHANGED <<files, ident>>, bytes' \in [Cells -> Bytes],
         \A d \in Cells : \/ \E b \in Cells : bytes'[d] = bytes[b]
                          \/ bytes'[d] = Torn
                          \/ \E k \in Keys : bytes'[d] = <<k, files[k]>>
  PROVE  FilesGrow'
<1> SUFFICES ASSUME NEW d \in Cells, bytes'[d] # Torn
             PROVE  bytes'[d][2] <= files[bytes'[d][1]]
  BY DEF FilesGrow
<1>1. CASE \E b \in Cells : bytes'[d] = bytes[b]
  BY <1>1 DEF FilesGrow
<1>2. CASE \E k \in Keys : bytes'[d] = <<k, files[k]>>
  <2>1. PICK k \in Keys : bytes'[d] = <<k, files[k]>>
    BY <1>2
  <2>2. files[k] \in Nat
    BY ArenaAssumption DEF Versions
  <2>3. QED
    BY <2>1, <2>2
<1>3. QED
  BY <1>1, <1>2

\* The relocated expert can be read all the time.
LEMMA MovingReady ==
  ASSUME SoundNow, Migrating, phase_ # "idle"
  PROVE  /\ copy.from \in Cells /\ copy.to \in Cells /\ Moving \in Keys
         /\ location_[Moving] = copy.from[1] /\ location_[Moving] # Nowhere
         /\ cell[copy.from].key = Moving /\ cell[copy.from].ready = "yes"
         /\ cell[copy.to].key = Moving /\ cell[copy.to].ready = "no"
         /\ cell[copy.to].loading = "yes" /\ copy.to[1] # copy.from[1]
         /\ Ready(Moving) /\ daemon = "serving"
<1>1. Relocates(cell, location_, copy.from, copy.to, Moving) /\ daemon = "serving"
  BY DEF Migrating
<1>2. copy.from \in At(cell, location_[Moving], Moving)
  BY <1>1 DEF Relocates, At, CellsOf
<1>3. QED
  BY <1>1, <1>2, CellFacts DEF Relocates, Ready

\* An idle migrator names no slot.
LEMMA IdleCopy ==
  ASSUME Migrating, phase_ = "idle"
  PROVE  copy.from = NoCell /\ copy.to = NoCell /\ copy = NoCopy
BY DEF Migrating, NoCopy

-------------------------------------------------------------------------------
(* Room for an expert.                                                     *)

\* The slot may be given to k: nobody reads it, fills it or moves it.
Vacant(c, k) ==
  /\ c \in Cells /\ ReadersOf(reads, c) = {} /\ c # copy.from /\ c # copy.to
  /\ \A l \in loads : l.cell # c
  /\ copy.to \in Cells => cell[copy.to].key # k
  /\ \/ /\ cell[c].key = k /\ location_[k] = c[1]
        /\ cell[c].ready = "no" /\ cell[c].loading = "no"
     \/ cell[c].key # k /\ location_[k] = Nowhere

\* A free slot is vacant, and a slot without pins that no load has marked.
LEMMA PickedVacant ==
  ASSUME SoundNow, Migrating, loads \subseteq Load, NEW k \in Keys, location_[k] = Nowhere,
         NEW c \in Cells,
         cell[c].key = Free \/ (daemon = "serving" /\ Evictable(cell, c))
  PROVE  Vacant(c, k)
<1>1. /\ Placed(cell, location_, copy.to) /\ Pins(cell, reads, copy.from)
      /\ LoadsOwn(cell, location_, bytes, loads, ident, daemon) /\ ReadsHold(cell, reads)
      /\ Free \notin Keys /\ c # NoCell /\ c[1] # Nowhere
  BY Tables, CellFacts, ArenaAssumption
<1>2. phase_ # "idle" => /\ copy.to \in Cells /\ cell[copy.to].key = Moving
                         /\ cell[copy.to].loading = "yes" /\ Moving \in Keys
                         /\ cell[copy.from].key = Moving /\ location_[Moving] # Nowhere
  BY MovingReady
<1>3. phase_ = "idle" => copy.from = NoCell /\ copy.to = NoCell /\ NoCell \notin Cells
  BY IdleCopy, CellFacts
<1>4. copy.to \in Cells => cell[copy.to].key # k
  BY <1>2, <1>3
<1>5. c # copy.to
  BY <1>1, <1>2, <1>3 DEF Evictable
<1>6. ReadersOf(reads, c) = {} /\ c # copy.from
  <2>1. CASE cell[c].key = Free
    BY <1>1, <1>2, <1>3, <2>1 DEF ReadsHold, ReadersOf
  <2>2. CASE cell[c].inflight = 0
    BY <1>1, <2>2, Unpinned
  <2>3. QED
    BY <2>1, <2>2 DEF Evictable
<1>7. \A l \in loads : l.cell # c
  <2>1. \A l \in loads : l.key \in Keys
    BY DEF Load
  <2>2. QED
    BY <1>1, <2>1 DEF LoadsOwn, Evictable
<1>8. cell[c].key # k
  BY <1>1, <1>5 DEF Placed
<1>9. QED
  BY <1>4, <1>5, <1>6, <1>7, <1>8 DEF Vacant

\* What pick_slot returns: a free slot, or one that may be evicted.
LEMMA PickSlot ==
  ASSUME NEW n, NEW c \in pick_slot(cell, n)
  PROVE  /\ c \in Cells /\ (cell[c].key = Free \/ Evictable(cell, c))
         /\ FreeOf(cell, n) # {} => cell[c].key = Free
BY FreeOfFacts DEF pick_slot, CellsOf

\* reserve_for_fill finds vacant slots only, whether the daemon serves or preloads.
LEMMA RoomVacant ==
  ASSUME SoundNow, Migrating, loads \subseteq Load, NEW k \in Keys, NEW extend_only,
         NEW c \in RoomFor(k, extend_only), ~Ready(k),
         \/ daemon = "serving" /\ ~Loading(k)
         \/ extend_only = TRUE /\ location_[k] = Nowhere
  PROVE  Vacant(c, k)
<1>1. PICK cands \in SUBSET Nodes : c \in reserve_for_fill(k, cands, extend_only)
  BY DEF RoomFor
<1>2. CASE location_[k] = Nowhere
  <2>1. PICK n \in cands : c \in pick_slot(cell, n) /\
                           (extend_only = TRUE => FreeOf(cell, n) # {})
    BY <1>1, <1>2 DEF reserve_for_fill
  <2>2. c \in Cells /\ (cell[c].key = Free \/ (daemon = "serving" /\ Evictable(cell, c)))
    BY <2>1, PickSlot
  <2>3. QED
    BY <1>2, <2>2, PickedVacant
<1>3. CASE location_[k] # Nowhere
  <2>1. c \in Cells /\ c[1] = location_[k] /\ cell[c].key = k
    BY <1>1, <1>3 DEF reserve_for_fill, At, CellsOf
  <2>2. c \in At(cell, location_[k], k) /\ daemon = "serving" /\ ~Loading(k)
    BY <1>3, <2>1 DEF At, CellsOf
  <2>3. cell[c].ready = "no" /\ cell[c].loading = "no"
    <3>1. cell[c].ready # "yes" /\ cell[c].loading # "yes"
      BY <1>3, <2>2 DEF Ready, Loading
    <3>2. cell[c] \in Cell
      BY <2>1, Tables
    <3>3. QED
      BY <3>1, <3>2 DEF Cell, YesNo
  <2>4. k # Moving \/ phase_ = "idle"
    BY MovingReady
  <2>5. /\ copy.to \in Cells => cell[copy.to].key # k
        /\ c # copy.to /\ c # copy.from
    BY <2>1, <2>4, MovingReady, IdleCopy, CellFacts
  <2>6. ReadersOf(reads, c) = {}
    BY <2>1, <2>3, Tables, UnreadyUnread
  <2>7. \A l \in loads : l.cell # c
    BY <2>2, <2>3, Tables DEF LoadsOwn
  <2>8. QED
    BY <2>1, <2>3, <2>5, <2>6, <2>7 DEF Vacant
<1>4. QED
  BY <1>2, <1>3

\* The tables after a vacant slot was taken.
TakenTables(c, k, cl1, rc1, idx1, loc1) ==
  /\ cl1 \in [Cells -> Cell] /\ rc1 \in [Cells -> Recs] /\ idx1 \in [Keys -> CellsOrNone]
  /\ loc1 \in [Keys -> Nodes \cup {Nowhere}]
  /\ cl1[c].key = k /\ cl1[c].ready = "no" /\ cl1[c].loading = "no" /\ cl1[c].inflight = 0
  /\ rc1[c].state # "active"
  /\ \A d \in Cells : d # c => cl1[d] = cell[d] /\ rc1[d] = rec[d]
  /\ loc1[k] = c[1]
  /\ \A j \in Keys : j # k => loc1[j] = IF j = cell[c].key THEN Nowhere ELSE location_[j]

LEMMA TakenFacts ==
  ASSUME SoundNow, OtherTypes, NEW k \in Keys, NEW c, Vacant(c, k)
  PROVE  TakenTables(c, k, Taken(c, k).cells, Taken(c, k).recs, Taken(c, k).idx,
                     Taken(c, k).loc)
<1> DEFINE t == Taken(c, k)
<1>1. /\ cell \in [Cells -> Cell] /\ rec \in [Cells -> Recs] /\ c \in Cells
      /\ location_ \in [Keys -> Nodes \cup {Nowhere}] /\ c[1] \in Nodes
      /\ index \in [Keys -> CellsOrNone] /\ Free \notin Keys
  BY Tables, CellFacts, ArenaAssumption DEF Vacant, OtherTypes
<1>2. CASE cell[c].key = k
  <2>1. t.cells = cell /\ t.recs = rec /\ t.idx = index /\ t.loc = location_
    BY <1>2 DEF Taken
  <2>2. cell[c].ready = "no" /\ cell[c].loading = "no" /\ location_[k] = c[1]
    BY <1>2 DEF Vacant
  <2>3. cell[c].inflight = 0
    BY <1>1, Tables, Unpinned DEF Vacant
  <2>4. rec[c].state # "active"
    BY <1>1, <1>2, <2>2, Tables DEF Records
  <2>5. QED
    BY <1>1, <1>2, <2>1, <2>2, <2>3, <2>4 DEF TakenTables
<1>3. CASE cell[c].key # k
  <2> DEFINE new == [FreeCell EXCEPT !.key = k]
  <2>1. /\ new \in Cell /\ new.key = k /\ new.ready = "no" /\ new.loading = "no"
        /\ new.inflight = 0
    BY DEF Cell, FreeCell, YesNo
  <2>2. t.cells = [cell EXCEPT ![c] = new]
    BY <1>3 DEF Taken, Reserved
  <2> HIDE DEF new
  <2>3. /\ t.cells \in [Cells -> Cell] /\ t.cells[c] = new
        /\ \A d \in Cells : d # c => t.cells[d] = cell[d]
    BY <1>1, <2>1, <2>2
  <2>4. t.recs = on_reuse(rec, c) /\ t.idx = forgotten(c) /\ t.loc = placed(c, k)
    BY <1>3 DEF Taken
  <2>5. /\ t.recs \in [Cells -> Recs] /\ t.recs[c].state # "active"
        /\ \A d \in Cells : d # c => t.recs[d] = rec[d]
    BY <1>1, <2>4 DEF on_reuse, Recs
  <2>6. t.idx \in [Keys -> CellsOrNone]
    BY <1>1, <2>4 DEF forgotten, CellsOrNone
  <2>7. /\ t.loc \in [Keys -> Nodes \cup {Nowhere}] /\ t.loc[k] = c[1]
        /\ \A j \in Keys : j # k => t.loc[j] = IF j = cell[c].key THEN Nowhere ELSE location_[j]
    BY <1>1, <2>4 DEF placed
  <2> HIDE DEF t
  <2>8. QED
    BY <2>1, <2>3, <2>5, <2>6, <2>7 DEF TakenTables, t
<1>4. QED
  BY <1>2, <1>3

\* A step that gives a vacant slot to k and leaves the rest alone.
LEMMA FillStep ==
  ASSUME ArenaSound, NEW k, NEW c,
         Filled(cell, location_, rec, bytes, loads, reads, ident, daemon, copy.from, copy.to,
                c, k, cell', location_', rec', bytes', loads', reads'),
         bytes'[c] \in {bytes[c], Torn, <<k, files[k]>>},
         index' \in [Keys -> CellsOrNone], loads' \subseteq Load,
         reads' \in [Readers -> Read], UNCHANGED <<files, ident, migVars, daemon>>
  PROVE  ArenaSound'
<1>1. OtherTypes /\ Migrating /\ FilesGrow /\ SoundNow
  BY ArenaParts
<1>2. Sound(cell, location_, rec, bytes, loads, reads, ident, daemon, copy.from, copy.to)
  BY <1>1 DEF SoundNow
<1>3. /\ c \in Cells /\ ReadersOf(reads, c) = {} /\ c # copy.from /\ c # copy.to
      /\ \A l \in loads : l.cell # c
      /\ copy.to \in Cells => cell[copy.to].key # k
      /\ (cell[c].key = k /\ location_[k] = c[1]) \/ (cell[c].key # k /\ location_[k] = Nowhere)
      /\ k \in Keys /\ bytes' \in [Cells -> Bytes]
      /\ \A d \in Cells : d # c => cell'[d] = cell[d] /\ bytes'[d] = bytes[d]
      /\ \A j \in Keys : j # k => location_'[j] = IF j = cell[c].key THEN Nowhere
                                                   ELSE location_[j]
  BY <1>1 DEF Filled
<1>4. Sound(cell', location_', rec', bytes', loads', reads', ident, daemon, copy.from, copy.to)
  BY <1>2, Fill
<1>5. SoundNow'
  BY <1>4 DEF SoundNow, migVars
<1>6. OtherTypes'
  BY <1>1 DEF OtherTypes, migVars
<1>7. FilesGrow'
  <2>1. bytes \in [Cells -> Bytes] /\ files \in [Keys -> Versions]
    BY <1>1, Tables DEF OtherTypes
  <2>2. \A d \in Cells : \/ \E b \in Cells : bytes'[d] = bytes[b]
                         \/ bytes'[d] = Torn
                         \/ \E j \in Keys : bytes'[d] = <<j, files[j]>>
    BY <1>3
  <2>3. QED
    BY <1>1, <1>3, <2>1, <2>2, FilesKept
<1>8. Migrating'
  <2>1. phase_ # "idle" => /\ copy.from \in Cells /\ copy.to \in Cells /\ Moving \in Keys
                           /\ cell[copy.to].key = Moving /\ cell[copy.from].key = Moving
                           /\ location_[Moving] = copy.from[1]
    BY <1>1, MovingReady
  <2>2. phase_ # "idle" => location_'[Moving] = location_[Moving]
    <3> SUFFICES ASSUME phase_ # "idle" PROVE location_'[Moving] = location_[Moving]
      OBVIOUS
    <3>1. Moving # k
      BY <1>3, <2>1
    <3>2. cell[c].key # Moving
      BY <1>1, <1>3, <2>1, <3>1, Tables, ArenaAssumption DEF Placed, NoTwins
    <3>3. QED
      BY <1>3, <2>1, <3>1, <3>2
  <2>3. phase_ # "idle" => /\ cell'[copy.from] = cell[copy.from]
                           /\ cell'[copy.to] = cell[copy.to]
                           /\ bytes'[copy.from] = bytes[copy.from]
                           /\ bytes'[copy.to] = bytes[copy.to]
    BY <1>3, <2>1
  <2>4. QED
    BY <1>1, <2>2, <2>3, MigratingKept
<1>9. QED
  BY <1>5, <1>6, <1>7, <1>8, NextArenaParts

\* The pieces of a step that fills a vacant slot.
LEMMA FillFacts ==
  ASSUME ArenaSound, NEW k \in Keys, NEW c, Vacant(c, k)
  PROVE  /\ OtherTypes /\ Migrating /\ SoundNow /\ c \in Cells
         /\ bytes \in [Cells -> Bytes] /\ c # NoCell /\ ReadersOf(reads, c) = {}
         /\ Cardinality(ReadersOf(reads, c)) = 0
         /\ ident[k] \in Versions /\ files[k] \in Versions /\ files[k] >= ident[k]
         /\ <<k, files[k]>> \in Bytes /\ Torn \in Bytes
         /\ Whole(<<k, files[k]>>, k, ident[k])
<1>1. OtherTypes /\ Migrating /\ SoundNow /\ FilesGrow
  BY ArenaParts
<1>2. ident[k] \in Versions /\ files[k] \in Versions /\ files[k] >= ident[k]
  BY <1>1, ArenaAssumption DEF OtherTypes, FilesGrow, Versions
<1>3. <<k, files[k]>> \in Bytes /\ Torn \in Bytes /\ Whole(<<k, files[k]>>, k, ident[k])
  BY <1>2 DEF Bytes, Whole
<1>4. c \in Cells /\ ReadersOf(reads, c) = {} /\ c # NoCell
  BY CellFacts DEF Vacant
<1>5. Cardinality(ReadersOf(reads, c)) = 0
  BY <1>4, FS_EmptySet
<1>6. QED
  BY <1>1, <1>2, <1>3, <1>4, <1>5, Tables

\* mark_loading and submit, or the submit of preload.
LEMMA SubmitSound ==
  ASSUME ArenaSound, NEW k \in Keys, NEW c, Vacant(c, k),
         LET t == Taken(c, k) IN
         /\ \/ cell' = [t.cells EXCEPT ![c].loading = "yes"] /\ rec' = on_load_start(t.recs, c, k)
            \/ cell' = t.cells /\ rec' = t.recs /\ daemon = "preload"
         /\ index' = t.idx /\ location_' = t.loc,
         loads' = loads \cup {[key |-> k, cell |-> c, state |-> "queued"]},
         UNCHANGED <<bytes, reads>>, UNCHANGED <<files, ident, migVars, daemon>>
  PROVE  ArenaSound'
<1> DEFINE t == Taken(c, k)
           new == [key |-> k, cell |-> c, state |-> "queued"]
<1>1. /\ OtherTypes /\ Migrating /\ SoundNow /\ c \in Cells
      /\ bytes \in [Cells -> Bytes] /\ c # NoCell /\ ReadersOf(reads, c) = {}
      /\ Cardinality(ReadersOf(reads, c)) = 0 /\ ident[k] \in Versions
  BY FillFacts
<1>2. TakenTables(c, k, t.cells, t.recs, t.idx, t.loc)
  BY <1>1, TakenFacts
<1>3. /\ \/ cell' = [t.cells EXCEPT ![c].loading = "yes"] /\ rec' = on_load_start(t.recs, c, k)
         \/ cell' = t.cells /\ rec' = t.recs /\ daemon = "preload"
      /\ index' = t.idx /\ location_' = t.loc
  OBVIOUS
<1> HIDE DEF t
<1>4. /\ cell' \in [Cells -> Cell] /\ cell'[c].key = k /\ cell'[c].ready = "no"
      /\ cell'[c].inflight = 0
      /\ daemon = "serving" => cell'[c].loading = "yes"
      /\ \A d \in Cells : d # c => cell'[d] = cell[d]
  BY <1>1, <1>2, <1>3 DEF TakenTables, Cell, YesNo
<1>5. /\ rec' \in [Cells -> Recs] /\ rec'[c].state # "active"
      /\ \A d \in Cells : d # c => rec'[d] = rec[d]
  BY <1>1, <1>2, <1>3 DEF TakenTables, on_load_start, Stamp, Recs
<1>6. /\ index' \in [Keys -> CellsOrNone] /\ location_' \in [Keys -> Nodes \cup {Nowhere}]
      /\ location_'[k] = c[1]
      /\ \A j \in Keys : j # k => location_'[j] = IF j = cell[c].key THEN Nowhere
                                                   ELSE location_[j]
  BY <1>2, <1>3 DEF TakenTables
<1>7. new \in Load /\ loads \subseteq Load /\ reads \in [Readers -> Read]
  BY <1>1 DEF Load, OtherTypes
<1>8. /\ \A l \in loads : l.cell # c
      /\ copy.to \in Cells => cell[copy.to].key # k
      /\ c # copy.from /\ c # copy.to
      /\ (cell[c].key = k /\ location_[k] = c[1]) \/ (cell[c].key # k /\ location_[k] = Nowhere)
  BY DEF Vacant
<1>9. Filled(cell, location_, rec, bytes, loads, reads, ident, daemon, copy.from, copy.to,
             c, k, cell', location_', rec', bytes', loads', reads')
  <2>1. bytes' = bytes /\ reads' = reads /\ \A l \in loads' : l \in loads \/ l = new
    OBVIOUS
  <2>2. /\ \A l \in loads' : \/ l \in loads
                             \/ /\ l = [key |-> k, cell |-> c, state |-> "queued"]
                                /\ cell'[c].ready = "no"
                                /\ daemon = "serving" => cell'[c].loading = "yes"
        /\ \A r \in Readers : \/ reads'[r] = reads[r]
                              \/ /\ reads'[r] = [cell |-> c, key |-> k] /\ reads[r] = NoRead
                                 /\ cell'[c].ready = "yes"
    BY <1>4, <2>1
  <2>3. /\ rec'[c].state = "active" => Whole(bytes'[c], rec'[c].key, rec'[c].version)
        /\ cell'[c].ready = "yes" => /\ rec'[c].state = "active" /\ rec'[c].key = k
                                     /\ Whole(bytes'[c], k, ident[k])
        /\ cell'[c].ready = "no" => rec'[c].state # "active"
    BY <1>4, <1>5
  <2>4. cell'[c].inflight = Cardinality(ReadersOf(reads', c))
    BY <1>1, <1>4, <2>1
  <2> HIDE DEF new
  <2>5. QED
    BY <1>1, <1>4, <1>5, <1>6, <1>7, <1>8, <2>1, <2>2, <2>3, <2>4 DEF Filled
<1>10. loads' \subseteq Load /\ reads' \in [Readers -> Read] /\ bytes'[c] = bytes[c]
  BY <1>7
<1>11. QED
  BY <1>6, <1>9, <1>10, FillStep

\* The caller loads the slot itself, for a copy to a GPU or not.
LEMMA LoadedHereSound ==
  ASSUME ArenaSound, NEW k \in Keys, NEW c, Vacant(c, k), NEW read \in SUBSET Readers,
         read = {} \/ \E r \in Readers : read = {r} /\ reads[r] = NoRead,
         LoadedHere(c, k, read), UNCHANGED <<files, ident, migVars, daemon>>
  PROVE  ArenaSound'
<1> DEFINE t == Taken(c, k)
           copying == [cell |-> c, key |-> k]
<1>1. /\ OtherTypes /\ Migrating /\ SoundNow /\ c \in Cells
      /\ bytes \in [Cells -> Bytes] /\ c # NoCell /\ ReadersOf(reads, c) = {}
      /\ Cardinality(ReadersOf(reads, c)) = 0
      /\ ident[k] \in Versions /\ files[k] \in Versions /\ files[k] >= ident[k]
      /\ <<k, files[k]>> \in Bytes /\ Torn \in Bytes
      /\ Whole(<<k, files[k]>>, k, ident[k])
  BY FillFacts
<1>2. TakenTables(c, k, t.cells, t.recs, t.idx, t.loc)
  BY <1>1, TakenFacts
<1>3. /\ cell' = [t.cells EXCEPT ![c].ready = "yes", ![c].inflight = @ + Cardinality(read)]
      /\ bytes' = [bytes EXCEPT ![c] = <<k, files[k]>>]
      /\ rec' = on_load_ready(t.recs, c, k)
      /\ index' = [t.idx EXCEPT ![k] = c] /\ location_' = t.loc
      /\ reads' = [r \in Readers |-> IF r \in read THEN copying ELSE reads[r]]
      /\ loads' = loads
  BY DEF LoadedHere
<1> HIDE DEF t
<1>4. copying \in Read /\ copying.cell = c /\ copying.key = k /\ copying # NoRead
  BY <1>1 DEF Read, CellsOrNone, NoRead
<1>5. Cardinality(read) \in Nat
  BY FS_EmptySet, FS_Singleton
<1>6. ReadersOf(reads', c) = read
  <2> HIDE DEF copying
  <2>1. \A r \in Readers : r \in ReadersOf(reads', c) <=> r \in read
    BY <1>1, <1>3, <1>4 DEF ReadersOf
  <2>2. ReadersOf(reads', c) \in SUBSET Readers
    BY DEF ReadersOf
  <2>3. QED
    BY <2>1, <2>2
<1>7. /\ cell' \in [Cells -> Cell] /\ cell'[c].key = k /\ cell'[c].ready = "yes"
      /\ cell'[c].inflight = Cardinality(read)
      /\ \A d \in Cells : d # c => cell'[d] = cell[d]
  <2> DEFINE x == [t.cells[c] EXCEPT !.ready = "yes", !.inflight = @ + Cardinality(read)]
  <2>1. /\ t.cells \in [Cells -> Cell] /\ t.cells[c].key = k /\ t.cells[c].inflight = 0
        /\ \A d \in Cells : d # c => t.cells[d] = cell[d]
    BY <1>2 DEF TakenTables
  <2>2. x \in Cell /\ x.key = k /\ x.ready = "yes" /\ x.inflight = Cardinality(read)
    <3> DEFINE y == t.cells[c]
    <3>1. y \in Cell /\ y.key = k /\ y.inflight = 0
      BY <1>1, <2>1
    <3>2. y.inflight + Cardinality(read) = Cardinality(read)
      BY <1>5, <3>1
    <3>3. x = [y EXCEPT !.ready = "yes", !.inflight = @ + Cardinality(read)]
      OBVIOUS
    <3> HIDE DEF x, y
    <3>4. QED
      BY <1>5, <3>1, <3>2, <3>3 DEF Cell, YesNo
  <2>3. cell' = [t.cells EXCEPT ![c] = x]
    BY <1>1, <1>3, <2>1
  <2> HIDE DEF x
  <2>4. QED
    BY <1>1, <2>1, <2>2, <2>3
<1>8. /\ rec' \in [Cells -> Recs] /\ rec'[c].state = "active" /\ rec'[c].key = k
      /\ rec'[c].version = ident[k]
      /\ \A d \in Cells : d # c => rec'[d] = rec[d]
  BY <1>1, <1>2, <1>3 DEF TakenTables, on_load_ready, Stamp, Recs
<1>9. /\ bytes' \in [Cells -> Bytes] /\ bytes'[c] = <<k, files[k]>>
      /\ \A d \in Cells : d # c => bytes'[d] = bytes[d]
  BY <1>1, <1>3
<1>10. /\ index' \in [Keys -> CellsOrNone] /\ location_' \in [Keys -> Nodes \cup {Nowhere}]
       /\ location_'[k] = c[1]
       /\ \A j \in Keys : j # k => location_'[j] = IF j = cell[c].key THEN Nowhere
                                                    ELSE location_[j]
  BY <1>1, <1>2, <1>3 DEF TakenTables, CellsOrNone
<1>11. /\ loads \subseteq Load /\ reads \in [Readers -> Read] /\ reads' \in [Readers -> Read]
       /\ \A r \in Readers : \/ reads'[r] = reads[r]
                             \/ reads'[r] = copying /\ reads[r] = NoRead
  <2>1. loads \subseteq Load /\ reads \in [Readers -> Read]
    BY <1>1 DEF OtherTypes
  <2> HIDE DEF copying
  <2>2. QED
    BY <1>3, <1>4, <2>1
<1>12. /\ \A l \in loads : l.cell # c
       /\ copy.to \in Cells => cell[copy.to].key # k
       /\ c # copy.from /\ c # copy.to
       /\ (cell[c].key = k /\ location_[k] = c[1]) \/ (cell[c].key # k /\ location_[k] = Nowhere)
  BY DEF Vacant
<1>13. Filled(cell, location_, rec, bytes, loads, reads, ident, daemon, copy.from, copy.to,
              c, k, cell', location_', rec', bytes', loads', reads')
  BY <1>1, <1>3, <1>6, <1>7, <1>8, <1>9, <1>10, <1>11, <1>12 DEF Filled
<1>14. loads' \subseteq Load
  BY <1>3, <1>11
<1>15. QED
  BY <1>9, <1>10, <1>11, <1>13, <1>14, FillStep

\* The caller's own load failed: the slot stays with k, torn.
LEMMA LoadFailedSound ==
  ASSUME ArenaSound, NEW k \in Keys, NEW c, Vacant(c, k),
         LoadFailedHere(c, k), UNCHANGED <<files, ident, migVars, daemon>>
  PROVE  ArenaSound'
<1> DEFINE t == Taken(c, k)
<1>1. /\ OtherTypes /\ Migrating /\ SoundNow /\ c \in Cells
      /\ bytes \in [Cells -> Bytes] /\ c # NoCell /\ ReadersOf(reads, c) = {}
      /\ Cardinality(ReadersOf(reads, c)) = 0 /\ Torn \in Bytes
  BY FillFacts
<1>2. TakenTables(c, k, t.cells, t.recs, t.idx, t.loc)
  BY <1>1, TakenFacts
<1>3. /\ cell' = t.cells /\ rec' = t.recs /\ index' = t.idx /\ location_' = t.loc
      /\ bytes' = [bytes EXCEPT ![c] = Torn] /\ loads' = loads /\ reads' = reads
  BY DEF LoadFailedHere
<1> HIDE DEF t
<1>4. /\ bytes' \in [Cells -> Bytes] /\ bytes'[c] = Torn
      /\ \A d \in Cells : d # c => bytes'[d] = bytes[d]
  BY <1>1, <1>3
<1>5. loads \subseteq Load /\ reads \in [Readers -> Read]
  BY <1>1 DEF OtherTypes
<1>6. /\ \A l \in loads : l.cell # c
      /\ copy.to \in Cells => cell[copy.to].key # k
      /\ c # copy.from /\ c # copy.to
      /\ (cell[c].key = k /\ location_[k] = c[1]) \/ (cell[c].key # k /\ location_[k] = Nowhere)
  BY DEF Vacant
<1>7. Filled(cell, location_, rec, bytes, loads, reads, ident, daemon, copy.from, copy.to,
             c, k, cell', location_', rec', bytes', loads', reads')
  BY <1>1, <1>2, <1>3, <1>4, <1>5, <1>6 DEF Filled, TakenTables
<1>8. index' \in [Keys -> CellsOrNone] /\ loads' \subseteq Load /\ reads' \in [Readers -> Read]
  BY <1>2, <1>3, <1>5 DEF TakenTables
<1>9. QED
  BY <1>4, <1>7, <1>8, FillStep
-------------------------------------------------------------------------------
(* Copies to a GPU.                                                        *)

\* Where the experts are does not depend on pins and marks.
LEMMA KeysKept ==
  ASSUME NEW cl, NEW loc, NEW to, NEW cl1, \A d \in Cells : cl1[d].key = cl[d].key,
         Placed(cl, loc, to), NoTwins(cl), Located(cl, loc)
  PROVE  Placed(cl1, loc, to) /\ NoTwins(cl1) /\ Located(cl1, loc)
<1>1. Placed(cl1, loc, to)
  BY DEF Placed
<1>2. NoTwins(cl1)
  BY DEF NoTwins
<1>3. Located(cl1, loc)
  BY DEF Located
<1>4. QED
  BY <1>1, <1>2, <1>3

\* The slot that Ready speaks of is the one the expert has on its node.
LEMMA ReadySlot ==
  ASSUME SoundNow, NEW k \in Keys, Ready(k), NEW c \in At(cell, location_[k], k)
  PROVE  /\ c \in Cells /\ c[1] = location_[k] /\ cell[c].key = k /\ cell[c].ready = "yes"
         /\ Source(location_, cell, k) = c
<1>1. PICK d \in At(cell, location_[k], k) : cell[d].ready = "yes"
  BY DEF Ready
<1>2. NoTwins(cell) /\ k # Free
  BY Tables, ArenaAssumption
<1>3. /\ c \in Cells /\ c[1] = location_[k] /\ cell[c].key = k
      /\ d \in Cells /\ d[1] = location_[k] /\ cell[d].key = k
  BY DEF At, CellsOf
<1>4. c = d
  BY <1>2, <1>3 DEF NoTwins
<1>5. QED
  BY <1>1, <1>2, <1>3, <1>4, SourceIs

\* A copy starts from the slot of a ready expert.
LEMMA PinSound ==
  ASSUME ArenaSound, NEW r \in Readers, NEW k \in Keys, reads[r] = NoRead, Ready(k),
         NEW c \in At(cell, location_[k], k), Pinned(r, k, c, "yes"),
         UNCHANGED <<location_, rec, index, bytes, loads>>,
         UNCHANGED <<files, ident, migVars, daemon>>
  PROVE  ArenaSound'
<1> DEFINE pinned == [key |-> k, ready |-> "yes", loading |-> "no",
                      inflight |-> cell[c].inflight + 1]
           copying == [cell |-> c, key |-> k]
<1>1. OtherTypes /\ Migrating /\ FilesGrow /\ SoundNow
  BY ArenaParts
<1>2. c \in Cells /\ cell[c].key = k /\ cell[c].ready = "yes" /\ c # NoCell
  BY <1>1, ReadySlot, CellFacts
<1>3. /\ cell \in [Cells -> Cell] /\ location_ \in [Keys -> Nodes \cup {Nowhere}]
      /\ rec \in [Cells -> Recs] /\ bytes \in [Cells -> Bytes]
      /\ Placed(cell, location_, copy.to) /\ NoTwins(cell) /\ Located(cell, location_)
      /\ Pins(cell, reads, copy.from)
      /\ LoadsOwn(cell, location_, bytes, loads, ident, daemon)
      /\ ReadsHold(cell, reads) /\ Records(cell, rec, bytes, ident)
      /\ loads \subseteq Load /\ reads \in [Readers -> Read]
  BY <1>1, Tables DEF OtherTypes
<1>4. cell' = [cell EXCEPT ![c] = pinned] /\ reads' = [reads EXCEPT ![r] = copying]
  BY DEF Pinned
<1>5. cell[c].inflight \in Nat
  BY <1>2, <1>3 DEF Cell
<1>6. /\ pinned \in Cell /\ pinned.key = k /\ pinned.ready = "yes"
      /\ pinned.inflight = cell[c].inflight + 1
  BY <1>5 DEF Cell, YesNo
<1>7. copying \in Read /\ copying.cell = c /\ copying.key = k /\ copying # NoRead
  BY <1>2 DEF Read, CellsOrNone, NoRead
<1> HIDE DEF pinned, copying
<1>8. /\ cell' \in [Cells -> Cell] /\ cell'[c] = pinned /\ reads' \in [Readers -> Read]
      /\ reads'[r] = copying
      /\ \A d \in Cells : d # c => cell'[d] = cell[d]
      /\ \A q \in Readers : q # r => reads'[q] = reads[q]
  BY <1>2, <1>3, <1>4, <1>6, <1>7
<1>9. \A d \in Cells : cell'[d].key = cell[d].key /\ cell'[d].ready = cell[d].ready
  BY <1>2, <1>6, <1>8
<1>10. Placed(cell', location_, copy.to) /\ NoTwins(cell') /\ Located(cell', location_)
  BY <1>3, <1>9, KeysKept
<1>11. Pins(cell', reads', copy.from)
  <2> SUFFICES ASSUME NEW d \in Cells
               PROVE  cell'[d].inflight = Cardinality(ReadersOf(reads', d)) +
                                          (IF copy.from = d THEN 1 ELSE 0)
    BY DEF Pins
  <2>1. /\ cell[d].inflight = Cardinality(ReadersOf(reads, d)) +
                              (IF copy.from = d THEN 1 ELSE 0)
        /\ Cardinality(ReadersOf(reads, d)) \in Nat /\ IsFiniteSet(ReadersOf(reads, d))
    BY <1>3, ReadersFinite DEF Pins
  <2>2. CASE d = c
    <3>1. ReadersOf(reads', c) = ReadersOf(reads, c) \cup {r} /\ r \notin ReadersOf(reads, c)
      BY <1>7, <1>8 DEF ReadersOf
    <3>2. Cardinality(ReadersOf(reads', c)) = Cardinality(ReadersOf(reads, c)) + 1
      BY <2>1, <2>2, <3>1, FS_AddElement
    <3>3. QED
      BY <1>6, <1>8, <2>1, <2>2, <3>2
  <2>3. CASE d # c
    <3>1. ReadersOf(reads', d) = ReadersOf(reads, d)
      BY <1>7, <1>8, <2>3 DEF ReadersOf
    <3>2. QED
      BY <1>8, <2>1, <2>3, <3>1
  <2>4. QED
    BY <2>2, <2>3
<1>12. LoadsOwn(cell', location_, bytes, loads, ident, daemon)
  <2>1. \A l \in loads : l.cell \in Cells /\ l.cell # c
    BY <1>2, <1>3 DEF LoadsOwn, Load
  <2>2. \A l \in loads : cell'[l.cell] = cell[l.cell]
    BY <1>8, <2>1
  <2>3. QED
    BY <1>3, <2>2 DEF LoadsOwn
<1>13. ReadsHold(cell', reads')
  BY <1>2, <1>3, <1>7, <1>8, <1>9 DEF ReadsHold
<1>14. Records(cell', rec, bytes, ident)
  BY <1>3, <1>9 DEF Records
<1>15. SoundNow'
  BY <1>3, <1>8, <1>10, <1>11, <1>12, <1>13, <1>14 DEF SoundNow, Sound, migVars
<1>16. Migrating'
  <2>1. phase_ # "idle" => copy.from \in Cells /\ copy.to \in Cells /\ copy.to # c
    BY <1>1, <1>2, MovingReady
  <2>2. QED
    BY <1>1, <1>8, <1>9, <2>1, MigratingKept
<1>17. OtherTypes' /\ FilesGrow'
  BY <1>1, <1>8 DEF OtherTypes, FilesGrow, migVars
<1>18. QED
  BY <1>15, <1>16, <1>17, NextArenaParts

\* A free slot still has the bytes of k, and its record says so: it is adopted.
LEMMA AdoptSound ==
  ASSUME ArenaSound, NEW r \in Readers, NEW k \in Keys, reads[r] = NoRead, Adoptable(k),
         NEW c, c = index[k], Pinned(r, k, c, "yes"),
         location_' = [location_ EXCEPT ![k] = c[1]],
         UNCHANGED <<rec, index, bytes, loads>>, UNCHANGED <<files, ident, migVars, daemon>>
  PROVE  ArenaSound'
<1> DEFINE pinned == [key |-> k, ready |-> "yes", loading |-> "no",
                      inflight |-> cell[c].inflight + 1]
           copying == [cell |-> c, key |-> k]
<1>1. OtherTypes /\ Migrating /\ FilesGrow /\ SoundNow
  BY ArenaParts
<1>2. /\ c \in Cells /\ cell[c].key = Free /\ location_[k] = Nowhere /\ c[1] \in Nodes
      /\ rec[c].state = "active" /\ rec[c].key = k /\ rec[c].version = ident[k]
  BY <1>1, CellFacts DEF Adoptable, identity_matches, OtherTypes, CellsOrNone
<1>3. /\ cell \in [Cells -> Cell] /\ location_ \in [Keys -> Nodes \cup {Nowhere}]
      /\ rec \in [Cells -> Recs] /\ bytes \in [Cells -> Bytes]
      /\ loads \subseteq Load /\ reads \in [Readers -> Read] /\ index \in [Keys -> CellsOrNone]
      /\ Whole(bytes[c], k, ident[k])
  BY <1>1, <1>2, Tables DEF OtherTypes, Records
<1>4. Vacant(c, k)
  BY <1>1, <1>2, <1>3, PickedVacant
<1>5. /\ ReadersOf(reads, c) = {} /\ c # copy.from /\ c # copy.to
      /\ \A l \in loads : l.cell # c
      /\ copy.to \in Cells => cell[copy.to].key # k
      /\ cell[c].key # k
  BY <1>2, <1>4, ArenaAssumption DEF Vacant
<1>6. cell[c].inflight = 0
  BY <1>1, <1>2, <1>5, Tables, Unpinned
<1>7. cell' = [cell EXCEPT ![c] = pinned] /\ reads' = [reads EXCEPT ![r] = copying]
  BY DEF Pinned
<1>8. pinned \in Cell /\ pinned.key = k /\ pinned.ready = "yes" /\ pinned.inflight = 1
  BY <1>6 DEF Cell, YesNo
<1>9. copying \in Read /\ copying.cell = c /\ copying.key = k /\ copying # NoRead
  BY <1>2, CellFacts DEF Read, CellsOrNone, NoRead
<1> HIDE DEF pinned, copying
<1>10. /\ cell' \in [Cells -> Cell] /\ cell'[c] = pinned /\ reads' \in [Readers -> Read]
       /\ reads'[r] = copying
       /\ \A d \in Cells : d # c => cell'[d] = cell[d]
       /\ \A q \in Readers : q # r => reads'[q] = reads[q]
  BY <1>2, <1>3, <1>7, <1>8, <1>9
<1>11. ReadersOf(reads', c) = {r}
  BY <1>5, <1>9, <1>10 DEF ReadersOf
<1>12. cell'[c].inflight = Cardinality(ReadersOf(reads', c))
  BY <1>8, <1>10, <1>11, FS_Singleton
<1>13. /\ location_' \in [Keys -> Nodes \cup {Nowhere}] /\ location_'[k] = c[1]
       /\ \A j \in Keys : j # k => location_'[j] = IF j = cell[c].key THEN Nowhere
                                                    ELSE location_[j]
  BY <1>2, <1>3, ArenaAssumption
<1>14. \A q \in Readers : \/ reads'[q] = reads[q]
                          \/ /\ reads'[q] = [cell |-> c, key |-> k] /\ reads[q] = NoRead
                             /\ cell'[c].ready = "yes"
  BY <1>8, <1>10 DEF copying
<1>15. Filled(cell, location_, rec, bytes, loads, reads, ident, daemon, copy.from, copy.to,
              c, k, cell', location_', rec', bytes', loads', reads')
  BY <1>2, <1>3, <1>5, <1>8, <1>10, <1>12, <1>13, <1>14 DEF Filled
<1>16. QED
  BY <1>3, <1>10, <1>15, FillStep

\* resolve_expert_host_source, every outcome.
LEMMA ResolveSound ==
  ASSUME ArenaSound, NEW r \in Readers, NEW k \in Keys, resolve_expert_host_source(r, k)
  PROVE  ArenaSound'
<1>1. OtherTypes /\ Migrating /\ FilesGrow /\ SoundNow /\ loads \subseteq Load
  BY ArenaParts DEF OtherTypes
<1>2. reads[r] = NoRead /\ daemon = "serving" /\ UNCHANGED <<files, ident, migVars, daemon>>
  BY DEF resolve_expert_host_source
<1>3. CASE /\ Ready(k) /\ \E c \in At(cell, location_[k], k) : Pinned(r, k, c, "yes")
           /\ UNCHANGED <<location_, rec, index, bytes, loads>>
  BY <1>2, <1>3, PinSound
<1>4. CASE /\ Adoptable(k) /\ Pinned(r, k, index[k], "yes")
           /\ location_' = [location_ EXCEPT ![k] = index[k][1]]
           /\ UNCHANGED <<rec, index, bytes, loads>>
  BY <1>2, <1>4, AdoptSound
<1>5. CASE /\ ~Ready(k) /\ ~Loading(k)
           /\ \E c \in RoomFor(k, FALSE) :
                Submitted(c, k) \/ LoadedHere(c, k, {r}) \/ LoadFailedHere(c, k)
  <2>1. PICK c \in RoomFor(k, FALSE) :
               Submitted(c, k) \/ LoadedHere(c, k, {r}) \/ LoadFailedHere(c, k)
    BY <1>5
  <2>2. Vacant(c, k)
    BY <1>1, <1>2, <1>5, RoomVacant
  <2>3. CASE Submitted(c, k)
    BY <1>2, <2>2, <2>3, SubmitSound DEF Submitted
  <2>4. CASE LoadedHere(c, k, {r})
    <3>1. {r} \in SUBSET Readers /\ \E q \in Readers : {r} = {q} /\ reads[q] = NoRead
      BY <1>2
    <3>2. QED
      BY <1>2, <2>2, <2>4, <3>1, LoadedHereSound
  <2>5. CASE LoadFailedHere(c, k)
    BY <1>2, <2>2, <2>5, LoadFailedSound
  <2>6. QED
    BY <2>1, <2>3, <2>4, <2>5
<1>6. QED
  BY <1>3, <1>4, <1>5 DEF resolve_expert_host_source

\* preload fills free slots only.
LEMMA PreloadSound ==
  ASSUME ArenaSound, NEW k \in Keys, preload(k)
  PROVE  ArenaSound'
<1>1. OtherTypes /\ Migrating /\ FilesGrow /\ SoundNow /\ loads \subseteq Load
  BY ArenaParts DEF OtherTypes
<1>2. /\ daemon = "preload" /\ ~Ready(k) /\ location_[k] = Nowhere
      /\ UNCHANGED <<files, ident, migVars, daemon>>
  BY DEF preload
<1>3. PICK c \in RoomFor(k, TRUE) :
       \/ LET t == Taken(c, k) IN
          /\ cell' = t.cells /\ rec' = t.recs /\ index' = t.idx /\ location_' = t.loc
          /\ loads' = loads \cup {[key |-> k, cell |-> c, state |-> "queued"]}
          /\ UNCHANGED <<bytes, reads>>
       \/ LoadedHere(c, k, {})
       \/ LoadFailedHere(c, k)
  BY DEF preload
<1>4. Vacant(c, k)
  BY <1>1, <1>2, RoomVacant
<1>5. CASE LET t == Taken(c, k) IN
           /\ cell' = t.cells /\ rec' = t.recs /\ index' = t.idx /\ location_' = t.loc
           /\ loads' = loads \cup {[key |-> k, cell |-> c, state |-> "queued"]}
           /\ UNCHANGED <<bytes, reads>>
  BY <1>2, <1>4, <1>5, SubmitSound
<1>6. CASE LoadedHere(c, k, {})
  BY <1>2, <1>4, <1>6, LoadedHereSound
<1>7. CASE LoadFailedHere(c, k)
  BY <1>2, <1>4, <1>7, LoadFailedSound
<1>8. QED
  BY <1>3, <1>5, <1>6, <1>7

\* A copy to a GPU ends: the pin it released was its own.
LEMMA CopyOverSound ==
  ASSUME ArenaSound, NEW r \in Readers, copy_over(r)
  PROVE  ArenaSound'
<1> DEFINE c == reads[r].cell
           unpinned == [cell[c] EXCEPT !.inflight = @ - 1]
<1>1. OtherTypes /\ Migrating /\ FilesGrow /\ SoundNow
  BY ArenaParts
<1>2. /\ cell \in [Cells -> Cell] /\ location_ \in [Keys -> Nodes \cup {Nowhere}]
      /\ rec \in [Cells -> Recs] /\ bytes \in [Cells -> Bytes]
      /\ Placed(cell, location_, copy.to) /\ NoTwins(cell) /\ Located(cell, location_)
      /\ Pins(cell, reads, copy.from)
      /\ LoadsOwn(cell, location_, bytes, loads, ident, daemon)
      /\ ReadsHold(cell, reads) /\ Records(cell, rec, bytes, ident)
      /\ loads \subseteq Load /\ reads \in [Readers -> Read]
  BY <1>1, Tables DEF OtherTypes
<1>3. /\ reads[r] # NoRead /\ reads' = [reads EXCEPT ![r] = NoRead]
      /\ cell' = [d \in Cells |-> IF d \in At(cell, c[1], reads[r].key) /\ cell[d].inflight > 0
                                  THEN [cell[d] EXCEPT !.inflight = @ - 1] ELSE cell[d]]
      /\ UNCHANGED <<location_, index, storeVars, files, ident, loads, migVars, daemon>>
  BY DEF copy_over
<1>4. /\ c \in Cells /\ reads[r].key \in Keys /\ cell[c].key = reads[r].key
      /\ cell[c].ready = "yes" /\ cell[c] \in Cell /\ reads[r].key # Free
  BY <1>2, <1>3, ArenaAssumption DEF ReadsHold
<1>5. At(cell, c[1], reads[r].key) = {c}
  <2> HIDE DEF c
  <2>1. \A d \in Cells : d \in At(cell, c[1], reads[r].key) <=> d = c
    BY <1>2, <1>4 DEF At, CellsOf, NoTwins
  <2>2. At(cell, c[1], reads[r].key) \in SUBSET Cells
    BY DEF At, CellsOf
  <2>3. QED
    BY <1>4, <2>1, <2>2
<1>6. /\ cell[c].inflight = Cardinality(ReadersOf(reads, c)) + (IF copy.from = c THEN 1 ELSE 0)
      /\ Cardinality(ReadersOf(reads, c)) \in Nat /\ IsFiniteSet(ReadersOf(reads, c))
  BY <1>2, <1>4, ReadersFinite DEF Pins
<1>7. r \in ReadersOf(reads, c)
  BY <1>3 DEF ReadersOf
<1>8. Cardinality(ReadersOf(reads, c) \ {r}) = Cardinality(ReadersOf(reads, c)) - 1
  BY <1>6, <1>7, FS_RemoveElement
<1>9. Cardinality(ReadersOf(reads, c)) # 0
  BY <1>6, <1>7, FS_EmptySet
<1>10. cell[c].inflight \in Nat /\ cell[c].inflight > 0
  BY <1>6, <1>9
<1>11. /\ unpinned \in Cell /\ unpinned.key = cell[c].key /\ unpinned.ready = cell[c].ready
       /\ unpinned.inflight = cell[c].inflight - 1
  BY <1>4, <1>10 DEF Cell
<1>12. /\ cell'[c] = unpinned /\ \A d \in Cells : d # c => cell'[d] = cell[d]
  BY <1>3, <1>4, <1>5, <1>10
<1> HIDE DEF unpinned, c
<1>13. cell' \in [Cells -> Cell]
  <2>1. cell' = [d \in Cells |-> cell'[d]]
    BY <1>3
  <2>2. \A d \in Cells : cell'[d] \in Cell
    BY <1>2, <1>4, <1>11, <1>12
  <2>3. QED
    BY <2>1, <2>2
<1>14. NoRead \in Read /\ reads' \in [Readers -> Read] /\ reads'[r] = NoRead
       /\ \A q \in Readers : q # r => reads'[q] = reads[q]
  BY <1>2, <1>3 DEF NoRead, Read, CellsOrNone
<1>15. \A d \in Cells : cell'[d].key = cell[d].key /\ cell'[d].ready = cell[d].ready
  BY <1>11, <1>12
<1>16. Placed(cell', location_, copy.to) /\ NoTwins(cell') /\ Located(cell', location_)
  BY <1>2, <1>15, KeysKept
<1>17. Pins(cell', reads', copy.from)
  <2> SUFFICES ASSUME NEW d \in Cells
               PROVE  cell'[d].inflight = Cardinality(ReadersOf(reads', d)) +
                                          (IF copy.from = d THEN 1 ELSE 0)
    BY DEF Pins
  <2>1. CASE d = c
    <3>1. ReadersOf(reads', c) = ReadersOf(reads, c) \ {r}
      BY <1>14 DEF ReadersOf
    <3>2. QED
      BY <1>6, <1>8, <1>11, <1>12, <2>1, <3>1
  <2>2. CASE d # c
    <3>1. ReadersOf(reads', d) = ReadersOf(reads, d)
      BY <1>14, <2>2 DEF ReadersOf, c
    <3>2. QED
      BY <1>2, <1>12, <2>2, <3>1 DEF Pins
  <2>3. QED
    BY <2>1, <2>2
<1>18. LoadsOwn(cell', location_, bytes, loads, ident, daemon)
  <2>1. \A l \in loads : l.cell \in Cells /\ l.cell # c
    BY <1>2, <1>4 DEF LoadsOwn, Load
  <2>2. \A l \in loads : cell'[l.cell] = cell[l.cell]
    BY <1>12, <2>1
  <2>3. QED
    BY <1>2, <2>2 DEF LoadsOwn
<1>19. ReadsHold(cell', reads')
  BY <1>2, <1>14, <1>15 DEF ReadsHold
<1>20. Records(cell', rec, bytes, ident)
  BY <1>2, <1>15 DEF Records
<1>21. SoundNow'
  BY <1>2, <1>3, <1>13, <1>16, <1>17, <1>18, <1>19, <1>20 DEF SoundNow, Sound, migVars, storeVars
<1>22. Migrating'
  <2>1. phase_ # "idle" => copy.from \in Cells /\ copy.to \in Cells /\ copy.to # c
    BY <1>1, <1>4, MovingReady
  <2>2. QED
    BY <1>1, <1>3, <1>12, <1>15, <2>1, MigratingKept DEF storeVars
<1>23. OtherTypes' /\ FilesGrow'
  BY <1>1, <1>3, <1>14 DEF OtherTypes, FilesGrow, migVars, storeVars
<1>24. QED
  BY <1>21, <1>22, <1>23, NextArenaParts

-------------------------------------------------------------------------------
(* The loader.                                                             *)

\* The loader's thread writes into the slot of a load, which nobody reads.
LEMMA WorkerSound ==
  ASSUME ArenaSound, NEW l \in loads, worker_main(l)
  PROVE  ArenaSound'
<1> DEFINE c == l.cell
<1>1. OtherTypes /\ Migrating /\ FilesGrow /\ SoundNow
  BY ArenaParts
<1>2. /\ cell \in [Cells -> Cell] /\ location_ \in [Keys -> Nodes \cup {Nowhere}]
      /\ rec \in [Cells -> Recs] /\ bytes \in [Cells -> Bytes]
      /\ Placed(cell, location_, copy.to) /\ NoTwins(cell) /\ Located(cell, location_)
      /\ Pins(cell, reads, copy.from)
      /\ LoadsOwn(cell, location_, bytes, loads, ident, daemon)
      /\ ReadsHold(cell, reads) /\ Records(cell, rec, bytes, ident)
      /\ loads \subseteq Load /\ files \in [Keys -> Versions] /\ ident \in [Keys -> Versions]
  BY <1>1, Tables DEF OtherTypes
<1>3. /\ c \in Cells /\ l.key \in Keys /\ l \in Load /\ cell[c].key = l.key
      /\ cell[c].ready = "no" /\ l.key # Free /\ location_[l.key] = c[1]
      /\ daemon = "serving" => cell[c].loading = "yes"
  BY <1>2, ArenaAssumption DEF LoadsOwn, Load
<1>4. files[l.key] \in Versions /\ files[l.key] >= ident[l.key]
  BY <1>1, <1>2, <1>3, ArenaAssumption DEF FilesGrow, Versions
<1>5. <<l.key, files[l.key]>> \in Bytes /\ Torn \in Bytes
      /\ Whole(<<l.key, files[l.key]>>, l.key, ident[l.key])
  BY <1>3, <1>4 DEF Bytes, Whole
<1>6. PICK state \in {"reading", "ok", "failed"}, b \in {bytes[c], Torn, <<l.key, files[l.key]>>} :
        /\ loads' = (loads \ {l}) \cup {[l EXCEPT !.state = state]}
        /\ bytes' = [bytes EXCEPT ![c] = b]
        /\ state = "ok" => b = <<l.key, files[l.key]>>
  <2>1. bytes = [bytes EXCEPT ![c] = bytes[c]]
    BY <1>2
  <2>2. QED
    BY <2>1 DEF worker_main, Advance
<1>7. UNCHANGED <<cell, location_, index, rec, files, ident, reads, migVars, daemon>>
  BY DEF worker_main
<1> DEFINE m == [l EXCEPT !.state = state]
<1>8. m \in Load /\ m.key = l.key /\ m.cell = c /\ m.state = state
  BY <1>3 DEF Load
<1>9. loads' = (loads \ {l}) \cup {m}
  BY <1>6
<1> HIDE DEF m, c
<1>10. /\ bytes' \in [Cells -> Bytes] /\ bytes'[c] = b
       /\ \A d \in Cells : d # c => bytes'[d] = bytes[d]
  BY <1>2, <1>3, <1>5, <1>6
<1>11. \A x \in loads : x # l => x.cell \in Cells /\ x.cell # c
  BY <1>2, <1>3 DEF LoadsOwn, Load, c
<1>12. LoadsOwn(cell, location_, bytes', loads', ident, daemon)
  <2>1. ASSUME NEW x \in loads'
        PROVE  /\ cell[x.cell].key = x.key /\ cell[x.cell].ready = "no"
               /\ location_[x.key] = x.cell[1]
               /\ daemon = "serving" => cell[x.cell].loading = "yes"
               /\ x.state = "ok" => Whole(bytes'[x.cell], x.key, ident[x.key])
    <3>1. CASE x = m
      BY <1>3, <1>5, <1>6, <1>8, <1>10, <3>1
    <3>2. CASE x \in loads /\ x # l
      <4>1. bytes'[x.cell] = bytes[x.cell]
        BY <1>10, <1>11, <3>2
      <4>2. QED
        BY <1>2, <3>2, <4>1 DEF LoadsOwn
    <3>3. QED
      BY <1>9, <3>1, <3>2
  <2>2. \A x, y \in loads' : x.key = y.key => x = y
    BY <1>2, <1>8, <1>9 DEF LoadsOwn
  <2>3. QED
    BY <2>1, <2>2 DEF LoadsOwn
<1>13. Records(cell, rec, bytes', ident)
  <2> SUFFICES ASSUME NEW d \in Cells
               PROVE  /\ rec[d].state = "active" => Whole(bytes'[d], rec[d].key, rec[d].version)
                      /\ cell[d].ready = "yes" => /\ rec[d].state = "active"
                                                  /\ rec[d].key = cell[d].key
                                                  /\ Whole(bytes'[d], cell[d].key, ident[cell[d].key])
                      /\ cell[d].ready = "no" /\ cell[d].key # Free => rec[d].state # "active"
    BY DEF Records
  <2>1. CASE d = c
    BY <1>2, <1>3, <2>1 DEF Records
  <2>2. CASE d # c
    <3>1. bytes'[d] = bytes[d]
      BY <1>10, <2>2
    <3>2. QED
      BY <1>2, <3>1 DEF Records
  <2>3. QED
    BY <2>1, <2>2
<1>14. SoundNow'
  BY <1>2, <1>7, <1>10, <1>12, <1>13 DEF SoundNow, Sound, migVars
<1>15. Migrating'
  <2>1. phase_ # "idle" => /\ copy.from \in Cells /\ copy.to \in Cells /\ copy.to # c
                           /\ copy.from # c
    <3> SUFFICES ASSUME phase_ # "idle"
                 PROVE  copy.from \in Cells /\ copy.to \in Cells /\ copy.to # c /\ copy.from # c
      OBVIOUS
    <3>1. /\ copy.from \in Cells /\ copy.to \in Cells /\ copy.to[1] # copy.from[1]
          /\ cell[copy.from].ready = "yes" /\ cell[copy.from].key = Moving
          /\ cell[copy.to].key = Moving /\ location_[Moving] = copy.from[1]
      BY <1>1, MovingReady
    <3>2. QED
      BY <1>3, <3>1
  <2>2. QED
    BY <1>1, <1>7, <1>10, <2>1, MigratingKept
<1>16. OtherTypes'
  BY <1>1, <1>7, <1>8, <1>9 DEF OtherTypes, migVars
<1>17. FilesGrow'
  <2>1. \A d \in Cells : \/ \E e \in Cells : bytes'[d] = bytes[e]
                         \/ bytes'[d] = Torn
                         \/ \E j \in Keys : bytes'[d] = <<j, files[j]>>
    BY <1>3, <1>6, <1>10
  <2>2. QED
    BY <1>1, <1>2, <1>7, <1>10, <2>1, FilesKept
<1>18. QED
  BY <1>14, <1>15, <1>16, <1>17, NextArenaParts

\* The completion of a load finds the slot that the load filled.
LEMMA ProcessSound ==
  ASSUME ArenaSound, NEW l \in loads, process_arena_loads(l)
  PROVE  ArenaSound'
<1>1. OtherTypes /\ Migrating /\ FilesGrow /\ SoundNow
  BY ArenaParts
<1>2. /\ cell \in [Cells -> Cell] /\ location_ \in [Keys -> Nodes \cup {Nowhere}]
      /\ rec \in [Cells -> Recs] /\ bytes \in [Cells -> Bytes]
      /\ Placed(cell, location_, copy.to) /\ NoTwins(cell) /\ Located(cell, location_)
      /\ Pins(cell, reads, copy.from)
      /\ LoadsOwn(cell, location_, bytes, loads, ident, daemon)
      /\ ReadsHold(cell, reads) /\ Records(cell, rec, bytes, ident)
      /\ loads \subseteq Load /\ ident \in [Keys -> Versions] /\ index \in [Keys -> CellsOrNone]
  BY <1>1, Tables DEF OtherTypes
<1>3. PICK c \in At(cell, location_[l.key], l.key) :
        IF l.state = "ok"
        THEN /\ cell' = [cell EXCEPT ![c].ready = "yes", ![c].loading = "no"]
             /\ rec' = on_load_ready(rec, c, l.key)
             /\ index' = [index EXCEPT ![l.key] = c]
        ELSE /\ cell' = [cell EXCEPT ![c].loading = "no"]
             /\ rec' = on_reuse(rec, c) /\ UNCHANGED index
  BY DEF process_arena_loads
<1>4. /\ loads' = loads \ {l}
      /\ UNCHANGED <<location_, bytes, files, ident, reads, migVars, daemon>>
  BY DEF process_arena_loads
<1>5. /\ l.cell \in Cells /\ l.key \in Keys /\ cell[l.cell].key = l.key
      /\ cell[l.cell].ready = "no" /\ l.key # Free /\ location_[l.key] = l.cell[1]
      /\ l.state = "ok" => Whole(bytes[l.cell], l.key, ident[l.key])
  BY <1>2, ArenaAssumption DEF LoadsOwn, Load
<1>6. c = l.cell /\ c \in Cells
  BY <1>2, <1>5 DEF At, CellsOf, NoTwins
<1>7. ident[l.key] \in Versions /\ cell[c] \in Cell /\ rec[c] \in Recs
  BY <1>2, <1>5, <1>6
<1>8. PICK y \in Cell : /\ cell' = [cell EXCEPT ![c] = y]
                        /\ y.key = l.key /\ y.inflight = cell[c].inflight
                        /\ y.ready = IF l.state = "ok" THEN "yes" ELSE "no"
  <2>1. CASE l.state = "ok"
    <3> DEFINE y == [cell[c] EXCEPT !.ready = "yes", !.loading = "no"]
    <3>1. y \in Cell /\ y.key = l.key /\ y.inflight = cell[c].inflight /\ y.ready = "yes"
      BY <1>5, <1>6, <1>7 DEF Cell, YesNo
    <3>2. cell' = [cell EXCEPT ![c] = y]
      BY <1>2, <1>3, <1>6, <2>1
    <3> HIDE DEF y
    <3>3. QED
      BY <2>1, <3>1, <3>2
  <2>2. CASE l.state # "ok"
    <3> DEFINE y == [cell[c] EXCEPT !.loading = "no"]
    <3>1. y \in Cell /\ y.key = l.key /\ y.inflight = cell[c].inflight /\ y.ready = "no"
      BY <1>5, <1>6, <1>7 DEF Cell, YesNo
    <3>2. cell' = [cell EXCEPT ![c] = y]
      BY <1>2, <1>3, <1>6, <2>2
    <3> HIDE DEF y
    <3>3. QED
      BY <2>2, <3>1, <3>2
  <2>3. QED
    BY <2>1, <2>2
<1>9. PICK z \in Recs : /\ rec' = [rec EXCEPT ![c] = z]
                        /\ IF l.state = "ok" THEN /\ z.state = "active" /\ z.key = l.key
                                                  /\ z.version = ident[l.key]
                                             ELSE z.state = "empty"
  <2>1. CASE l.state = "ok"
    <3>1. /\ Stamp("active", l.key) \in Recs /\ Stamp("active", l.key).state = "active"
          /\ Stamp("active", l.key).key = l.key
          /\ Stamp("active", l.key).version = ident[l.key]
      BY <1>5, <1>7 DEF Stamp, Recs
    <3>2. rec' = [rec EXCEPT ![c] = Stamp("active", l.key)]
      BY <1>3, <2>1 DEF on_load_ready
    <3>3. QED
      BY <2>1, <3>1, <3>2
  <2>2. CASE l.state # "ok"
    <3> DEFINE z == [rec[c] EXCEPT !.state = "empty"]
    <3>1. z \in Recs /\ z.state = "empty"
      BY <1>7 DEF Recs
    <3>2. rec' = [rec EXCEPT ![c] = z]
      BY <1>3, <2>2 DEF on_reuse
    <3> HIDE DEF z
    <3>3. QED
      BY <2>2, <3>1, <3>2
  <2>3. QED
    BY <2>1, <2>2
<1>10. /\ cell' \in [Cells -> Cell] /\ cell'[c] = y /\ rec' \in [Cells -> Recs] /\ rec'[c] = z
       /\ \A d \in Cells : d # c => cell'[d] = cell[d] /\ rec'[d] = rec[d]
  BY <1>2, <1>6, <1>8, <1>9
<1>11. \A d \in Cells : cell'[d].key = cell[d].key /\ cell'[d].inflight = cell[d].inflight
  BY <1>5, <1>6, <1>8, <1>10
<1>12. Placed(cell', location_, copy.to) /\ NoTwins(cell') /\ Located(cell', location_)
  BY <1>2, <1>11, KeysKept
<1>13. Pins(cell', reads, copy.from)
  BY <1>2, <1>11 DEF Pins
<1>14. LoadsOwn(cell', location_, bytes, loads', ident, daemon)
  <2>1. \A x \in loads' : x \in loads /\ x.cell \in Cells /\ x.cell # c
    BY <1>2, <1>4, <1>5, <1>6 DEF LoadsOwn, Load
  <2>2. \A x \in loads' : cell'[x.cell] = cell[x.cell]
    BY <1>10, <2>1
  <2>3. QED
    BY <1>2, <2>1, <2>2 DEF LoadsOwn
<1>15. ReadsHold(cell', reads)
  <2>1. ReadersOf(reads, c) = {}
    BY <1>2, <1>5, <1>6, UnreadyUnread
  <2>2. QED
    BY <1>2, <1>10, <2>1 DEF ReadsHold, ReadersOf
<1>16. Records(cell', rec', bytes, ident)
  <2> SUFFICES ASSUME NEW d \in Cells
               PROVE  /\ rec'[d].state = "active" => Whole(bytes[d], rec'[d].key, rec'[d].version)
                      /\ cell'[d].ready = "yes" =>
                           /\ rec'[d].state = "active" /\ rec'[d].key = cell'[d].key
                           /\ Whole(bytes[d], cell'[d].key, ident[cell'[d].key])
                      /\ cell'[d].ready = "no" /\ cell'[d].key # Free => rec'[d].state # "active"
    BY DEF Records
  <2>1. CASE d = c
    BY <1>5, <1>6, <1>8, <1>9, <1>10, <2>1
  <2>2. CASE d # c
    BY <1>2, <1>10, <2>2 DEF Records
  <2>3. QED
    BY <2>1, <2>2
<1>17. SoundNow'
  BY <1>2, <1>4, <1>10, <1>12, <1>13, <1>14, <1>15, <1>16 DEF SoundNow, Sound, migVars
<1>18. Migrating'
  <2>1. phase_ # "idle" => /\ copy.from \in Cells /\ copy.to \in Cells
                           /\ copy.to # c /\ copy.from # c
    BY <1>1, <1>5, <1>6, MovingReady
  <2>2. QED
    BY <1>1, <1>4, <1>10, <2>1, MigratingKept
<1>19. index' \in [Keys -> CellsOrNone]
  BY <1>2, <1>3, <1>6 DEF CellsOrNone
<1>20. OtherTypes' /\ FilesGrow'
  BY <1>1, <1>4, <1>19 DEF OtherTypes, FilesGrow, migVars
<1>21. QED
  BY <1>17, <1>18, <1>20, NextArenaParts

\* No load is under way when the daemon begins to serve.
LEMMA ServeSound ==
  ASSUME ArenaSound, serve
  PROVE  ArenaSound'
<1>1. OtherTypes /\ Migrating /\ FilesGrow /\ SoundNow
  BY ArenaParts
<1>2. /\ daemon = "preload" /\ loads = {} /\ daemon' = "serving"
      /\ UNCHANGED <<cell, location_, index, storeVars, files, ident, loads, reads, migVars>>
  BY DEF serve
<1>3. phase_ = "idle" /\ copy = NoCopy
  BY <1>1, <1>2 DEF Migrating
<1>4. Migrating'
  BY <1>2, <1>3 DEF Migrating, migVars
<1>5. OtherTypes' /\ FilesGrow'
  BY <1>1, <1>2 DEF OtherTypes, FilesGrow, migVars, storeVars
<1>6. LoadsOwn(cell, location_, bytes, loads, ident, daemon')
  BY <1>2 DEF LoadsOwn
<1>7. SoundNow'
  BY <1>1, <1>2, <1>6 DEF SoundNow, Sound, migVars, storeVars
<1>8. QED
  BY <1>4, <1>5, <1>7, NextArenaParts

-------------------------------------------------------------------------------
(* The migrator.                                                           *)

\* The copy thread writes into the target, which nobody reads, and leaves the
\* bytes of the source in it.
LEMMA CopyWorkerSound ==
  ASSUME ArenaSound, copy_worker_main
  PROVE  ArenaSound'
<1>1. OtherTypes /\ Migrating /\ FilesGrow /\ SoundNow
  BY ArenaParts
<1>2. copy.state \in {"queued", "copying"} /\ phase_ # "idle"
  BY <1>1 DEF copy_worker_main, Migrating, NoCopy
<1>3. /\ Relocates(cell, location_, copy.from, copy.to, Moving) /\ daemon = "serving"
      /\ copy.to[1] = (IF Demoting THEN spare_node_ ELSE move.hbm)
      /\ Demoting => move.key \in Keys
      /\ phase_ \notin {"demote_commit", "promote_commit"}
  BY <1>1, <1>2 DEF Migrating
<1>4. /\ copy.from \in Cells /\ copy.to \in Cells /\ copy.from # copy.to
      /\ cell[copy.to].ready = "no" /\ cell[copy.to].key \in Keys /\ cell[copy.to].key # Free
      /\ location_[cell[copy.to].key] # copy.to[1]
  BY <1>3, ArenaAssumption DEF Relocates
<1>5. /\ cell \in [Cells -> Cell] /\ rec \in [Cells -> Recs] /\ bytes \in [Cells -> Bytes]
      /\ location_ \in [Keys -> Nodes \cup {Nowhere}]
      /\ LoadsOwn(cell, location_, bytes, loads, ident, daemon)
      /\ Records(cell, rec, bytes, ident) /\ loads \subseteq Load
      /\ files \in [Keys -> Versions]
  BY <1>1, Tables DEF OtherTypes
<1>6. UNCHANGED <<cell, location_, index, rec, files, ident, loads, reads, phase_, move,
                  spare_node_, daemon>>
  BY DEF copy_worker_main
<1>7. PICK state \in {"copying", "done"}, b \in {Torn, bytes[copy.from]} :
        /\ copy' = [copy EXCEPT !.state = state] /\ bytes' = [bytes EXCEPT ![copy.to] = b]
        /\ state = "done" => b = bytes[copy.from]
  BY DEF copy_worker_main
<1>8. b \in Bytes
  BY <1>4, <1>5 DEF Bytes
<1>9. /\ bytes' \in [Cells -> Bytes] /\ bytes'[copy.to] = b
      /\ \A d \in Cells : d # copy.to => bytes'[d] = bytes[d]
  BY <1>4, <1>5, <1>7, <1>8
<1>10. /\ copy'.from = copy.from /\ copy'.to = copy.to /\ copy'.state = state
       /\ copy' \in [state : {"none", "queued", "copying", "done"}, from : CellsOrNone,
                     to : CellsOrNone]
  BY <1>1, <1>7 DEF OtherTypes
<1>11. OtherTypes'
  BY <1>1, <1>6, <1>10 DEF OtherTypes
<1>12. Moving' = Moving /\ Demoting' = Demoting
  BY <1>6 DEF Moving, Demoting
<1>13. Migrating'
  BY <1>2, <1>3, <1>4, <1>6, <1>7, <1>9, <1>10, <1>12 DEF Migrating
<1>14. FilesGrow'
  <2>1. \A d \in Cells : \/ \E e \in Cells : bytes'[d] = bytes[e]
                         \/ bytes'[d] = Torn
                         \/ \E j \in Keys : bytes'[d] = <<j, files[j]>>
    BY <1>4, <1>9
  <2>2. QED
    BY <1>1, <1>5, <1>6, <1>9, <2>1, FilesKept
<1>15. LoadsOwn(cell, location_, bytes', loads, ident, daemon)
  <2>1. \A l \in loads : l.cell \in Cells /\ l.cell # copy.to
    BY <1>4, <1>5 DEF LoadsOwn, Load
  <2>2. \A l \in loads : bytes'[l.cell] = bytes[l.cell]
    BY <1>9, <2>1
  <2>3. QED
    BY <1>5, <2>2 DEF LoadsOwn
<1>16. Records(cell, rec, bytes', ident)
  <2> SUFFICES ASSUME NEW d \in Cells
               PROVE  /\ rec[d].state = "active" => Whole(bytes'[d], rec[d].key, rec[d].version)
                      /\ cell[d].ready = "yes" => /\ rec[d].state = "active"
                                                  /\ rec[d].key = cell[d].key
                                                  /\ Whole(bytes'[d], cell[d].key, ident[cell[d].key])
                      /\ cell[d].ready = "no" /\ cell[d].key # Free => rec[d].state # "active"
    BY DEF Records
  <2>1. CASE d = copy.to
    BY <1>4, <1>5, <2>1 DEF Records
  <2>2. CASE d # copy.to
    BY <1>5, <1>9, <2>2 DEF Records
  <2>3. QED
    BY <2>1, <2>2
<1>17. SoundNow'
  BY <1>1, <1>6, <1>9, <1>10, <1>15, <1>16 DEF SoundNow, Sound
<1>18. QED
  BY <1>11, <1>13, <1>14, <1>17, NextArenaParts

\* migrate_commit is tried again later.
LEMMA RetrySound ==
  ASSUME ArenaSound, advance_retry
  PROVE  ArenaSound'
<1>1. OtherTypes /\ Migrating /\ FilesGrow /\ SoundNow
  BY ArenaParts
<1>2. /\ phase_' = (IF Demoting THEN "demote_commit" ELSE "promote_commit") /\ CopyIsDone
      /\ UNCHANGED <<cell, location_, index, storeVars, files, ident, loads, reads, move,
                     spare_node_, copy, daemon>>
  BY DEF advance_retry, Demoting
<1>3. phase_ # "idle" /\ copy.state = "done"
  BY <1>1, <1>2 DEF CopyIsDone, Migrating
<1>4. Moving' = Moving /\ Demoting' = Demoting
  BY <1>1, <1>2, <1>3 DEF Moving, Demoting, OtherTypes
<1>5. Migrating'
  BY <1>1, <1>2, <1>3, <1>4 DEF Migrating, storeVars
<1>6. OtherTypes' /\ FilesGrow' /\ SoundNow'
  BY <1>1, <1>2 DEF OtherTypes, FilesGrow, SoundNow, storeVars
<1>7. QED
  BY <1>5, <1>6, NextArenaParts

Moves == [key : Keys \cup {Free}, victim : Keys \cup {Free}, hbm : Nodes \cup {Nowhere},
          src : Nodes \cup {Nowhere}]

\* An expert can be read in the tables cl and loc.
Readable(cl, loc, k) ==
  /\ loc[k] # Nowhere
  /\ \E c \in Cells : c[1] = loc[k] /\ cl[c].key = k /\ cl[c].ready = "yes"

LEMMA ReadyReadable == \A k : Ready(k) <=> Readable(cell, location_, k)
BY DEF Ready, Readable, At, CellsOf

LEMMA ReadyReadableNext == \A k : Ready(k)' <=> Readable(cell', location_', k)
BY DEF Ready, Readable, At, CellsOf

\* A step of the migrator that begins a relocation, from the tables cl, loc and rc
\* it has reached.
LEMMA BegunStep ==
  ASSUME ArenaSound, NEW cl, NEW loc, NEW rc, NEW k \in Keys, NEW n, NEW mv \in Moves,
         NEW phase \in {"demote_copy", "promote_copy"},
         Sound(cl, loc, rc, bytes, loads, reads, ident, daemon, NoCell, NoCell),
         MayBegin(loc, cl, k, n), Begin(loc, cl, rc, k, n, phase, mv), location_' = loc,
         daemon = "serving", UNCHANGED <<bytes, files, ident, loads, reads, daemon>>,
         index' \in [Keys -> CellsOrNone], spare_node_' \in Nodes \cup {Nowhere},
         phase = "demote_copy" => k = mv.victim /\ n = spare_node_' /\ mv.key \in Keys,
         phase = "promote_copy" => k = mv.key /\ n = mv.hbm
  PROVE  /\ ArenaSound'
         /\ \A j \in Keys : Readable(cl, loc, j) => Ready(j)'
<1> DEFINE src == Source(loc, cl, k)
           tgt == FirstOf(FreeOf(cl, n))
<1>1. OtherTypes /\ FilesGrow
  BY ArenaParts
<1>2. /\ cl \in [Cells -> Cell] /\ loc \in [Keys -> Nodes \cup {Nowhere}]
      /\ rc \in [Cells -> Recs] /\ Located(cl, loc) /\ NoTwins(cl)
      /\ ident \in [Keys -> Versions] /\ loads \subseteq Load
  BY <1>1 DEF Sound, OtherTypes
<1>3. /\ cell' = migrate_begin(loc, cl, k, n)
      /\ rec' = on_load_start(on_reuse(rc, tgt), tgt, k)
      /\ copy' = [state |-> "queued", from |-> src, to |-> tgt]
      /\ phase_' = phase /\ move' = mv
  BY DEF Begin
<1>4. Begun(cl, loc, rc, k, n, cell', rec', src, tgt)
  BY <1>2, <1>3, BeginCells
<1> HIDE DEF src, tgt
<1>5. /\ Sound(cell', loc, rec', bytes, loads, reads, ident, daemon, src, tgt)
      /\ Relocates(cell', loc, src, tgt, k) /\ tgt[1] = n
      /\ \A c \in Cells : cl[c].key # Free => cell'[c].key = cl[c].key /\
                                               cell'[c].ready = cl[c].ready
  BY <1>2, <1>4, BeginSound
<1>6. /\ copy'.from = src /\ copy'.to = tgt /\ copy'.state = "queued"
      /\ src \in Cells /\ tgt \in Cells
  BY <1>3, <1>5 DEF Relocates
<1>7. SoundNow'
  BY <1>5, <1>6 DEF SoundNow
<1>8. copy' \in [state : {"none", "queued", "copying", "done"}, from : CellsOrNone,
                 to : CellsOrNone]
  BY <1>3, <1>6 DEF CellsOrNone
<1>9. OtherTypes' /\ FilesGrow'
  BY <1>1, <1>3, <1>8 DEF OtherTypes, FilesGrow, Moves
<1>10. Migrating'
  BY <1>3, <1>5, <1>6 DEF Migrating, Moving, Demoting
<1>11. ASSUME NEW j \in Keys, Readable(cl, loc, j) PROVE Ready(j)'
  BY <1>5, <1>11, ReadyReadableNext, ArenaAssumption DEF Readable
<1>12. QED
  BY <1>7, <1>9, <1>10, <1>11, NextArenaParts

\* start_next for a promotion into a free HBM slot.
LEMMA PromotionSound ==
  ASSUME ArenaSound, NEW k \in Keys, NEW n \in Hbm, start_promotion(k, n)
  PROVE  ArenaSound'
<1> DEFINE mv == [key |-> k, victim |-> Free, hbm |-> n, src |-> location_[k]]
<1>1. OtherTypes /\ Migrating /\ SoundNow
  BY ArenaParts
<1>2. /\ daemon = "serving" /\ phase_ = "idle" /\ MayBegin(location_, cell, k, n)
      /\ Begin(location_, cell, rec, k, n, "promote_copy", mv)
      /\ index' = forgotten(FirstOf(FreeOf(cell, n)))
      /\ UNCHANGED <<location_, bytes, files, ident, loads, reads, spare_node_, daemon>>
  BY DEF start_promotion
<1>3. Sound(cell, location_, rec, bytes, loads, reads, ident, daemon, NoCell, NoCell)
  BY <1>1, <1>2, IdleCopy DEF SoundNow
<1>4. location_[k] \in Nodes \cup {Nowhere}
  BY <1>1, Tables
<1>5. mv \in Moves /\ mv.key = k /\ mv.hbm = n
  BY <1>4 DEF Moves, Nodes
<1>6. index' \in [Keys -> CellsOrNone] /\ spare_node_' \in Nodes \cup {Nowhere}
  BY <1>1, <1>2 DEF forgotten, OtherTypes, CellsOrNone
<1> HIDE DEF mv
<1>7. QED
  BY <1>2, <1>3, <1>5, <1>6, BegunStep

\* start_next for a swap: perhaps an eviction, then the victim goes to the spare.
LEMMA SwapSound ==
  ASSUME ArenaSound, NEW k \in Keys, NEW v \in Keys, start_swap(k, v)
  PROVE  ArenaSound'
<1> DEFINE mv == [key |-> k, victim |-> v, hbm |-> location_[v], src |-> location_[k]]
           gone(cold) == Source(location_, cell, cold)
           cl(cold) == IF cold = Free THEN cell ELSE [cell EXCEPT ![gone(cold)] = FreeCell]
           loc(cold) == IF cold = Free THEN location_ ELSE [location_ EXCEPT ![cold] = Nowhere]
<1>1. OtherTypes /\ Migrating /\ SoundNow
  BY ArenaParts
<1>2. /\ daemon = "serving" /\ phase_ = "idle"
      /\ UNCHANGED <<bytes, files, ident, loads, reads, daemon>>
  BY DEF start_swap
<1>3. PICK spare \in Ddr, cold \in Keys \cup {Free} :
       /\ cold # Free => /\ location_[cold] = spare /\ cell[gone(cold)].inflight = 0
                         /\ cell[gone(cold)].loading = "no"
       /\ spare_node_' = spare /\ location_' = loc(cold)
       /\ MayBegin(loc(cold), cl(cold), v, spare)
       /\ Begin(loc(cold), cl(cold), rec, v, spare, "demote_copy", mv)
       /\ index' = forgotten(FirstOf(FreeOf(cl(cold), spare)))
  BY DEF start_swap
<1>4. Sound(cell, location_, rec, bytes, loads, reads, ident, daemon, NoCell, NoCell)
  BY <1>1, <1>2, IdleCopy DEF SoundNow
<1>5. spare \in Nodes /\ spare # Nowhere
  BY ArenaAssumption DEF Nodes, Nowhere
<1>6. Sound(cl(cold), loc(cold), rec, bytes, loads, reads, ident, daemon, NoCell, NoCell)
  <2>1. CASE cold = Free
    BY <1>4, <2>1
  <2>2. CASE cold # Free
    <3>1. /\ cold \in Keys /\ NoTwins(cell) /\ Located(cell, location_)
          /\ LoadsOwn(cell, location_, bytes, loads, ident, daemon) /\ loads \subseteq Load
      BY <1>1, <2>2, Tables DEF OtherTypes
    <3>2. PICK c \in Cells : c[1] = location_[cold] /\ cell[c].key = cold
      BY <1>3, <1>5, <2>2, <3>1 DEF Located
    <3>3. gone(cold) = c
      BY <2>2, <3>1, <3>2, SourceIs
    <3>4. \A l \in loads : l.cell # c
      BY <1>2, <1>3, <2>2, <3>1, <3>3 DEF LoadsOwn
    <3>5. cell[c].inflight = 0
      BY <1>3, <2>2, <3>3
    <3>6. Sound([cell EXCEPT ![c] = FreeCell], [location_ EXCEPT ![cold] = Nowhere], rec, bytes,
                loads, reads, ident, daemon, NoCell, NoCell)
      BY <1>4, <3>1, <3>2, <3>4, <3>5, Evict
    <3>7. QED
      BY <2>2, <3>3, <3>6
  <2>3. QED
    BY <2>1, <2>2
<1>7. location_[k] \in Nodes \cup {Nowhere} /\ location_[v] \in Nodes \cup {Nowhere}
  BY <1>1, Tables
<1>8. mv \in Moves /\ mv.key = k /\ mv.victim = v
  BY <1>7 DEF Moves
<1>9. index' \in [Keys -> CellsOrNone]
  BY <1>1, <1>3 DEF forgotten, OtherTypes, CellsOrNone
<1> HIDE DEF mv, cl, loc
<1>10. QED
  BY <1>2, <1>3, <1>5, <1>6, <1>8, <1>9, BegunStep

\* What could be read can be read after migrate_commit.
LEMMA CommitReadable ==
  ASSUME ArenaSound, NEW k, k = Moving, phase_ # "idle", CopyIsDone, MayCommit(k),
         NEW cl1, cl1 = committed(k, copy.to),
         NEW loc1, loc1 = [location_ EXCEPT ![k] = copy.to[1]],
         NEW rc1, rc1 = on_load_ready(rec, copy.to, k)
  PROVE  /\ Sound(cl1, loc1, rc1, bytes, loads, reads, ident, daemon, NoCell, NoCell)
         /\ \A j \in Keys : Ready(j) => Readable(cl1, loc1, j)
<1>1. Migrating /\ SoundNow
  BY ArenaParts
<1>2. /\ Sound(cl1, loc1, rc1, bytes, loads, reads, ident, daemon, NoCell, NoCell)
      /\ \A c \in Cells : cell[c].ready = "yes" /\ c # copy.from => cl1[c] = cell[c]
      /\ cl1[copy.to].key = k /\ cl1[copy.to].ready = "yes"
  <2>1. Committed(k, copy.from, copy.to, cl1, loc1, rc1)
    BY DEF Committed
  <2>2. QED
    BY <2>1, CommitSound
<1>3. /\ copy.from \in Cells /\ copy.to \in Cells /\ cell[copy.from].key = k /\ k \in Keys
      /\ copy.to[1] # Nowhere /\ location_ \in [Keys -> Nodes \cup {Nowhere}]
  BY <1>1, MovingReady, CellFacts, Tables
<1>4. /\ loc1[k] = copy.to[1] /\ \A j \in Keys : j # k => loc1[j] = location_[j]
  BY <1>3
<1>5. ASSUME NEW j \in Keys, Ready(j) PROVE Readable(cl1, loc1, j)
  <2>1. CASE j = k
    BY <1>2, <1>3, <1>4, <2>1 DEF Readable
  <2>2. CASE j # k
    <3>1. PICK c \in Cells : c[1] = location_[j] /\ cell[c].key = j /\ cell[c].ready = "yes"
      BY <1>5, ReadyReadable DEF Readable
    <3>2. cl1[c] = cell[c]
      BY <1>2, <1>3, <2>2, <3>1
    <3>3. location_[j] # Nowhere
      BY <1>5 DEF Ready
    <3>4. QED
      BY <1>4, <2>2, <3>1, <3>2, <3>3 DEF Readable
  <2>3. QED
    BY <2>1, <2>2
<1>6. QED
  BY <1>2, <1>5

\* A step that commits the relocation and begins no other.
LEMMA CommittedStep ==
  ASSUME ArenaSound, NEW k, k = Moving, phase_ # "idle", CopyIsDone, MayCommit(k),
         cell' = committed(k, copy.to), location_' = [location_ EXCEPT ![k] = copy.to[1]],
         rec' = on_load_ready(rec, copy.to, k), index' = [index EXCEPT ![k] = copy.to],
         spare_node_' \in Nodes \cup {Nowhere},
         phase_' = "idle", move' = NoMove, copy' = NoCopy,
         UNCHANGED <<bytes, files, ident, loads, reads, daemon>>
  PROVE  ArenaSound' /\ \A j \in Keys : Ready(j) => Ready(j)'
<1>1. OtherTypes /\ Migrating /\ FilesGrow /\ SoundNow
  BY ArenaParts
<1>2. /\ Sound(cell', location_', rec', bytes, loads, reads, ident, daemon, NoCell, NoCell)
      /\ \A j \in Keys : Ready(j) => Readable(cell', location_', j)
  BY CommitReadable
<1>3. copy'.from = NoCell /\ copy'.to = NoCell
  BY DEF NoCopy
<1>4. SoundNow'
  BY <1>2, <1>3 DEF SoundNow
<1>5. Migrating'
  BY DEF Migrating
<1>6. copy.to \in Cells
  BY <1>1, MovingReady
<1>7. OtherTypes' /\ FilesGrow'
  BY <1>1, <1>6 DEF OtherTypes, FilesGrow, NoMove, NoCopy, CellsOrNone
<1>8. QED
  BY <1>2, <1>4, <1>5, <1>7, NextArenaParts, ReadyReadableNext

\* advance, the victim being on the spare now: the second half of the swap begins,
\* unless the plan is stale.
LEMMA DemotedSound ==
  ASSUME ArenaSound, advance_demoted
  PROVE  ArenaSound' /\ \A j \in Keys : Ready(j) => Ready(j)'
<1> DEFINE v   == move.victim
           cl  == committed(v, copy.to)
           loc == [location_ EXCEPT ![v] = copy.to[1]]
           r   == on_load_ready(rec, copy.to, v)
           idx == [index EXCEPT ![v] = copy.to]
<1>1. OtherTypes /\ Migrating /\ FilesGrow /\ SoundNow
  BY ArenaParts
<1>2. /\ Demoting /\ phase_ # "idle" /\ CopyIsDone /\ MayCommit(v) /\ v = Moving
      /\ spare_node_' = Nowhere /\ UNCHANGED <<bytes, files, ident, loads, reads, daemon>>
  BY DEF advance_demoted, Demoting, Moving
<1>3. copy.to[1] = spare_node_ /\ move.key \in Keys /\ daemon = "serving"
  BY <1>1, <1>2 DEF Migrating
<1>4. /\ location_' = loc
      /\ IF MayBegin(loc, cl, move.key, move.hbm)
         THEN /\ Begin(loc, cl, r, move.key, move.hbm, "promote_copy", move)
              /\ index' = [j \in Keys |-> IF idx[j] = FirstOf(FreeOf(cl, move.hbm)) THEN NoCell
                                          ELSE idx[j]]
         ELSE /\ cell' = cl /\ rec' = r /\ index' = idx
              /\ phase_' = "idle" /\ move' = NoMove /\ copy' = NoCopy
  BY <1>3 DEF advance_demoted
<1>5. copy.to \in Cells /\ v \in Keys /\ move \in Moves /\ idx \in [Keys -> CellsOrNone]
  BY <1>1, <1>2, MovingReady DEF OtherTypes, Moves, CellsOrNone
<1> HIDE DEF v
<1>6. CASE MayBegin(loc, cl, move.key, move.hbm)
  <2>1. /\ Sound(cl, loc, r, bytes, loads, reads, ident, daemon, NoCell, NoCell)
        /\ \A j \in Keys : Ready(j) => Readable(cl, loc, j)
    BY <1>2, CommitReadable
  <2>2. index' \in [Keys -> CellsOrNone]
    BY <1>4, <1>5, <1>6 DEF CellsOrNone
  <2> HIDE DEF cl, loc, r, idx
  <2>3. QED
    BY <1>2, <1>3, <1>4, <1>5, <1>6, <2>1, <2>2, BegunStep
<1>7. CASE ~MayBegin(loc, cl, move.key, move.hbm)
  BY <1>2, <1>4, <1>7, CommittedStep
<1>8. QED
  BY <1>6, <1>7

\* advance, the promoted expert being in HBM now.
LEMMA PromotedSound ==
  ASSUME ArenaSound, advance_promoted
  PROVE  ArenaSound' /\ \A j \in Keys : Ready(j) => Ready(j)'
<1>1. OtherTypes /\ Migrating
  BY ArenaParts
<1>2. /\ ~Demoting /\ phase_ # "idle" /\ CopyIsDone /\ MayCommit(move.key) /\ move.key = Moving
  BY DEF advance_promoted, Demoting, Moving
<1>3. copy.to[1] = move.hbm /\ move.src \in Nodes \cup {Nowhere}
  BY <1>1, <1>2 DEF Migrating, OtherTypes
<1>4. QED
  BY <1>2, <1>3, CommittedStep DEF advance_promoted

-------------------------------------------------------------------------------
(* Files are replaced, and the daemon dies and starts again.               *)

\* A newer file makes no slot newer than its file.
LEMMA PrepackSound ==
  ASSUME ArenaSound, NEW k \in Keys, prepack(k)
  PROVE  ArenaSound'
<1>1. OtherTypes /\ Migrating /\ FilesGrow /\ SoundNow
  BY ArenaParts
<1>2. /\ files[k] < MaxVersion /\ files' = [files EXCEPT ![k] = @ + 1]
      /\ UNCHANGED <<cell, location_, index, storeVars, ident, loads, reads, migVars, daemon>>
  BY DEF prepack
<1>3. /\ files \in [Keys -> Versions] /\ ident \in [Keys -> Versions]
      /\ bytes \in [Cells -> Bytes]
  BY <1>1, Tables DEF OtherTypes
<1>4. files' \in [Keys -> Versions] /\ \A j \in Keys : files'[j] >= files[j]
  BY <1>2, <1>3, ArenaAssumption DEF Versions
<1>5. \A v \in Versions : v \in Nat
  BY ArenaAssumption DEF Versions
<1>6. FilesGrow'
  <2>1. \A j \in Keys : ident[j] <= files'[j]
    BY <1>1, <1>3, <1>4, <1>5 DEF FilesGrow
  <2>2. \A c \in Cells : bytes[c] # Torn => bytes[c][2] <= files'[bytes[c][1]]
    <3> SUFFICES ASSUME NEW c \in Cells, bytes[c] # Torn
                 PROVE  bytes[c][2] <= files'[bytes[c][1]]
      OBVIOUS
    <3>1. bytes[c][1] \in Keys /\ bytes[c][2] \in Nat
      BY <1>3, BytesFacts
    <3>2. bytes[c][2] <= files[bytes[c][1]]
      BY <1>1 DEF FilesGrow
    <3>3. files[bytes[c][1]] \in Nat /\ files'[bytes[c][1]] \in Nat
      BY <1>3, <1>4, <1>5, <3>1
    <3>4. QED
      BY <1>4, <3>1, <3>2, <3>3
  <2>3. QED
    BY <1>2, <2>1, <2>2 DEF FilesGrow, storeVars
<1>7. Migrating'
  BY <1>1, <1>2, MigratingKept DEF storeVars
<1>8. OtherTypes' /\ SoundNow'
  BY <1>1, <1>2, <1>4 DEF OtherTypes, SoundNow, storeVars, migVars
<1>9. QED
  BY <1>6, <1>7, <1>8, NextArenaParts

\* A slot that scan_adoptable adopts for an expert is the only one.
LEMMA AdoptedOnce ==
  ASSUME NEW k, NEW c \in Adopted(k)
  PROVE  /\ c \in Cells /\ rec[c].state = "active" /\ rec[c].key = k
         /\ rec[c].version = files[k]
         /\ \A d \in Adopted(k) : d = c
         /\ (CHOOSE d \in Cells : d \in Adopted(k)) = c
<1>1. /\ c \in Cells /\ rec[c].state = "active" /\ rec[c].key = k /\ rec[c].version = files[k]
  BY DEF Adopted, Trusted
<1>2. ASSUME NEW d \in Adopted(k) PROVE d = c
  <2>1. d \in Cells /\ ~Before(d, c) /\ ~Before(c, d)
    BY DEF Adopted, Trusted
  <2>2. /\ c[1] \in Nat /\ c[2] \in Nat /\ c = <<c[1], c[2]>>
        /\ d[1] \in Nat /\ d[2] \in Nat /\ d = <<d[1], d[2]>>
    BY <1>1, <2>1, CellFacts, ArenaAssumption
  <2>3. c[1] = d[1] /\ c[2] = d[2]
    BY <2>1, <2>2 DEF Before
  <2>4. QED
    BY <2>2, <2>3
<1>3. (CHOOSE d \in Cells : d \in Adopted(k)) = c
  <2> DEFINE e == CHOOSE d \in Cells : d \in Adopted(k)
  <2>1. e \in Adopted(k)
    BY <1>1
  <2>2. QED
    BY <1>2, <2>1
<1>4. QED
  BY <1>1, <1>2, <1>3

\* An expert with a record that can be trusted is adopted.
LEMMA TrustedAdopted ==
  ASSUME NEW k, Trusted(k) # {}
  PROVE  Adopted(k) # {}
<1> DEFINE ns == {c[1] : c \in Trusted(k)}
<1>1. \A c \in Trusted(k) : c \in Cells /\ c[1] \in Nat /\ c[2] \in Nat
  BY CellFacts, ArenaAssumption DEF Trusted
<1>2. ns \in SUBSET Nat /\ ns # {}
  BY <1>1
<1>3. PICK n \in ns : \A m \in ns : n <= m
  BY <1>2, NatMin
<1> DEFINE numbers == {c[2] : c \in {d \in Trusted(k) : d[1] = n}}
<1>4. numbers \in SUBSET Nat /\ numbers # {}
  BY <1>1, <1>3
<1>5. PICK i \in numbers : \A j \in numbers : i <= j
  BY <1>4, NatMin
<1>6. PICK c \in Trusted(k) : c[1] = n /\ c[2] = i
  BY <1>5
<1>7. ASSUME NEW d \in Trusted(k) PROVE ~Before(d, c)
  <2>1. c[1] <= d[1]
    BY <1>3, <1>6
  <2>2. d[1] = c[1] => c[2] <= d[2]
    BY <1>5, <1>6
  <2>3. QED
    BY <1>1, <2>1, <2>2 DEF Before
<1>8. QED
  BY <1>7 DEF Adopted

\* What a restart loses leaves no copy, load or relocation.
LEMMA LostFacts ==
  ASSUME ArenaSound, Lost
  PROVE  /\ \A c : ReadersOf(reads', c) = {} /\ Cardinality(ReadersOf(reads', c)) = 0
         /\ copy'.from = NoCell /\ copy'.to = NoCell /\ Migrating'
         /\ ReadsHold(cell', reads')
         /\ LoadsOwn(cell', location_', bytes', loads', ident', daemon')
         /\ index' \in [Keys -> CellsOrNone] => OtherTypes'
         /\ \A k \in Keys : ident'[k] = files[k] /\ files'[k] = files[k] /\ files[k] \in Nat
<1>1. OtherTypes
  BY ArenaParts
<1>2. \A c : ReadersOf(reads', c) = {}
  BY DEF Lost, ReadersOf
<1>3. \A c : Cardinality(ReadersOf(reads', c)) = 0
  BY <1>2, FS_EmptySet
<1>4. copy'.from = NoCell /\ copy'.to = NoCell /\ Migrating'
  BY DEF Lost, Migrating, NoCopy
<1>5. ReadsHold(cell', reads')
  BY DEF Lost, ReadsHold
<1>6. LoadsOwn(cell', location_', bytes', loads', ident', daemon')
  BY DEF Lost, LoadsOwn
<1>7. NoRead \in Read
  BY DEF NoRead, Read, CellsOrNone
<1>8. index' \in [Keys -> CellsOrNone] => OtherTypes'
  BY <1>1, <1>7 DEF Lost, OtherTypes, NoMove, NoCopy, CellsOrNone
<1>9. \A k \in Keys : ident'[k] = files[k] /\ files'[k] = files[k] /\ files[k] \in Nat
  BY <1>1, ArenaAssumption DEF Lost, OtherTypes, Versions
<1>10. QED
  BY <1>2, <1>3, <1>4, <1>5, <1>6, <1>8, <1>9

\* A daemon that starts again on the store of the one that died: the tables it
\* builds from the records are sound, and no expert that could be read is missed
\* unless its file is newer.
LEMMA WarmSound ==
  ASSUME ArenaSound, restart_warm
  PROVE  /\ ArenaSound'
         /\ \A k \in Keys : Ready(k) /\ rec[Source(location_, cell, k)].version = files[k]
                              => Ready(k)'
<1> DEFINE adopted(c) == [FreeCell EXCEPT !.key = rec[c].key, !.ready = "yes"]
           emptied(c) == [rec[c] EXCEPT !.state = "empty"]
           the(k) == CHOOSE c \in Cells : c \in Adopted(k)
<1>1. OtherTypes /\ FilesGrow /\ SoundNow
  BY ArenaParts
<1>2. /\ cell \in [Cells -> Cell] /\ rec \in [Cells -> Recs] /\ bytes \in [Cells -> Bytes]
      /\ Records(cell, rec, bytes, ident)
  BY <1>1, Tables
<1>3. /\ Lost /\ bytes' = bytes
      /\ cell' = [c \in Cells |-> IF \E k \in Keys : c \in Adopted(k) THEN adopted(c)
                                  ELSE FreeCell]
      /\ rec' = [c \in Cells |-> IF \E k \in Keys : c \in Adopted(k) THEN rec[c]
                                 ELSE emptied(c)]
      /\ index' = [k \in Keys |-> IF Adopted(k) = {} THEN NoCell ELSE the(k)]
      /\ location_' = [k \in Keys |-> IF Adopted(k) = {} THEN Nowhere ELSE the(k)[1]]
  BY Zenon DEF restart_warm
<1>4. /\ \A k : \A c \in Adopted(k) : /\ c \in Cells /\ rec[c].state = "active" /\ rec[c].key = k
                                      /\ rec[c].version = files[k] /\ the(k) = c
      /\ \A c \in Cells : c[1] \in Nodes
      /\ Free \notin Keys
  BY AdoptedOnce, CellFacts, ArenaAssumption
<1>5. /\ FreeCell \in Cell /\ FreeCell.key = Free /\ FreeCell.ready = "no"
      /\ FreeCell.inflight = 0
      /\ \A c \in Cells : /\ adopted(c) \in Cell /\ adopted(c).key = rec[c].key
                          /\ adopted(c).ready = "yes" /\ adopted(c).inflight = 0
      /\ \A c \in Cells : emptied(c) \in Recs /\ emptied(c).state = "empty"
  <2>1. /\ FreeCell \in Cell /\ FreeCell.key = Free /\ FreeCell.ready = "no"
        /\ FreeCell.inflight = 0
    BY DEF Cell, FreeCell, YesNo
  <2>2. \A c \in Cells : rec[c] \in Recs /\ rec[c].key \in Keys \cup {Free}
    BY <1>2 DEF Recs
  <2>3. ASSUME NEW c \in Cells
        PROVE  /\ adopted(c) \in Cell /\ adopted(c).key = rec[c].key
               /\ adopted(c).ready = "yes" /\ adopted(c).inflight = 0
    BY <2>2 DEF Cell, FreeCell, YesNo
  <2>4. ASSUME NEW c \in Cells PROVE emptied(c) \in Recs /\ emptied(c).state = "empty"
    BY <2>2 DEF Recs
  <2>5. QED
    BY <2>1, <2>3, <2>4, Zenon
<1> HIDE DEF adopted, emptied, the
<1>6. /\ \A k \in Keys : \A c \in Adopted(k) :
           /\ cell'[c] = adopted(c) /\ rec'[c] = rec[c] /\ location_'[k] = c[1]
      /\ \A c \in Cells : \/ \E k \in Keys : c \in Adopted(k)
                          \/ cell'[c] = FreeCell /\ rec'[c] = emptied(c)
      /\ \A k \in Keys : location_'[k] # Nowhere => Adopted(k) # {}
  BY <1>3, <1>4
<1>7. cell' \in [Cells -> Cell] /\ rec' \in [Cells -> Recs] /\ bytes' \in [Cells -> Bytes]
  BY <1>2, <1>3, <1>5
<1>8. \A k \in Keys : Adopted(k) # {} => the(k) \in Cells /\ the(k)[1] \in Nodes
  BY <1>4
<1>9. /\ location_' \in [Keys -> Nodes \cup {Nowhere}] /\ index' \in [Keys -> CellsOrNone]
  BY <1>3, <1>8 DEF CellsOrNone
<1>10. \A c \in Cells : cell'[c].key # Free => /\ cell'[c].key \in Keys
                                               /\ c \in Adopted(cell'[c].key)
  BY <1>4, <1>5, <1>6
<1>11. Placed(cell', location_', NoCell)
  BY <1>6, <1>10 DEF Placed
<1>12. NoTwins(cell')
  BY <1>4, <1>10 DEF NoTwins
<1>13. Located(cell', location_')
  <2> SUFFICES ASSUME NEW k \in Keys, location_'[k] # Nowhere
               PROVE  \E c \in Cells : c[1] = location_'[k] /\ cell'[c].key = k
    BY DEF Located
  <2>1. PICK c \in Adopted(k) : TRUE
    BY <1>6
  <2>2. QED
    BY <1>4, <1>5, <1>6, <2>1
<1>14. Pins(cell', reads', NoCell)
  <2>1. \A c \in Cells : cell'[c].inflight = 0 /\ c # NoCell
    BY <1>4, <1>5, <1>6, CellFacts
  <2>2. QED
    BY <1>3, <2>1, LostFacts DEF Pins
<1>15. Records(cell', rec', bytes', ident')
  <2> SUFFICES ASSUME NEW c \in Cells
               PROVE  /\ rec'[c].state = "active" => Whole(bytes[c], rec'[c].key, rec'[c].version)
                      /\ cell'[c].ready = "yes" =>
                           /\ rec'[c].state = "active" /\ rec'[c].key = cell'[c].key
                           /\ Whole(bytes[c], cell'[c].key, ident'[cell'[c].key])
                      /\ cell'[c].ready = "no" /\ cell'[c].key # Free => rec'[c].state # "active"
    BY <1>3 DEF Records
  <2>1. CASE \E k \in Keys : c \in Adopted(k)
    <3>1. PICK k \in Keys : c \in Adopted(k)
      BY <2>1
    <3>2. /\ rec[c].state = "active" /\ rec[c].key = k /\ rec[c].version = files[k]
          /\ cell'[c].key = k /\ cell'[c].ready = "yes" /\ rec'[c] = rec[c]
      BY <1>4, <1>5, <1>6, <3>1
    <3>3. Whole(bytes[c], k, files[k]) /\ ident'[k] = files[k]
      BY <1>2, <1>3, <3>2, LostFacts DEF Records
    <3>4. QED
      BY <3>2, <3>3
  <2>2. CASE cell'[c] = FreeCell /\ rec'[c] = emptied(c)
    BY <1>5, <2>2
  <2>3. QED
    BY <1>6, <2>1, <2>2
<1>16. SoundNow'
  BY <1>3, <1>7, <1>9, <1>11, <1>12, <1>13, <1>14, <1>15, LostFacts DEF SoundNow, Sound
<1>17. FilesGrow'
  <2>1. \A k \in Keys : ident'[k] <= files'[k]
    BY <1>3, LostFacts
  <2>2. QED
    BY <1>1, <1>3, <2>1 DEF FilesGrow, Lost
<1>18. ArenaSound'
  BY <1>3, <1>9, <1>16, <1>17, LostFacts, NextArenaParts
<1>19. ASSUME NEW k \in Keys, Ready(k), rec[Source(location_, cell, k)].version = files[k]
       PROVE  Ready(k)'
  <2>1. PICK c \in At(cell, location_[k], k) : cell[c].ready = "yes"
    BY <1>19 DEF Ready
  <2>2. Source(location_, cell, k) = c /\ c \in Cells /\ cell[c].key = k
    BY <1>1, <1>19, ReadySlot
  <2>3. c \in Trusted(k)
    BY <1>2, <1>19, <2>1, <2>2 DEF Records, Trusted
  <2>4. PICK d \in Adopted(k) : TRUE
    BY <2>3, TrustedAdopted
  <2>5. /\ d \in Cells /\ location_'[k] = d[1] /\ d[1] # Nowhere
        /\ cell'[d].key = k /\ cell'[d].ready = "yes"
    BY <1>4, <1>5, <1>6, <2>4, CellFacts
  <2>6. QED
    BY <2>5, ReadyReadableNext DEF Readable
<1>20. QED
  BY <1>18, <1>19

\* Tables with nothing in them are sound.
LEMMA EmptySound ==
  ASSUME NEW ld, ld = {}, NEW rd, rd = [r \in Readers |-> NoRead], NEW id, NEW dm,
         NEW cl, cl = [c \in Cells |-> FreeCell], NEW loc, loc = [k \in Keys |-> Nowhere],
         NEW rc, rc = [c \in Cells |-> EmptyRec], NEW by, by = [c \in Cells |-> Torn]
  PROVE  Sound(cl, loc, rc, by, ld, rd, id, dm, NoCell, NoCell)
<1>1. /\ FreeCell \in Cell /\ FreeCell.key = Free /\ FreeCell.ready = "no"
      /\ FreeCell.inflight = 0 /\ EmptyRec \in Recs /\ EmptyRec.state = "empty"
      /\ Torn \in Bytes
  BY DEF FreeCell, Cell, YesNo, EmptyRec, Recs, Bytes
<1>2. /\ cl \in [Cells -> Cell] /\ loc \in [Keys -> Nodes \cup {Nowhere}]
      /\ rc \in [Cells -> Recs] /\ by \in [Cells -> Bytes]
  BY <1>1
<1>3. Placed(cl, loc, NoCell) /\ NoTwins(cl) /\ Located(cl, loc)
  BY <1>1 DEF Placed, NoTwins, Located
<1>4. Pins(cl, rd, NoCell)
  <2>1. \A c : ReadersOf(rd, c) = {}
    BY DEF ReadersOf
  <2>2. \A c : Cardinality(ReadersOf(rd, c)) = 0
    BY <2>1, FS_EmptySet
  <2>3. QED
    BY <1>1, <2>2, CellFacts DEF Pins
<1>5. LoadsOwn(cl, loc, by, ld, id, dm) /\ ReadsHold(cl, rd)
  BY DEF LoadsOwn, ReadsHold
<1>6. Records(cl, rc, by, id)
  BY <1>1 DEF Records
<1>7. QED
  BY <1>2, <1>3, <1>4, <1>5, <1>6 DEF Sound

\* The store is wiped.
LEMMA ColdSound ==
  ASSUME ArenaSound, restart_cold
  PROVE  ArenaSound'
<1>1. /\ Lost /\ cell' = [c \in Cells |-> FreeCell] /\ location_' = [k \in Keys |-> Nowhere]
      /\ rec' = [c \in Cells |-> EmptyRec] /\ index' = [k \in Keys |-> NoCell]
      /\ bytes' = [c \in Cells |-> Torn]
  BY DEF restart_cold
<1>2. loads' = {} /\ reads' = [r \in Readers |-> NoRead]
  BY <1>1 DEF Lost
<1>3. Sound(cell', location_', rec', bytes', loads', reads', ident', daemon', NoCell, NoCell)
  BY <1>1, <1>2, EmptySound
<1>4. SoundNow'
  BY <1>1, <1>3, LostFacts DEF SoundNow
<1>5. FilesGrow'
  BY <1>1, LostFacts DEF FilesGrow
<1>6. index' \in [Keys -> CellsOrNone]
  BY <1>1 DEF CellsOrNone
<1>7. QED
  BY <1>1, <1>4, <1>5, <1>6, LostFacts, NextArenaParts

\* The arena is built.
LEMMA InitSound == Init => ArenaSound
<1> SUFFICES ASSUME Init PROVE ArenaSound
  OBVIOUS
<1>1. Sound(cell, location_, rec, bytes, loads, reads, ident, daemon, NoCell, NoCell)
  BY EmptySound DEF Init
<1>2. copy.from = NoCell /\ copy.to = NoCell /\ Migrating
  BY DEF Init, NoCopy, Migrating
<1>3. SoundNow
  BY <1>1, <1>2 DEF SoundNow
<1>4. files \in [Keys -> Versions] /\ ident \in [Keys -> Versions]
  BY ArenaAssumption DEF Init, Versions
<1>5. OtherTypes
  BY <1>4 DEF Init, OtherTypes, NoMove, NoCopy, NoRead, Read, CellsOrNone
<1>6. FilesGrow
  BY DEF Init, FilesGrow
<1>7. QED
  BY <1>2, <1>3, <1>5, <1>6, ArenaParts

-------------------------------------------------------------------------------
(* The theorems.                                                           *)

\* Every step of the daemon, the loader, the copies, the migrator, the files and
\* the process keeps the tables sound.
LEMMA NextArenaSound == ArenaSound /\ [Next]_vars => ArenaSound'
<1> SUFFICES ASSUME ArenaSound, [Next]_vars PROVE ArenaSound'
  OBVIOUS
<1>1. CASE \E r \in Readers : copy_over(r) \/ \E k \in Keys : resolve_expert_host_source(r, k)
  BY <1>1, CopyOverSound, ResolveSound
<1>2. CASE \E k \in Keys : preload(k) \/ prepack(k)
  BY <1>2, PreloadSound, PrepackSound
<1>3. CASE serve
  BY <1>3, ServeSound
<1>4. CASE \E l \in loads : worker_main(l) \/ process_arena_loads(l)
  BY <1>4, WorkerSound, ProcessSound
<1>5. CASE Migrate
  BY <1>5, PromotionSound, SwapSound, RetrySound, DemotedSound, PromotedSound DEF Migrate
<1>6. CASE copy_worker_main
  BY <1>6, CopyWorkerSound
<1>7. CASE restart_warm
  BY <1>7, WarmSound
<1>8. CASE restart_cold
  BY <1>8, ColdSound
<1>9. CASE UNCHANGED vars
  <2>1. OtherTypes /\ Migrating /\ FilesGrow /\ SoundNow
    BY ArenaParts
  <2>2. OtherTypes' /\ FilesGrow' /\ SoundNow'
    BY <1>9, <2>1 DEF vars, storeVars, migVars, OtherTypes, FilesGrow, SoundNow
  <2>3. Migrating'
    BY <1>9, <2>1, MigratingKept DEF vars, storeVars, migVars
  <2>4. QED
    BY <2>2, <2>3, NextArenaParts
<1>10. QED
  BY <1>1, <1>2, <1>3, <1>4, <1>5, <1>6, <1>7, <1>8, <1>9 DEF Next

LEMMA ArenaSafety == Spec => []ArenaSound
<1>1. Init => ArenaSound
  BY InitSound
<1>2. ArenaSound /\ [Next]_vars => ArenaSound'
  BY NextArenaSound
<1>3. QED
  BY <1>1, <1>2, PTL DEF Spec

\* The slot tables, the pins and the table of locations agree through loads, copies,
\* migrations and restarts, whatever interleaves with what.
THEOREM ArenaTablesAgree == Spec => []ArenaInv
<1>1. ASSUME ArenaSound PROVE ArenaInv
  <2>1. OtherTypes /\ Migrating /\ SoundNow /\ TypeOK
    BY <1>1, ArenaParts DEF ArenaSound
  <2>2. PinsExact
    <3> SUFFICES ASSUME NEW c \in Cells
                 PROVE  cell[c].inflight =
                          Cardinality({r \in Readers : reads[r] # NoRead /\ reads[r].cell = c})
                            + (IF phase_ # "idle" /\ copy.from = c THEN 1 ELSE 0)
      BY DEF PinsExact
    <3>1. (phase_ # "idle" /\ copy.from = c) <=> copy.from = c
      BY <2>1, IdleCopy, CellFacts
    <3>2. cell[c].inflight = Cardinality(ReadersOf(reads, c)) + (IF copy.from = c THEN 1 ELSE 0)
      BY <2>1, Tables DEF Pins
    <3>3. QED
      BY <3>1, <3>2 DEF ReadersOf
  <2>3. LocationExact
    <3> SUFFICES ASSUME NEW c \in Cells, cell[c].key # Free
                 PROVE  \/ location_[cell[c].key] = c[1] /\ Cardinality(At(cell, c[1], cell[c].key)) = 1
                        \/ phase_ # "idle" /\ c = copy.to /\ cell[c].key = Moving
      BY DEF LocationExact
    <3>1. At(cell, c[1], cell[c].key) = {c}
      <4>1. NoTwins(cell)
        BY <2>1, Tables
      <4>2. QED
        BY <4>1 DEF At, CellsOf, NoTwins
    <3>2. Cardinality(At(cell, c[1], cell[c].key)) = 1
      BY <3>1, FS_Singleton
    <3>3. location_[cell[c].key] = c[1] \/ c = copy.to
      BY <2>1, Tables DEF Placed
    <3>4. c = copy.to => phase_ # "idle" /\ cell[c].key = Moving
      BY <2>1, IdleCopy, CellFacts, MovingReady
    <3>5. QED
      BY <3>2, <3>3, <3>4
  <2>4. LocatedIsThere
    BY <2>1, Tables DEF LocatedIsThere, Located, At, CellsOf
  <2>5. QED
    BY <2>1, <2>2, <2>3, <2>4 DEF ArenaInv, PlacementExact
<1>2. QED
  BY <1>1, ArenaSafety, PTL

\* INV-ARENA-CACHE-ORDER, whenever the daemon dies: a record that the next process
\* would believe describes bytes that are all there.
THEOREM RecordsAreTruthful == Spec => []RecordTruthful
<1>1. ASSUME ArenaSound PROVE RecordTruthful
  <2> SUFFICES ASSUME NEW c \in Cells, rec[c].state = "active",
                      rec[c].version = files[rec[c].key]
               PROVE  bytes[c] = <<rec[c].key, rec[c].version>>
    BY DEF RecordTruthful
  <2>1. OtherTypes /\ FilesGrow /\ SoundNow
    BY <1>1, ArenaParts
  <2>2. /\ bytes[c][1] = rec[c].key /\ bytes[c][2] >= rec[c].version /\ bytes[c] \in Bytes
        /\ rec[c] \in Recs
    BY <2>1, Tables DEF Records, Whole
  <2>3. rec[c].key \in Keys
    BY <2>2, BytesFacts DEF Recs
  <2>4. bytes[c] # Torn /\ bytes[c] = <<bytes[c][1], bytes[c][2]>> /\ bytes[c][2] \in Nat
    BY <2>2, <2>3, BytesFacts
  <2>5. bytes[c][2] <= rec[c].version
    BY <2>1, <2>2, <2>4 DEF FilesGrow
  <2>6. files[rec[c].key] \in Nat
    BY <2>1, <2>3, ArenaAssumption DEF OtherTypes, Versions
  <2>7. bytes[c][2] = rec[c].version
    BY <2>2, <2>4, <2>5, <2>6
  <2>8. QED
    BY <2>2, <2>4, <2>7
<1>2. QED
  BY <1>1, ArenaSafety, PTL

\* A slot that is ready has its expert whole, whoever filled it: the loader, the
\* caller, a migration, or a daemon that died since.
THEOREM ReadySlotsAreWhole == Spec => []ReadyIsWhole
<1>1. ASSUME ArenaSound PROVE ReadyIsWhole
  <2>1. Records(cell, rec, bytes, ident)
    BY <1>1, ArenaParts, Tables
  <2>2. QED
    BY <2>1 DEF ReadyIsWhole, Records, Whole
<1>2. QED
  BY <1>1, ArenaSafety, PTL

\* INV-4.12i: eviction, loads, migrations and adoption leave the slot alone that a
\* copy to a GPU reads from.
THEOREM ReadsStayStable == Spec => []ReadsAreStable
<1>1. ASSUME ArenaSound PROVE ReadsAreStable
  <2>1. Records(cell, rec, bytes, ident) /\ ReadsHold(cell, reads)
    BY <1>1, ArenaParts, Tables
  <2>2. QED
    BY <2>1 DEF ReadsAreStable, Records, ReadsHold, Whole
<1>2. QED
  BY <1>1, ArenaSafety, PTL

\* The loader's thread and the migrator's write into slots that were given to their
\* expert and that nobody reads.
THEOREM WritersHaveTheirSlot == Spec => []WritersOwnTheirSlot
<1>1. ASSUME ArenaSound PROVE WritersOwnTheirSlot
  <2>1. Migrating /\ SoundNow /\ LoadsOwn(cell, location_, bytes, loads, ident, daemon)
    BY <1>1, ArenaParts, Tables
  <2>2. QED
    BY <2>1, MovingReady DEF WritersOwnTheirSlot, LoadsOwn
<1>2. QED
  BY <1>1, ArenaSafety, PTL

\* INV-ARENA-MIGRATE: no step of the migrator makes an expert unreadable, the
\* commit of a demotion that begins a promotion included.
THEOREM MigrationIsSeamless == Spec => MigrationKeepsResident
<1>1. ArenaSound /\ [Next]_vars =>
        [advance_demoted \/ advance_promoted \/ advance_retry =>
           \A k \in Keys : Ready(k) => Ready(k)']_vars
  <2> SUFFICES ASSUME ArenaSound, advance_demoted \/ advance_promoted \/ advance_retry
               PROVE  \A k \in Keys : Ready(k) => Ready(k)'
    OBVIOUS
  <2>1. CASE advance_demoted
    BY <2>1, DemotedSound
  <2>2. CASE advance_promoted
    BY <2>2, PromotedSound
  <2>3. CASE advance_retry
    BY <2>3, ReadyReadable, ReadyReadableNext DEF advance_retry
  <2>4. QED
    BY <2>1, <2>2, <2>3
<1>2. QED
  BY <1>1, ArenaSafety, PTL DEF Spec, MigrationKeepsResident

\* A daemon that dies at any moment and comes back to the same store can read every
\* expert it could read before, but for those whose file was replaced.
THEOREM WarmRestartIsComplete == Spec => WarmRestartKeeps
<1>1. ArenaSound /\ [Next]_vars =>
        [restart_warm =>
           \A k \in Keys : Ready(k) /\ rec[Source(location_, cell, k)].version = files[k]
                             => Ready(k)']_vars
  BY WarmSound
<1>2. QED
  BY <1>1, ArenaSafety, PTL DEF Spec, WarmRestartKeeps
===============================================================================
