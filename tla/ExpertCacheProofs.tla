--------------------------- MODULE ExpertCacheProofs ---------------------------
(***************************************************************************)
(* Proofs about ExpertCache, for any number of experts, slots and zones    *)
(* and any order of calls: residents of the boot carve are retagged, and   *)
(* spill mode is left with residents in the spill zone, as the code lets   *)
(* its callers do.  What survives is exact: the elastic zones' slots, the  *)
(* counters, the board, the latched capacity and the locks.                *)
(***************************************************************************)
EXTENDS ExpertCache, FiniteSetTheorems, TLAPS

-------------------------------------------------------------------------------
(* Free lists.                                                             *)

\* allocate() takes one slot from the list and leaves the others.
LEMMA PopFacts ==
  ASSUME NEW q \in Seq(Nat), q # <<>>
  PROVE  /\ q[Len(q)] \in Nat /\ q[Len(q)] \in Listed(q) /\ Pop(q) \in Seq(Nat)
         /\ NoRepeat(q) => /\ NoRepeat(Pop(q))
                           /\ Listed(Pop(q)) = Listed(q) \ {q[Len(q)]}
<1>1. PICK n \in Nat : n + 1 = Len(q)
  <2>1. Len(q) \in Nat /\ Len(q) # 0
    OBVIOUS
  <2>2. Len(q) - 1 \in Nat /\ (Len(q) - 1) + 1 = Len(q)
    BY <2>1
  <2>3. QED
    BY <2>2
<1>2. \A i \in 1..n + 1 : q[i] \in Nat
  BY <1>1
<1>3. PICK p : p = [i \in 1..n |-> q[i]]
  OBVIOUS
<1>4. p \in Seq(Nat) /\ Len(p) = n /\ \A i \in 1..n : p[i] = q[i]
  BY <1>2, <1>3
<1>5. Pop(q) = p
  BY <1>1, <1>3 DEF Pop
<1>6. n + 1 \in 1..n + 1 /\ q[n + 1] \in Listed(q)
  BY <1>1 DEF Listed
<1>7. ASSUME NoRepeat(q)
      PROVE  NoRepeat(p) /\ Listed(p) = Listed(q) \ {q[n + 1]}
  <2>1. \A i, j \in 1..n + 1 : q[i] = q[j] => i = j
    BY <1>1, <1>7 DEF NoRepeat
  <2>2. NoRepeat(p)
    <3>1. \A i, j \in 1..n : q[i] = q[j] => i = j
      BY <2>1
    <3>2. \A i, j \in 1..n : p[i] = p[j] => i = j
      BY <1>4, <3>1
    <3>3. QED
      BY <1>4, <3>2 DEF NoRepeat
  <2>3. Listed(q) = {q[i] : i \in 1..n + 1} /\ Listed(p) = {q[i] : i \in 1..n}
    BY <1>1, <1>4 DEF Listed
  <2>4. \A i \in 1..n : i \in 1..n + 1 /\ i # n + 1
    OBVIOUS
  <2>5. \A i \in 1..n + 1 : i # n + 1 => i \in 1..n
    OBVIOUS
  <2>6. QED
    BY <1>6, <2>1, <2>2, <2>3, <2>4, <2>5
<1>8. QED
  BY <1>1, <1>2, <1>4, <1>5, <1>6, <1>7

\* free() of a slot that is not in the list keeps the list free of repetitions.
LEMMA PushFacts ==
  ASSUME NEW q \in Seq(Nat), NEW s \in Nat, NoRepeat(q), s \notin Listed(q)
  PROVE  /\ Append(q, s) \in Seq(Nat) /\ NoRepeat(Append(q, s))
         /\ Listed(Append(q, s)) = Listed(q) \cup {s}
<1>1. /\ Append(q, s) \in Seq(Nat) /\ Len(Append(q, s)) = Len(q) + 1 /\ Len(q) \in Nat
      /\ \A i \in 1..Len(q) : Append(q, s)[i] = q[i]
      /\ Append(q, s)[Len(q) + 1] = s
  OBVIOUS
<1>2. NoRepeat(Append(q, s))
  BY <1>1 DEF NoRepeat, Listed
<1>3. Listed(Append(q, s)) = Listed(q) \cup {s}
  BY <1>1 DEF Listed
<1>4. QED
  BY <1>1, <1>2, <1>3

\* init: every slot is free, once.
LEMMA FullFacts ==
  ASSUME NEW n \in Nat
  PROVE  /\ FullList(n) \in Seq(Nat) /\ NoRepeat(FullList(n))
         /\ Listed(FullList(n)) = 0..n - 1
<1>1. /\ FullList(n) \in Seq(Nat) /\ Len(FullList(n)) = n
      /\ \A i \in 1..n : FullList(n)[i] = n - i
  BY DEF FullList
<1>2. NoRepeat(FullList(n))
  BY <1>1 DEF NoRepeat
<1>3. Listed(FullList(n)) = 0..n - 1
  <2>1. \A s \in 0..n - 1 : n - s \in 1..n /\ FullList(n)[n - s] = s
    BY <1>1
  <2>2. QED
    BY <1>1, <2>1 DEF Listed
<1>4. QED
  BY <1>1, <1>2, <1>3

LEMMA EmptyFacts ==
  <<>> \in Seq(Nat) /\ NoRepeat(<<>>) /\ Listed(<<>>) = {}
BY DEF NoRepeat, Listed

-------------------------------------------------------------------------------
(* Counting the residents with a given mark (those in B).                  *)

LEMMA CountAdd ==
  ASSUME NEW R, NEW n, NEW B, IsFiniteSet(R), n \notin R
  PROVE  /\ Cardinality(R \cap B) \in Int
         /\ Cardinality((R \cup {n}) \cap B) = Cardinality(R \cap B) + (IF n \in B THEN 1 ELSE 0)
<1>1. IsFiniteSet(R \cap B) /\ Cardinality(R \cap B) \in Nat
  BY FS_Subset, FS_CardinalityType
<1>2. CASE n \in B
  <2>1. (R \cup {n}) \cap B = (R \cap B) \cup {n}
    BY <1>2
  <2>2. Cardinality((R \cap B) \cup {n}) = Cardinality(R \cap B) + 1
    <3>1. n \notin R \cap B
      OBVIOUS
    <3>2. QED
      BY <1>1, <3>1, FS_AddElement
  <2>3. QED
    BY <1>1, <1>2, <2>1, <2>2, SMT
<1>3. CASE n \notin B
  <2>1. (R \cup {n}) \cap B = R \cap B
    BY <1>3
  <2>2. Cardinality((R \cup {n}) \cap B) = Cardinality(R \cap B)
    BY <2>1
  <2>3. Cardinality(R \cap B) = Cardinality(R \cap B) + 0
    <3>1. \A k \in Nat : k = k + 0
      OBVIOUS
    <3>2. QED
      BY <1>1, <3>1
  <2>4. QED
    BY <1>1, <1>3, <2>2, <2>3
<1>4. QED
  BY <1>2, <1>3

LEMMA CountRemove ==
  ASSUME NEW R, NEW e \in R, NEW B, IsFiniteSet(R)
  PROVE  /\ Cardinality(R \cap B) \in Int
         /\ Cardinality((R \ {e}) \cap B) = Cardinality(R \cap B) - (IF e \in B THEN 1 ELSE 0)
<1>1. IsFiniteSet(R \ {e})
  BY FS_RemoveElement
<1>2. (R \ {e}) \cup {e} = R
  OBVIOUS
<1>3. /\ Cardinality((R \ {e}) \cap B) \in Int
      /\ Cardinality(R \cap B) = Cardinality((R \ {e}) \cap B) + (IF e \in B THEN 1 ELSE 0)
  <2> DEFINE S == R \ {e}
  <2>1. IsFiniteSet(S) /\ e \notin S /\ S \cup {e} = R
    BY <1>1, <1>2
  <2> HIDE DEF S
  <2>2. /\ Cardinality(S \cap B) \in Int
        /\ Cardinality((S \cup {e}) \cap B) = Cardinality(S \cap B) + (IF e \in B THEN 1 ELSE 0)
    BY <2>1, CountAdd
  <2>3. QED
    BY <2>1, <2>2 DEF S
<1>4. CASE e \in B
  BY <1>3, <1>4
<1>5. CASE e \notin B
  BY <1>3, <1>5
<1>6. QED
  BY <1>4, <1>5

\* The capacity depends on the zones and their sizes only.
LEMMA TotalSame ==
  ASSUME size' = size, zstate' = zstate
  PROVE  total_slots' = total_slots
BY DEF total_slots

-------------------------------------------------------------------------------
(* One lemma for each way a step changes the residents.                    *)

LEMMA InitCacheInv == Init => CacheInv
<1> SUFFICES ASSUME Init PROVE CacheInv
  OBVIOUS
<1> USE CacheAssumption
<1>1. residents = {} /\ IsFiniteSet(residents)
  BY FS_EmptySet DEF Init
<1>2. size \in [Allocs -> Nat]
  BY DEF Init
<1>3. /\ \A a \in Allocs : free[a] = FullList(size[a]) /\ size[a] \in Nat
      /\ free = [a \in Allocs |-> FullList(size[a])]
  BY <1>2 DEF Init
<1>4. /\ \A a \in Allocs : FullList(size[a]) \in Seq(Nat)
      /\ \A a \in Allocs : NoRepeat(free[a]) /\ Listed(free[a]) = 0..size[a] - 1
  BY <1>3, FullFacts
<1>5. free \in [Allocs -> Seq(Nat)]
  BY <1>3, <1>4
<1>6. TypeOK
  BY <1>1, <1>2, <1>5 DEF Init, TypeOK, YesNo, ZoneIds
<1>7. KeysUnique /\ ElasticTellsHome /\ ElasticSlotsExact
  <2>1. \A z \in ZoneIds : NoRepeat(free[z]) /\ Listed(free[z]) = 0..size[z] - 1
    BY <1>4 DEF Allocs
  <2>2. QED
    BY <1>1, <2>1 DEF KeysUnique, ElasticTellsHome, ElasticSlotsExact
<1>8. ZonesNumbered
  BY <1>1 DEF Init, ZonesNumbered, ZoneIds
<1>9. ZonesOutliveResidents /\ DuplicatesCounted
  <2>1. \A z \in ZoneIds : {e \in residents : e.elastic = z} = {}
    BY <1>1
  <2>2. {e \in residents : e.dup = "yes"} = {}
    BY <1>1
  <2>3. QED
    BY <1>1, <2>1, <2>2, FS_EmptySet DEF Init, ZonesOutliveResidents, DuplicatesCounted
<1>10. BoardMirrorsStable /\ CapacityFresh
  BY DEF Init, BoardMirrorsStable, CapacityFresh
<1>11. QED
  BY <1>1, <1>6, <1>7, <1>8, <1>9, <1>10 DEF CacheInv

\* An entry is replaced by one in the same slot: mark_ready, lock, promote, ...
LEMMA ReplaceInv ==
  ASSUME CacheInv, NEW e \in residents, NEW f \in CacheEntry,
         f.key = e.key, f.home = e.home, f.slot = e.slot, f.elastic = e.elastic,
         f.spill = e.spill, f.dup = e.dup,
         residents' = (residents \ {e}) \cup {f},
         UNCHANGED <<slotVars, mode, duplicate_count, listening, reefVars>>,
         board' \subseteq Keys, BoardMirrorsStable'
  PROVE  CacheInv'
<1> USE DEF slotVars, reefVars
<1>1. f \notin residents \ {e}
  BY DEF CacheInv, KeysUnique
<1>2. IsFiniteSet(residents \ {e}) /\ IsFiniteSet(residents')
  BY FS_RemoveElement, FS_AddElement DEF CacheInv
<1>3. TypeOK'
  BY DEF CacheInv, TypeOK
<1>4. KeysUnique' /\ ZonesNumbered'
  BY DEF CacheInv, KeysUnique, ZonesNumbered
<1>5. ElasticTellsHome'
  BY DEF CacheInv, ElasticTellsHome
<1>6. ElasticSlotsExact'
  BY DEF CacheInv, ElasticSlotsExact
<1>8. ASSUME NEW B, e \in B <=> f \in B
      PROVE  Cardinality(residents' \cap B) = Cardinality(residents \cap B)
  <2> DEFINE R == residents \ {e}
  <2>1. IsFiniteSet(R) /\ e \notin R /\ f \notin R
    BY <1>1, <1>2
  <2>2. R \cup {e} = residents /\ R \cup {f} = residents'
    OBVIOUS
  <2> HIDE DEF R
  <2>3. Cardinality((R \cup {e}) \cap B) = Cardinality(R \cap B) + (IF e \in B THEN 1 ELSE 0)
    BY <2>1, CountAdd
  <2>4. Cardinality((R \cup {f}) \cap B) = Cardinality(R \cap B) + (IF f \in B THEN 1 ELSE 0)
    BY <2>1, CountAdd
  <2>5. QED
    BY <1>8, <2>2, <2>3, <2>4
<1>9. ZonesOutliveResidents'
  <2>1. ASSUME NEW z \in ZoneIds
        PROVE  Cardinality({r \in residents' : r.elastic = z})
                 = Cardinality({r \in residents : r.elastic = z})
    <3> DEFINE B == {r \in residents \cup {f} : r.elastic = z}
    <3>1. /\ residents' \cap B = {r \in residents' : r.elastic = z}
          /\ residents \cap B = {r \in residents : r.elastic = z}
          /\ e \in B <=> f \in B
      OBVIOUS
    <3> HIDE DEF B
    <3>2. QED
      BY <1>8, <3>1
  <2>2. \A r \in residents' : r.home \in ZoneIds => zstate'[r.home] # "none"
    BY DEF CacheInv, ZonesNumbered
  <2>3. QED
    BY <2>1, <2>2 DEF CacheInv, ZonesOutliveResidents
<1>10. DuplicatesCounted'
  <2> DEFINE B == {r \in residents \cup {f} : r.dup = "yes"}
  <2>1. /\ residents' \cap B = {r \in residents' : r.dup = "yes"}
        /\ residents \cap B = {r \in residents : r.dup = "yes"}
        /\ e \in B <=> f \in B
    OBVIOUS
  <2> HIDE DEF B
  <2>2. QED
    BY <1>8, <2>1 DEF CacheInv, DuplicatesCounted
<1>11. CapacityFresh'
  BY TotalSame DEF CacheInv, CapacityFresh
<1>12. QED
  BY <1>2, <1>3, <1>4, <1>5, <1>6, <1>9, <1>10, <1>11 DEF CacheInv

\* reserve: the slot at the end of the list moves to the new entry.
LEMMA ReserveInv ==
  ASSUME CacheInv, NEW k \in Keys, NEW zone \in {"stable", "streaming"}, NEW dup \in YesNo,
         reserve(k, zone, dup)
  PROVE  CacheInv'
<1> USE CacheAssumption
<1>1. PICK a \in Allocs :
     /\ \A e \in residents : e.key # k
     /\ Offered(zone, a)
     /\ residents' = residents \cup
          {[key |-> k, zone |-> zone, home |-> a, slot |-> free[a][Len(free[a])],
            elastic |-> IF a \in ZoneIds THEN a ELSE NoZone,
            spill |-> IF a = Spill THEN "yes" ELSE "no",
            dup |-> dup, locks |-> 0, ready |-> {}]}
     /\ free' = [free EXCEPT ![a] = Pop(@)]
     /\ resident_entries' = [z \in ZoneIds |-> resident_entries[z] + (IF z = a THEN 1 ELSE 0)]
     /\ duplicate_count' = duplicate_count + (IF dup = "yes" THEN 1 ELSE 0)
     /\ board' = IF listening = "yes" /\ zone = "stable" THEN board \cup {k} ELSE board
     /\ UNCHANGED <<size, zstate, next_elastic_id, elastic_generation, mode, listening, reefVars>>
  BY DEF reserve
<1> DEFINE s == free[a][Len(free[a])]
           n == [key |-> k, zone |-> zone, home |-> a, slot |-> s,
                 elastic |-> IF a \in ZoneIds THEN a ELSE NoZone,
                 spill |-> IF a = Spill THEN "yes" ELSE "no",
                 dup |-> dup, locks |-> 0, ready |-> {}]
<1>2. /\ free[a] \in Seq(Nat) /\ free[a] # <<>>
      /\ a \in ZoneIds => NoRepeat(free[a])
  BY <1>1 DEF CacheInv, TypeOK, ElasticSlotsExact, Offered
<1>3. /\ s \in Nat /\ s \in Listed(free[a]) /\ Pop(free[a]) \in Seq(Nat)
      /\ a \in ZoneIds => /\ NoRepeat(Pop(free[a]))
                          /\ Listed(Pop(free[a])) = Listed(free[a]) \ {s}
  BY <1>2, PopFacts
<1>4. n \in CacheEntry
  BY <1>3 DEF CacheEntry, YesNo, ZoneIds
<1>5. /\ n.key = k /\ n.zone = zone /\ n.home = a /\ n.slot = s /\ n.dup = dup
      /\ n.spill = "yes" <=> a = Spill
      /\ n.elastic = IF a \in ZoneIds THEN a ELSE NoZone
      /\ \A z \in ZoneIds : n.elastic = z <=> z = a
  BY DEF NoZone, ZoneIds
<1>6. residents' = residents \cup {n} /\ n \notin residents
  BY <1>1, <1>5
<1>7. /\ free' \in [Allocs -> Seq(Nat)]
      /\ \A b \in Allocs : free'[b] = IF b = a THEN Pop(free[a]) ELSE free[b]
  BY <1>1, <1>3 DEF CacheInv, TypeOK
<1>8. a \in ZoneIds => zstate[a] = "active"
  BY <1>1 DEF Offered, ZoneIds, Stable, Spill, Prefetch
<1> HIDE DEF n, s
<1>9. IsFiniteSet(residents')
  BY <1>6, FS_AddElement DEF CacheInv
<1>10. TypeOK'
  <2>1. residents' \subseteq CacheEntry
    BY <1>4, <1>6 DEF CacheInv, TypeOK
  <2>2. resident_entries' \in [ZoneIds -> Int] /\ duplicate_count' \in Int
    BY <1>1 DEF CacheInv, TypeOK
  <2>3. board' \subseteq Keys
    BY <1>1 DEF CacheInv, TypeOK
  <2>4. QED
    BY <1>1, <1>7, <2>1, <2>2, <2>3 DEF CacheInv, TypeOK, reefVars
<1>11. KeysUnique' /\ ElasticTellsHome' /\ ZonesNumbered'
  <2>1. KeysUnique' /\ ZonesNumbered'
    BY <1>1, <1>5, <1>6, <1>8 DEF CacheInv, KeysUnique, ZonesNumbered, reefVars
  <2>2. \A z \in ZoneIds : z # NoZone
    BY DEF ZoneIds, NoZone
  <2>3. /\ IF n.elastic = NoZone THEN n.home \in {Stable, Spill, Prefetch}
                                ELSE n.home = n.elastic
        /\ n.spill = "yes" => n.home = Spill
    BY <1>5, <2>2 DEF Allocs
  <2>4. ElasticTellsHome'
    BY <1>6, <2>3 DEF CacheInv, ElasticTellsHome
  <2>5. QED
    BY <2>1, <2>4
<1>12. ElasticSlotsExact'
  <2>1. \A e \in residents : e.home \in ZoneIds => ~(e.home = a /\ e.slot = s)
    BY <1>3 DEF CacheInv, ElasticSlotsExact
  <2>2. \A z \in ZoneIds : NoRepeat(free'[z]) /\ Listed(free'[z]) \subseteq Listed(free[z])
    BY <1>3, <1>7 DEF CacheInv, ElasticSlotsExact, Allocs
  <2>3. \A e \in residents' : e.home \in ZoneIds => e.slot \notin Listed(free'[e.home])
    <3>1. n.home \in ZoneIds => n.slot \notin Listed(free'[n.home])
      BY <1>3, <1>5, <1>7
    <3>2. QED
      BY <1>6, <2>1, <2>2, <3>1 DEF CacheInv, ElasticSlotsExact
  <2>4. \A e, f \in residents' :
           e.home \in ZoneIds /\ e.home = f.home /\ e.slot = f.slot => e = f
    BY <1>5, <1>6, <2>1 DEF CacheInv, ElasticSlotsExact
  <2>5. ASSUME NEW z \in ZoneIds, NEW t \in 0..size[z] - 1
        PROVE  t \in Listed(free'[z]) \/ \E e \in residents' : e.home = z /\ e.slot = t
    <3>1. t \in Listed(free[z]) \/ \E e \in residents : e.home = z /\ e.slot = t
      BY DEF CacheInv, ElasticSlotsExact
    <3>2. z \in Allocs
      BY DEF Allocs
    <3>3. z = a => Listed(free'[z]) = Listed(free[z]) \ {s}
      BY <1>3, <1>7, <3>2
    <3>4. z # a => free'[z] = free[z]
      BY <1>7, <3>2
    <3>5. QED
      BY <1>5, <1>6, <3>1, <3>3, <3>4
  <2>6. QED
    BY <1>1, <2>2, <2>3, <2>4, <2>5 DEF ElasticSlotsExact
<1>14. ASSUME NEW B
       PROVE  Cardinality(residents' \cap B)
                = Cardinality(residents \cap B) + (IF n \in B THEN 1 ELSE 0)
  BY <1>6, CountAdd DEF CacheInv
<1>15. ZonesOutliveResidents'
  <2>1. ASSUME NEW z \in ZoneIds
        PROVE  Cardinality({r \in residents' : r.elastic = z})
                 = Cardinality({r \in residents : r.elastic = z}) + (IF z = a THEN 1 ELSE 0)
    <3> DEFINE B == {r \in residents \cup {n} : r.elastic = z}
    <3>1. /\ residents' \cap B = {r \in residents' : r.elastic = z}
          /\ residents \cap B = {r \in residents : r.elastic = z}
          /\ n \in B <=> z = a
      BY <1>5, <1>6
    <3> HIDE DEF B
    <3>2. QED
      BY <1>14, <3>1
  <2>2. \A r \in residents' : r.home \in ZoneIds => zstate'[r.home] # "none"
    BY <1>11 DEF ZonesNumbered
  <2>3. QED
    BY <1>1, <2>1, <2>2 DEF CacheInv, ZonesOutliveResidents
<1>16. DuplicatesCounted'
  <2> DEFINE B == {r \in residents \cup {n} : r.dup = "yes"}
  <2>1. /\ residents' \cap B = {r \in residents' : r.dup = "yes"}
        /\ residents \cap B = {r \in residents : r.dup = "yes"}
        /\ n \in B <=> dup = "yes"
    BY <1>5, <1>6
  <2> HIDE DEF B
  <2>2. QED
    BY <1>1, <1>14, <2>1 DEF CacheInv, DuplicatesCounted
<1>17. BoardMirrorsStable'
  BY <1>1, <1>5, <1>6 DEF CacheInv, BoardMirrorsStable, StableKeys
<1>18. CapacityFresh'
  BY <1>1, TotalSame DEF CacheInv, CapacityFresh, reefVars
<1>19. QED
  BY <1>9, <1>10, <1>11, <1>12, <1>15, <1>16, <1>17, <1>18 DEF CacheInv

\* evict: the slot of an elastic resident goes back to its zone, because elastic_zone is
\* looked at first; the others go to some list of the boot carve.
LEMMA EvictInv ==
  ASSUME CacheInv, NEW e \in residents, evict(e)
  PROVE  CacheInv'
<1> USE CacheAssumption
<1> DEFINE a == SlotOwner(e)
<1>1. e \in CacheEntry /\ e.slot \in Nat /\ e.home \in Allocs
      /\ e.elastic \in ZoneIds \cup {NoZone}
  BY DEF CacheInv, TypeOK, CacheEntry
<1>2. /\ residents' = residents \ {e}
      /\ free' = IF a = Spill /\ mode = "spill" THEN free
                 ELSE [free EXCEPT ![a] = Append(@, e.slot)]
      /\ resident_entries' = [z \in ZoneIds |-> resident_entries[z] - (IF z = a THEN 1 ELSE 0)]
      /\ duplicate_count' = duplicate_count - (IF e.dup = "yes" THEN 1 ELSE 0)
      /\ board' = IF listening = "yes" /\ e.zone = "stable" THEN board \ {e.key} ELSE board
      /\ UNCHANGED <<size, zstate, next_elastic_id, elastic_generation, mode, listening>>
      /\ UNCHANGED <<reef_caps, reef_caps_generation>>
  BY DEF evict, reefVars
<1>3. /\ a \in Allocs
      /\ \A z \in ZoneIds : z # Stable /\ z # Spill /\ z # Prefetch /\ z # NoZone
      /\ \A z \in ZoneIds : (e.elastic = z <=> z = a) /\ (e.home = z <=> z = a)
  <2>1. \A z \in ZoneIds : z # Stable /\ z # Spill /\ z # Prefetch /\ z # NoZone
    BY DEF ZoneIds, Stable, Spill, Prefetch, NoZone
  <2>2. CASE e.elastic # NoZone
    <3>1. a = e.elastic /\ e.home = e.elastic
      BY <2>2 DEF SlotOwner, CacheInv, ElasticTellsHome
    <3>2. QED
      BY <1>1, <2>1, <2>2, <3>1 DEF Allocs
  <2>3. CASE e.elastic = NoZone
    <3>1. a \in {Stable, Spill, Prefetch} /\ e.home \in {Stable, Spill, Prefetch}
      BY <2>3 DEF SlotOwner, CacheInv, ElasticTellsHome
    <3>2. QED
      BY <2>1, <2>3, <3>1 DEF Allocs
  <2>4. QED
    BY <2>2, <2>3
<1> HIDE DEF a
<1>4. free[a] \in Seq(Nat) /\ (a \in ZoneIds => NoRepeat(free[a]) /\ e.slot \notin Listed(free[a]))
  <2>1. a \in ZoneIds => e.home = a
    BY <1>3
  <2>2. QED
    BY <1>3, <2>1 DEF CacheInv, TypeOK, ElasticSlotsExact
<1>5. /\ Append(free[a], e.slot) \in Seq(Nat)
      /\ a \in ZoneIds => /\ NoRepeat(Append(free[a], e.slot))
                          /\ Listed(Append(free[a], e.slot)) = Listed(free[a]) \cup {e.slot}
  BY <1>1, <1>4, PushFacts
<1>6. \A z \in ZoneIds : e.elastic = z <=> z = a
  BY <1>3
<1>7. free' \in [Allocs -> Seq(Nat)]
  BY <1>2, <1>5 DEF CacheInv, TypeOK
<1>8. \A b \in Allocs : free'[b] = IF b = a /\ ~(a = Spill /\ mode = "spill")
                                   THEN Append(free[a], e.slot) ELSE free[b]
  BY <1>2 DEF CacheInv, TypeOK
<1>9. IsFiniteSet(residents')
  BY <1>2, FS_RemoveElement DEF CacheInv
<1>10. TypeOK'
  BY <1>2, <1>7 DEF CacheInv, TypeOK
<1>11. KeysUnique' /\ ElasticTellsHome' /\ ZonesNumbered'
  BY <1>2 DEF CacheInv, KeysUnique, ElasticTellsHome, ZonesNumbered
<1>12. ElasticSlotsExact'
  <2>1. \A z \in ZoneIds : free'[z] = IF z = a THEN Append(free[a], e.slot) ELSE free[z]
    BY <1>3, <1>8 DEF Allocs
  <2>2. \A z \in ZoneIds : NoRepeat(free'[z])
    BY <1>5, <2>1 DEF CacheInv, ElasticSlotsExact
  <2>3. \A f \in residents' : f.home \in ZoneIds => f.slot \notin Listed(free'[f.home])
    <3> SUFFICES ASSUME NEW f \in residents, f # e, f.home \in ZoneIds
                 PROVE  f.slot \notin Listed(free'[f.home])
      BY <1>2
    <3>1. f.slot \notin Listed(free[f.home])
      BY DEF CacheInv, ElasticSlotsExact
    <3>2. f.home = a => f.slot # e.slot
      BY <1>3 DEF CacheInv, ElasticSlotsExact
    <3>3. QED
      BY <1>5, <2>1, <3>1, <3>2
  <2>4. ASSUME NEW z \in ZoneIds, NEW t \in 0..size[z] - 1
        PROVE  t \in Listed(free'[z]) \/ \E f \in residents' : f.home = z /\ f.slot = t
    <3>1. t \in Listed(free[z]) \/ \E f \in residents : f.home = z /\ f.slot = t
      BY DEF CacheInv, ElasticSlotsExact
    <3>2. z = a => Listed(free'[z]) = Listed(free[z]) \cup {e.slot}
      BY <1>5, <2>1
    <3>3. z # a => free'[z] = free[z] /\ e.home # z
      BY <1>3, <2>1
    <3>4. QED
      BY <1>2, <3>1, <3>2, <3>3
  <2>5. QED
    BY <1>2, <2>2, <2>3, <2>4 DEF CacheInv, ElasticSlotsExact
<1>14. ASSUME NEW B
       PROVE  Cardinality(residents' \cap B)
                = Cardinality(residents \cap B) - (IF e \in B THEN 1 ELSE 0)
  BY <1>2, CountRemove DEF CacheInv
<1>15. ZonesOutliveResidents'
  <2>1. ASSUME NEW z \in ZoneIds
        PROVE  Cardinality({r \in residents' : r.elastic = z})
                 = Cardinality({r \in residents : r.elastic = z}) - (IF z = a THEN 1 ELSE 0)
    <3> DEFINE B == {r \in residents : r.elastic = z}
    <3>1. /\ residents' \cap B = {r \in residents' : r.elastic = z}
          /\ residents \cap B = {r \in residents : r.elastic = z}
          /\ e \in B <=> z = a
      BY <1>2, <1>6
    <3> HIDE DEF B
    <3>2. QED
      BY <1>14, <3>1
  <2>2. \A r \in residents' : r.home \in ZoneIds => zstate'[r.home] # "none"
    BY <1>11 DEF ZonesNumbered
  <2>3. QED
    BY <1>2, <2>1, <2>2 DEF CacheInv, ZonesOutliveResidents
<1>16. DuplicatesCounted'
  <2> DEFINE B == {r \in residents : r.dup = "yes"}
  <2>1. /\ residents' \cap B = {r \in residents' : r.dup = "yes"}
        /\ residents \cap B = {r \in residents : r.dup = "yes"}
        /\ e \in B <=> e.dup = "yes"
    BY <1>2
  <2> HIDE DEF B
  <2>2. QED
    BY <1>2, <1>14, <2>1 DEF CacheInv, DuplicatesCounted
<1>17. BoardMirrorsStable'
  BY <1>2 DEF CacheInv, KeysUnique, BoardMirrorsStable, StableKeys
<1>18. CapacityFresh'
  BY <1>2, TotalSame DEF CacheInv, CapacityFresh
<1>19. QED
  BY <1>9, <1>10, <1>11, <1>12, <1>15, <1>16, <1>17, <1>18 DEF CacheInv

\* add_elastic_zone: a new zone has a fresh id, hence no residents.
LEMMA AddZoneInv ==
  ASSUME CacheInv, NEW n \in GrantSizes, add_elastic_zone(n)
  PROVE  CacheInv'
<1> USE CacheAssumption
<1> DEFINE z == next_elastic_id
<1>1. /\ z \in ZoneIds /\ z \in Allocs /\ n \in Nat /\ z \in Nat
      /\ z # Stable /\ z # Spill /\ z # Prefetch
  BY DEF add_elastic_zone, ZoneIds, Allocs, Stable, Spill, Prefetch
<1>2. /\ next_elastic_id' = z + 1
      /\ zstate' = [zstate EXCEPT ![z] = "active"]
      /\ size' = [size EXCEPT ![z] = n]
      /\ free' = [free EXCEPT ![z] = FullList(n)]
      /\ elastic_generation < MaxGeneration
      /\ elastic_generation' = elastic_generation + 1
      /\ UNCHANGED <<residents, resident_entries, mode, duplicate_count, listening, board>>
      /\ UNCHANGED <<reef_caps, reef_caps_generation>>
  BY DEF add_elastic_zone, BumpGeneration, userVars, reefVars
<1>3. FullList(n) \in Seq(Nat) /\ NoRepeat(FullList(n)) /\ Listed(FullList(n)) = 0..n - 1
  BY <1>1, FullFacts
<1>4. \A e \in residents : e.home \in Allocs /\ e.home # z
  <2>1. zstate[z] = "none"
    BY <1>1 DEF CacheInv, ZonesNumbered
  <2>2. QED
    BY <1>1, <2>1 DEF CacheInv, ZonesNumbered, TypeOK, CacheEntry
<1>5. TypeOK'
  <2>1. free' \in [Allocs -> Seq(Nat)] /\ size' \in [Allocs -> Nat]
    BY <1>1, <1>2, <1>3 DEF CacheInv, TypeOK
  <2>2. /\ zstate' \in [ZoneIds -> {"none", "active", "draining"}]
        /\ next_elastic_id' \in 0..MaxZones
        /\ elastic_generation' \in 0..MaxGeneration
    BY <1>1, <1>2 DEF CacheInv, TypeOK, ZoneIds
  <2>3. QED
    BY <1>2, <2>1, <2>2 DEF CacheInv, TypeOK
<1>6. /\ \A b \in Allocs : free'[b] = IF b = z THEN FullList(n) ELSE free[b]
      /\ \A b \in Allocs : size'[b] = IF b = z THEN n ELSE size[b]
      /\ \A y \in ZoneIds : zstate'[y] = IF y = z THEN "active" ELSE zstate[y]
  BY <1>2 DEF CacheInv, TypeOK
<1>7. KeysUnique' /\ ElasticTellsHome'
  BY <1>2 DEF CacheInv, KeysUnique, ElasticTellsHome
<1>8. ZonesNumbered'
  BY <1>1, <1>2, <1>4, <1>6 DEF CacheInv, ZonesNumbered, TypeOK, ZoneIds
<1>9. ElasticSlotsExact'
  <2>1. \A y \in ZoneIds : free'[y] = IF y = z THEN FullList(n) ELSE free[y]
    BY <1>6 DEF Allocs
  <2>2. \A y \in ZoneIds : size'[y] = IF y = z THEN n ELSE size[y]
    BY <1>6 DEF Allocs
  <2>3. QED
    BY <1>2, <1>3, <1>4, <2>1, <2>2 DEF CacheInv, ElasticSlotsExact
<1>11. ZonesOutliveResidents'
  BY <1>2, <1>8 DEF CacheInv, ZonesOutliveResidents, ZonesNumbered
<1>12. DuplicatesCounted' /\ BoardMirrorsStable'
  BY <1>2 DEF CacheInv, DuplicatesCounted, BoardMirrorsStable, StableKeys
<1>13. CapacityFresh'
  BY <1>2 DEF CacheInv, TypeOK, ZonesNumbered, CapacityFresh
<1>14. QED
  BY <1>2, <1>5, <1>7, <1>8, <1>9, <1>11, <1>12, <1>13 DEF CacheInv

LEMMA BeginDrainInv ==
  ASSUME CacheInv, NEW z \in ZoneIds, begin_drain_elastic_zone(z)
  PROVE  CacheInv'
<1> USE CacheAssumption
<1>1. /\ zstate[z] # "none"
      /\ zstate' = [zstate EXCEPT ![z] = "draining"]
      /\ elastic_generation < MaxGeneration
      /\ elastic_generation' = elastic_generation + 1
      /\ UNCHANGED <<residents, free, size, resident_entries, next_elastic_id, mode,
                     duplicate_count, listening, board>>
      /\ UNCHANGED <<reef_caps, reef_caps_generation>>
  BY DEF begin_drain_elastic_zone, BumpGeneration, userVars, reefVars
<1>2. TypeOK'
  BY <1>1 DEF CacheInv, TypeOK
<1>3. \A y \in ZoneIds : zstate'[y] = IF y = z THEN "draining" ELSE zstate[y]
  BY <1>1 DEF CacheInv, TypeOK
<1>4. KeysUnique' /\ ElasticTellsHome' /\ ElasticSlotsExact'
  BY <1>1 DEF CacheInv, KeysUnique, ElasticTellsHome, ElasticSlotsExact
<1>5. ZonesNumbered'
  BY <1>1, <1>3 DEF CacheInv, ZonesNumbered, TypeOK
<1>6. ZonesOutliveResidents'
  BY <1>1, <1>5 DEF CacheInv, ZonesOutliveResidents, ZonesNumbered
<1>7. DuplicatesCounted' /\ BoardMirrorsStable'
  BY <1>1 DEF CacheInv, DuplicatesCounted, BoardMirrorsStable, StableKeys
<1>8. CapacityFresh'
  BY <1>1 DEF CacheInv, TypeOK, ZonesNumbered, CapacityFresh
<1>9. QED
  BY <1>1, <1>2, <1>4, <1>5, <1>6, <1>7, <1>8 DEF CacheInv

\* remove_elastic_zone: the counter is exact, so a removed zone has no residents.
LEMMA RemoveZoneInv ==
  ASSUME CacheInv, NEW z \in ZoneIds, remove_elastic_zone(z)
  PROVE  CacheInv'
<1> USE CacheAssumption
<1>1. /\ resident_entries[z] = 0
      /\ zstate' = [zstate EXCEPT ![z] = "none"]
      /\ size' = [size EXCEPT ![z] = 0]
      /\ free' = [free EXCEPT ![z] = <<>>]
      /\ elastic_generation < MaxGeneration
      /\ elastic_generation' = elastic_generation + 1
      /\ UNCHANGED <<residents, resident_entries, next_elastic_id, mode,
                     duplicate_count, listening, board>>
      /\ UNCHANGED <<reef_caps, reef_caps_generation>>
  BY DEF remove_elastic_zone, BumpGeneration, userVars, reefVars
<1>2. \A e \in residents : e.home # z
  <2> DEFINE B == {e \in residents : e.elastic = z}
  <2>1. IsFiniteSet(B) /\ Cardinality(B) = 0
    BY <1>1, FS_Subset DEF CacheInv, ZonesOutliveResidents
  <2>2. B = {}
    BY <2>1, FS_EmptySet
  <2>3. \A e \in residents : e.home = z => e.elastic = z
    <3>1. z # Stable /\ z # Spill /\ z # Prefetch
      BY DEF ZoneIds, Stable, Spill, Prefetch
    <3>2. QED
      BY <3>1 DEF CacheInv, ElasticTellsHome
  <2>4. QED
    BY <2>2, <2>3
<1>3. z \in Allocs /\ \A e \in residents : e.home \in Allocs
  BY DEF Allocs, CacheInv, TypeOK, CacheEntry
<1>4. TypeOK'
  BY <1>1, <1>3, EmptyFacts DEF CacheInv, TypeOK
<1>5. /\ \A b \in Allocs : free'[b] = IF b = z THEN <<>> ELSE free[b]
      /\ \A b \in Allocs : size'[b] = IF b = z THEN 0 ELSE size[b]
      /\ \A y \in ZoneIds : zstate'[y] = IF y = z THEN "none" ELSE zstate[y]
  BY <1>1 DEF CacheInv, TypeOK
<1>6. KeysUnique' /\ ElasticTellsHome'
  BY <1>1 DEF CacheInv, KeysUnique, ElasticTellsHome
<1>7. ZonesNumbered'
  BY <1>1, <1>2, <1>5 DEF CacheInv, ZonesNumbered, TypeOK
<1>8. ElasticSlotsExact'
  <2>1. \A y \in ZoneIds : free'[y] = IF y = z THEN <<>> ELSE free[y]
    BY <1>5 DEF Allocs
  <2>2. \A y \in ZoneIds : size'[y] = IF y = z THEN 0 ELSE size[y]
    BY <1>5 DEF Allocs
  <2>3. QED
    BY <1>1, <1>2, <2>1, <2>2, EmptyFacts DEF CacheInv, ElasticSlotsExact
<1>10. ZonesOutliveResidents'
  BY <1>1, <1>7 DEF CacheInv, ZonesOutliveResidents, ZonesNumbered
<1>11. DuplicatesCounted' /\ BoardMirrorsStable'
  BY <1>1 DEF CacheInv, DuplicatesCounted, BoardMirrorsStable, StableKeys
<1>12. CapacityFresh'
  BY <1>1 DEF CacheInv, TypeOK, ZonesNumbered, CapacityFresh
<1>13. QED
  BY <1>1, <1>4, <1>6, <1>7, <1>8, <1>10, <1>11, <1>12 DEF CacheInv

\* enter_spill_mode: only streaming residents of the spill zone leave.
LEMMA EnterSpillInv ==
  ASSUME CacheInv, enter_spill_mode
  PROVE  CacheInv'
<1> USE CacheAssumption
<1>1. /\ residents' = residents \ Spilled
      /\ duplicate_count' = duplicate_count - Cardinality({e \in Spilled : e.dup = "yes"})
      /\ free' = [free EXCEPT ![Spill] = <<>>]
      /\ mode' = "spill"
      /\ UNCHANGED <<size, zstate, resident_entries, next_elastic_id, elastic_generation,
                     listening, board, reef_caps, reef_caps_generation>>
  BY DEF enter_spill_mode, userVars, reefVars
<1>2. \A e \in residents : e.home \in Allocs
  BY DEF CacheInv, TypeOK, CacheEntry
<1>3. \A e \in Spilled : e \in residents /\ e.home = Spill /\ e.zone = "streaming"
                         /\ e.elastic = NoZone
  <2>1. \A z \in ZoneIds : z # Spill
    BY DEF ZoneIds, Spill
  <2>2. QED
    BY <2>1 DEF Spilled, CacheInv, ElasticTellsHome, TypeOK, CacheEntry
<1>4. IsFiniteSet(residents')
  BY <1>1, FS_Difference DEF CacheInv
<1> DEFINE D == {e \in residents : e.dup = "yes"}
<1>5. /\ IsFiniteSet(D) /\ D \cap Spilled = {e \in Spilled : e.dup = "yes"}
      /\ D \ Spilled = {e \in residents' : e.dup = "yes"}
      /\ IsFiniteSet(D \cap Spilled)
  BY <1>1, <1>3, FS_Subset DEF CacheInv
<1>6. /\ Cardinality(D) \in Nat /\ Cardinality(D \cap Spilled) \in Nat
      /\ Cardinality(D \ Spilled) = Cardinality(D) - Cardinality(D \cap Spilled)
  BY <1>5, FS_CardinalityType, FS_Difference
<1>7. DuplicatesCounted' /\ duplicate_count' \in Int
  <2>1. duplicate_count = Cardinality(D)
    BY DEF CacheInv, DuplicatesCounted
  <2>2. /\ duplicate_count' = Cardinality(D) - Cardinality(D \cap Spilled)
        /\ Cardinality({e \in residents' : e.dup = "yes"}) = Cardinality(D \ Spilled)
    BY <1>1, <1>5, <2>1
  <2> HIDE DEF D
  <2>3. QED
    BY <1>6, <2>2 DEF DuplicatesCounted
<1>8. /\ free' \in [Allocs -> Seq(Nat)]
      /\ \A b \in Allocs : free'[b] = IF b = Spill THEN <<>> ELSE free[b]
  BY <1>1, EmptyFacts DEF CacheInv, TypeOK, Allocs
<1>9. TypeOK'
  BY <1>1, <1>7, <1>8 DEF CacheInv, TypeOK
<1>10. KeysUnique' /\ ElasticTellsHome' /\ ZonesNumbered'
  BY <1>1 DEF CacheInv, KeysUnique, ElasticTellsHome, ZonesNumbered
<1>11. ElasticSlotsExact'
  <2>1. \A z \in ZoneIds : z # Spill /\ free'[z] = free[z]
    BY <1>8 DEF Allocs, ZoneIds, Spill
  <2>2. QED
    BY <1>1, <1>3, <2>1 DEF CacheInv, ElasticSlotsExact
<1>13. ZonesOutliveResidents'
  <2>1. \A z \in ZoneIds : {e \in residents' : e.elastic = z} = {e \in residents : e.elastic = z}
    BY <1>1, <1>3 DEF ZoneIds, NoZone
  <2>2. QED
    BY <1>1, <1>10, <2>1 DEF CacheInv, ZonesOutliveResidents, ZonesNumbered
<1>14. BoardMirrorsStable'
  BY <1>1, <1>3 DEF CacheInv, BoardMirrorsStable, StableKeys
<1>15. CapacityFresh'
  BY <1>1, TotalSame DEF CacheInv, CapacityFresh
<1>16. QED
  BY <1>4, <1>7, <1>9, <1>10, <1>11, <1>13, <1>14, <1>15 DEF CacheInv

\* exit_spill_mode: only the spill list is refilled, under its residents or not.
LEMMA ExitSpillInv ==
  ASSUME CacheInv, exit_spill_mode
  PROVE  CacheInv'
<1> USE CacheAssumption
<1>1. /\ free' = [free EXCEPT ![Spill] = FullList(size[Spill])]
      /\ mode' = "normal"
      /\ UNCHANGED <<residents, size, zstate, resident_entries, next_elastic_id,
                     elastic_generation, duplicate_count, listening, board,
                     reef_caps, reef_caps_generation>>
  BY DEF exit_spill_mode, userVars, reefVars
<1>2. Spill \in Allocs /\ size[Spill] \in Nat /\ \A e \in residents : e.home \in Allocs
  BY DEF Allocs, CacheInv, TypeOK, CacheEntry
<1>3. /\ FullList(size[Spill]) \in Seq(Nat) /\ NoRepeat(FullList(size[Spill]))
      /\ Listed(FullList(size[Spill])) = 0..size[Spill] - 1
  BY <1>2, FullFacts
<1>4. /\ free' \in [Allocs -> Seq(Nat)]
      /\ \A b \in Allocs : free'[b] = IF b = Spill THEN FullList(size[Spill]) ELSE free[b]
  BY <1>1, <1>3 DEF CacheInv, TypeOK
<1>5. TypeOK'
  BY <1>1, <1>4 DEF CacheInv, TypeOK
<1>6. KeysUnique' /\ ElasticTellsHome' /\ ZonesNumbered'
  BY <1>1 DEF CacheInv, KeysUnique, ElasticTellsHome, ZonesNumbered
<1>7. ElasticSlotsExact'
  <2>1. \A z \in ZoneIds : free'[z] = free[z]
    BY <1>4 DEF Allocs, ZoneIds, Spill
  <2>2. QED
    BY <1>1, <2>1 DEF CacheInv, ElasticSlotsExact
<1>9. ZonesOutliveResidents' /\ DuplicatesCounted' /\ BoardMirrorsStable'
  BY <1>1 DEF CacheInv, ZonesOutliveResidents, DuplicatesCounted, BoardMirrorsStable, StableKeys
<1>10. CapacityFresh'
  BY <1>1, TotalSame DEF CacheInv, CapacityFresh
<1>11. QED
  BY <1>1, <1>5, <1>6, <1>7, <1>9, <1>10 DEF CacheInv

-------------------------------------------------------------------------------
(* Steps that replace an entry in its slot.                                *)

LEMMA MarksInv ==
  ASSUME CacheInv, NEW e \in residents,
         \/ \E c \in Components : mark_ready(e, c)
         \/ mark_all_ready(e) \/ lock(e) \/ unlock(e)
  PROVE  CacheInv'
<1> USE CacheAssumption
<1>1. e \in CacheEntry
  BY DEF CacheInv, TypeOK
<1>2. PICK f \in CacheEntry :
        /\ f.key = e.key /\ f.zone = e.zone /\ f.home = e.home /\ f.slot = e.slot
        /\ f.elastic = e.elastic /\ f.spill = e.spill /\ f.dup = e.dup
        /\ residents' = (residents \ {e}) \cup {f}
        /\ UNCHANGED <<slotVars, mode, duplicate_count, userVars>>
  <2>1. ASSUME NEW c \in Components, mark_ready(e, c)
        PROVE  [e EXCEPT !.ready = @ \cup {c}] \in CacheEntry
    BY <1>1 DEF CacheEntry
  <2>2. [e EXCEPT !.ready = Components] \in CacheEntry
    BY <1>1 DEF CacheEntry
  <2>3. e.locks < MaxLocks => [e EXCEPT !.locks = @ + 1] \in CacheEntry
    BY <1>1 DEF CacheEntry
  <2>4. e.locks > 0 => [e EXCEPT !.locks = @ - 1] \in CacheEntry
    BY <1>1 DEF CacheEntry
  <2>5. CASE \E c \in Components : mark_ready(e, c)
    BY <1>1, <2>1, <2>5 DEF mark_ready, Replace, CacheEntry
  <2>6. CASE mark_all_ready(e)
    BY <1>1, <2>2, <2>6 DEF mark_all_ready, Replace, CacheEntry
  <2>7. CASE lock(e)
    BY <1>1, <2>3, <2>7 DEF lock, Replace, CacheEntry
  <2>8. CASE unlock(e)
    BY <1>1, <2>4, <2>8 DEF unlock, Replace, CacheEntry
  <2>9. QED
    BY <2>5, <2>6, <2>7, <2>8
<1>4. /\ UNCHANGED <<slotVars, mode, duplicate_count, listening, reefVars>>
      /\ board' = board /\ board \subseteq Keys
  BY <1>2 DEF userVars, CacheInv, TypeOK
<1>5. BoardMirrorsStable'
  BY <1>2, <1>4 DEF CacheInv, BoardMirrorsStable, StableKeys
<1>6. QED
  BY <1>2, <1>4, <1>5, ReplaceInv

\* promote and demote of any resident: the slot stays where it is.
LEMMA RetagInv ==
  ASSUME CacheInv, NEW e \in residents,
         promote(e) \/ demote(e)
  PROVE  CacheInv'
<1> USE CacheAssumption
<1>1. e \in CacheEntry /\ e.key \in Keys /\ board \subseteq Keys
  BY DEF CacheInv, TypeOK, CacheEntry
<1>2. PICK zone \in {"stable", "streaming"} :
        /\ residents' = (residents \ {e}) \cup {[e EXCEPT !.zone = zone]}
        /\ board' = IF listening = "yes"
                    THEN IF zone = "stable" THEN board \cup {e.key} ELSE board \ {e.key}
                    ELSE board
        /\ UNCHANGED <<slotVars, mode, duplicate_count, listening, reefVars>>
  BY DEF promote, demote, Replace
<1> DEFINE f == [e EXCEPT !.zone = zone]
<1>3. /\ f \in CacheEntry /\ f.key = e.key /\ f.zone = zone /\ f.home = e.home
      /\ f.slot = e.slot /\ f.elastic = e.elastic /\ f.spill = e.spill /\ f.dup = e.dup
  BY <1>1 DEF CacheEntry
<1> HIDE DEF f
<1>5. residents' = (residents \ {e}) \cup {f}
  BY <1>2 DEF f
<1>6. board' \subseteq Keys
  BY <1>1, <1>2
<1>7. BoardMirrorsStable'
  BY <1>2, <1>3, <1>5 DEF CacheInv, KeysUnique, BoardMirrorsStable, StableKeys
<1>8. QED
  BY <1>2, <1>3, <1>5, <1>6, <1>7, ReplaceInv

\* The two users change nothing but their own copy.
LEMMA UsersInv ==
  ASSUME CacheInv, ensure_evict_board \/ ensure_reef_service
  PROVE  CacheInv'
<1> USE CacheAssumption
<1>1. UNCHANGED <<residents, free, size, zstate, resident_entries, next_elastic_id,
                  elastic_generation, mode, duplicate_count>>
  BY DEF ensure_evict_board, ensure_reef_service, slotVars
<1>2. StableKeys \subseteq Keys
  BY DEF CacheInv, TypeOK, CacheEntry, StableKeys
<1>3. TypeOK'
  BY <1>1, <1>2 DEF CacheInv, TypeOK, ensure_evict_board, ensure_reef_service, reefVars, YesNo
<1>4. KeysUnique' /\ ElasticTellsHome' /\ ElasticSlotsExact'
  BY <1>1 DEF CacheInv, KeysUnique, ElasticTellsHome, ElasticSlotsExact
<1>5. ZonesNumbered'
  BY <1>1 DEF CacheInv, TypeOK, ZonesNumbered, ensure_evict_board, ensure_reef_service, reefVars
<1>6. ZonesOutliveResidents' /\ DuplicatesCounted'
  BY <1>1 DEF CacheInv, ZonesOutliveResidents, DuplicatesCounted
<1>7. total_slots' = total_slots /\ StableKeys' = StableKeys
  BY <1>1, TotalSame DEF StableKeys
<1>8. BoardMirrorsStable' /\ CapacityFresh'
  BY <1>1, <1>7 DEF CacheInv, BoardMirrorsStable, CapacityFresh,
                    ensure_evict_board, ensure_reef_service, reefVars
<1>9. QED
  BY <1>1, <1>3, <1>4, <1>5, <1>6, <1>8 DEF CacheInv

-------------------------------------------------------------------------------
(* The theorems.                                                           *)

LEMMA NextCacheInv ==
  ASSUME CacheInv, [Next]_vars
  PROVE  CacheInv'
<1>1. ASSUME NEW k \in Keys, NEW zone \in {"stable", "streaming"}, NEW dup \in YesNo,
             reserve(k, zone, dup)
      PROVE  CacheInv'
  BY <1>1, ReserveInv
<1>2. ASSUME NEW e \in residents,
             \/ \E c \in Components : mark_ready(e, c)
             \/ mark_all_ready(e) \/ lock(e) \/ unlock(e)
      PROVE  CacheInv'
  BY <1>2, MarksInv
<1>3. ASSUME NEW e \in residents, evict(e)
      PROVE  CacheInv'
  BY <1>3, EvictInv
<1>4. ASSUME NEW e \in residents, promote(e) \/ demote(e)
      PROVE  CacheInv'
  BY <1>4, RetagInv
<1>5. ASSUME NEW n \in GrantSizes, add_elastic_zone(n)
      PROVE  CacheInv'
  BY <1>5, AddZoneInv
<1>6. ASSUME NEW z \in ZoneIds, begin_drain_elastic_zone(z)
      PROVE  CacheInv'
  BY <1>6, BeginDrainInv
<1>7. ASSUME NEW z \in ZoneIds, remove_elastic_zone(z)
      PROVE  CacheInv'
  BY <1>7, RemoveZoneInv
<1>8. CASE enter_spill_mode
  BY <1>8, EnterSpillInv
<1>9. CASE exit_spill_mode
  BY <1>9, ExitSpillInv
<1>10. CASE ensure_evict_board \/ ensure_reef_service
  BY <1>10, UsersInv
<1>11. CASE UNCHANGED vars
  <2>1. UNCHANGED <<residents, free, size, zstate, resident_entries, next_elastic_id,
                    elastic_generation, mode, duplicate_count, listening, board,
                    reef_caps, reef_caps_generation>>
    BY <1>11 DEF vars, slotVars, userVars, reefVars
  <2>2. total_slots' = total_slots
    BY <2>1, TotalSame
  <2>3. QED
    BY <2>1, <2>2 DEF CacheInv, TypeOK, KeysUnique, ElasticTellsHome, ZonesNumbered,
                      ElasticSlotsExact, ZonesOutliveResidents, DuplicatesCounted,
                      BoardMirrorsStable, StableKeys, CapacityFresh
<1>12. QED
  BY <1>1, <1>2, <1>3, <1>4, <1>5, <1>6, <1>7, <1>8, <1>9, <1>10, <1>11 DEF Next

\* The cache keeps its tables consistent whatever its callers do: for any number of
\* experts, slots, zones and locks, CacheInv holds in every state.  (That no two residents
\* share a slot of the boot carve is not part of it: the code does not keep it.)
THEOREM CacheInvariant ==
  Spec => []CacheInv
<1>1. Init => CacheInv
  BY InitCacheInv
<1>2. CacheInv /\ [Next]_vars => CacheInv'
  BY NextCacheInv
<1>3. QED
  BY <1>1, <1>2, PTL DEF Spec

\* Of the memory lent by the KV pool, no two experts ever share a slot and no slot is
\* lost (reserve / evict / demote of expert_cache.cpp), for every order of calls.
THEOREM ElasticSlotSafety ==
  Spec => []ElasticSlotsExact
<1>1. CacheInv => ElasticSlotsExact
  BY DEF CacheInv
<1>2. Spec => []CacheInv
  BY CacheInvariant
<1>3. QED
  BY <1>1, <1>2, PTL

\* The generation tells every change of capacity: what REEF has latched is current or
\* will be refreshed before use, whoever grants, drains or removes zones.
THEOREM CapacitySafety ==
  Spec => []CapacityFresh
<1>1. CacheInv => CapacityFresh
  BY DEF CacheInv
<1>2. Spec => []CacheInv
  BY CacheInvariant
<1>3. QED
  BY <1>1, <1>2, PTL

\* remove_elastic_zone never retires a zone under a resident, whoever promotes, spills
\* or locks in the meantime.
THEOREM ElasticSafety ==
  Spec => []ZonesOutliveResidents
<1>1. CacheInv => ZonesOutliveResidents
  BY DEF CacheInv
<1>2. Spec => []CacheInv
  BY CacheInvariant
<1>3. QED
  BY <1>1, <1>2, PTL

\* The loader's board mirrors stable residency (TD-EVICT-BOARD-DESYNC).
THEOREM BoardSafety ==
  Spec => []BoardMirrorsStable
<1>1. CacheInv => BoardMirrorsStable
  BY DEF CacheInv
<1>2. Spec => []CacheInv
  BY CacheInvariant
<1>3. QED
  BY <1>1, <1>2, PTL

\* What a step does to a locked expert: it has a successor in the same slot.
Stays(e) == \E f \in residents' : f.key = e.key /\ f.home = e.home /\ f.slot = e.slot

\* A resident that is replaced by itself with other marks, locks or tags stays.
LEMMA ReplacedStays ==
  ASSUME TypeOK, NEW e \in residents, NEW d \in residents, NEW f,
         Replace(d, f), f.key = d.key, f.home = d.home, f.slot = d.slot
  PROVE  Stays(e)
<1>1. CASE e = d
  BY <1>1 DEF Replace, Stays
<1>2. CASE e # d
  BY <1>2 DEF Replace, Stays
<1>3. QED
  BY <1>1, <1>2

\* No step of the cache moves or evicts a locked expert.
LEMMA LockedStep ==
  ASSUME CacheInv, [Next]_vars, NEW e \in residents, e.locks > 0
  PROVE  Stays(e)
<1> USE DEF CacheInv, TypeOK
<1>0. ASSUME residents \subseteq residents'
      PROVE  Stays(e)
  BY <1>0 DEF Stays
<1>1. ASSUME NEW k \in Keys, NEW zone \in {"stable", "streaming"}, NEW dup \in YesNo,
             reserve(k, zone, dup)
      PROVE  Stays(e)
  BY <1>0, <1>1 DEF reserve
<1>2. ASSUME NEW d \in residents,
             \/ \E c \in Components : mark_ready(d, c)
             \/ mark_all_ready(d) \/ lock(d) \/ unlock(d) \/ promote(d) \/ demote(d)
      PROVE  Stays(e)
  <2> DEFINE Same(f) == f.key = d.key /\ f.home = d.home /\ f.slot = d.slot
  <2>0. d \in CacheEntry
    BY DEF CacheEntry
  <2>1. ASSUME NEW c \in Components, mark_ready(d, c)
        PROVE  Stays(e)
    <3>1. Replace(d, [d EXCEPT !.ready = @ \cup {c}])
      BY <2>1 DEF mark_ready
    <3>2. Same([d EXCEPT !.ready = @ \cup {c}])
      BY <2>0 DEF CacheEntry
    <3>3. QED
      BY <3>1, <3>2, ReplacedStays
  <2>2. ASSUME mark_all_ready(d)
        PROVE  Stays(e)
    <3>1. Replace(d, [d EXCEPT !.ready = Components])
      BY <2>2 DEF mark_all_ready
    <3>2. Same([d EXCEPT !.ready = Components])
      BY <2>0 DEF CacheEntry
    <3>3. QED
      BY <3>1, <3>2, ReplacedStays
  <2>3. ASSUME lock(d)
        PROVE  Stays(e)
    <3>1. Replace(d, [d EXCEPT !.locks = @ + 1])
      BY <2>3 DEF lock
    <3>2. Same([d EXCEPT !.locks = @ + 1])
      BY <2>0 DEF CacheEntry
    <3>3. QED
      BY <3>1, <3>2, ReplacedStays
  <2>4. ASSUME unlock(d)
        PROVE  Stays(e)
    <3>1. Replace(d, [d EXCEPT !.locks = @ - 1])
      BY <2>4 DEF unlock
    <3>2. Same([d EXCEPT !.locks = @ - 1])
      BY <2>0 DEF CacheEntry
    <3>3. QED
      BY <3>1, <3>2, ReplacedStays
  <2>5. ASSUME promote(d)
        PROVE  Stays(e)
    <3>1. Replace(d, [d EXCEPT !.zone = "stable"])
      BY <2>5 DEF promote
    <3>2. Same([d EXCEPT !.zone = "stable"])
      BY <2>0 DEF CacheEntry
    <3>3. QED
      BY <3>1, <3>2, ReplacedStays
  <2>6. ASSUME demote(d)
        PROVE  Stays(e)
    <3>1. Replace(d, [d EXCEPT !.zone = "streaming"])
      BY <2>6 DEF demote
    <3>2. Same([d EXCEPT !.zone = "streaming"])
      BY <2>0 DEF CacheEntry
    <3>3. QED
      BY <3>1, <3>2, ReplacedStays
  <2>7. QED
    BY <1>2, <2>1, <2>2, <2>3, <2>4, <2>5, <2>6
<1>3. ASSUME NEW d \in residents, evict(d)
      PROVE  Stays(e)
  <2>1. e # d
    BY <1>3 DEF evict
  <2>2. e \in residents'
    BY <1>3, <2>1 DEF evict
  <2>3. QED
    BY <2>2 DEF Stays
<1>4. CASE enter_spill_mode
  <2>1. e \notin Spilled
    BY DEF Spilled
  <2>2. e \in residents'
    BY <1>4, <2>1 DEF enter_spill_mode
  <2>3. QED
    BY <2>2 DEF Stays
<1>5. ASSUME UNCHANGED residents
      PROVE  Stays(e)
  BY <1>0, <1>5
<1>6. ASSUME NEW n \in GrantSizes, add_elastic_zone(n)
      PROVE  Stays(e)
  BY <1>5, <1>6 DEF add_elastic_zone
<1>7. ASSUME NEW z \in ZoneIds, begin_drain_elastic_zone(z) \/ remove_elastic_zone(z)
      PROVE  Stays(e)
  BY <1>5, <1>7 DEF begin_drain_elastic_zone, remove_elastic_zone
<1>8. CASE exit_spill_mode \/ ensure_evict_board \/ ensure_reef_service
  BY <1>5, <1>8 DEF exit_spill_mode, ensure_evict_board, ensure_reef_service
<1>9. CASE UNCHANGED vars
  BY <1>5, <1>9 DEF vars
<1>10. QED
  BY <1>1, <1>2, <1>3, <1>4, <1>6, <1>7, <1>8, <1>9 DEF Next

\* A locked expert stays in its slot through evictions, spill mode and zone drains, for
\* any number of experts, slots and zones (lock / evict / enter_spill_mode).
THEOREM LockSafety ==
  Spec => LockedStays
<1>1. CacheInv /\ [Next]_vars =>
        [\A e \in residents : e.locks > 0 =>
           \E f \in residents' : f.key = e.key /\ f.home = e.home /\ f.slot = e.slot]_vars
  BY LockedStep DEF Stays
<1>2. Spec => []CacheInv
  BY CacheInvariant
<1>3. QED
  BY <1>1, <1>2, PTL DEF Spec, LockedStays
===============================================================================
