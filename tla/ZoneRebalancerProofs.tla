-------------------------- MODULE ZoneRebalancerProofs --------------------------
(***************************************************************************)
(* Proofs about ZoneRebalancer, for any number of GPUs, slabs and slots,   *)
(* any marks, admissions and depth of the streams.                         *)
(***************************************************************************)
EXTENDS ZoneRebalancer, FiniteSetTheorems, WellFoundedInduction, NaturalsInduction, TLAPS

SlotStates == {"free", "arriving", "ready"}
Zone  == [draining : {"yes", "no"}, slots : Seq(SlotStates)]
Copy  == [id : Ids, slot : Nat, live : {"yes", "no"}]
Moe   == [state : {"idle", "locked", "pending", "active"},
          locked : SUBSET (Gpus \X Ids \X Nat), on : Gpus, ahead : 0..StreamDepth]

ZonesType(zs) ==
  /\ DOMAIN zs = Gpus
  /\ \A g \in Gpus : DOMAIN zs[g] \subseteq Ids /\ zs[g] \in [DOMAIN zs[g] -> Zone]

StreamsType ==
  /\ h2d \in [Gpus -> Seq(Copy)] /\ ffn \in [Gpus -> Seq(SUBSET Ids)]
  /\ \A g \in Gpus : Len(h2d[g]) <= StreamDepth /\ Len(ffn[g]) <= StreamDepth

\* The state as the steps need it, in more detail than TypeOK.
Types ==
  /\ slab \in [Gpus -> [Ids -> {"free", "kv", "state", "zone"}]]
  /\ ZonesType(zones) /\ StreamsType
  /\ grants_ \in Seq(GrantType) /\ moe \in Moe
  /\ cooldown \in 0..CooldownTicks /\ eager \in {Unarmed} \cup 0..Slabs
  /\ waiting \in {0} \cup Prompts /\ stage \in {"loop", "pressure", "grant"}

\* A copy on a stream goes to a zone; while it is live its slot waits for it, and
\* for no other.
CopiesOwn(zs, st) ==
  \A g \in Gpus :
    /\ \A k \in 1..Len(st[g]) :
         /\ st[g][k].id \in DOMAIN zs[g]
         /\ st[g][k].live = "yes" =>
              /\ st[g][k].slot \in DOMAIN zs[g][st[g][k].id].slots
              /\ zs[g][st[g][k].id].slots[st[g][k].slot] = "arriving"
    /\ \A j, k \in 1..Len(st[g]) :
         /\ st[g][j].live = "yes" /\ st[g][k].live = "yes"
         /\ st[g][j].id = st[g][k].id /\ st[g][j].slot = st[g][k].slot
         => j = k

\* A kernel on a stream reads zones.
KernelsOwn == \A g \in Gpus : \A k \in 1..Len(ffn[g]) : ffn[g][k] \subseteq DOMAIN zones[g]

\* What the reclaim of a grant has achieved: from the drain on nothing is
\* reserved in its zones; once it has its barriers they are empty, and what still
\* goes to them or reads them is ahead of the barriers.
FencedBy(zs, a, r) ==
  /\ a.st # "leaked"
  /\ a.st # "active" => zs[r][a.start].draining = "yes"
  /\ a.st = "barrier" =>
       /\ Residents(zs, r, a.start) = {}
       /\ \A k \in 1..Len(h2d[r]) : h2d[r][k].id = a.start => k <= a.h2d[r]
       /\ \A k \in 1..Len(ffn[r]) : a.start \in ffn[r][k] => k <= a.ffn[r]

Fenced == \A i \in 1..Len(grants_) : \A r \in Gpus : FencedBy(zones, grants_[i], r)

ZoneSound ==
  Types /\ LentExactly /\ CopiesOwn(zones, h2d) /\ KernelsOwn /\ Fenced /\ LockedStays

-------------------------------------------------------------------------------
(* Numbers that the code finds by searching.                               *)

\* A set of numbers has a least one.
LEMMA LeastOf ==
  ASSUME NEW T, T \subseteq Nat, T # {}
  PROVE  \E m \in T : \A y \in T : m <= y
<1>1. PICK m \in T : \A y \in T : ~ (<<y, m>> \in OpToRel(<, Nat))
  BY NatLessThanWellFounded, WFMin
<1>2. ASSUME NEW y \in T PROVE m <= y
  <2>1. y \in Nat /\ m \in Nat
    OBVIOUS
  <2>2. ~ (y < m)
    BY <1>1, <2>1 DEF OpToRel
  <2> QED  BY <2>1, <2>2
<1> QED  BY <1>2

\* A set of integers between two bounds has a least and a greatest member.
LEMMA Extremes ==
  ASSUME NEW lo \in Int, NEW hi \in Int, NEW S, S \subseteq lo..hi, S # {}
  PROVE  /\ \E m \in S : \A y \in S : m <= y
         /\ \E m \in S : \A y \in S : y <= m
<1>1. \E m \in S : \A y \in S : m <= y
  <2> DEFINE T == {y - lo : y \in S}
  <2>1. T \subseteq Nat /\ T # {}
    <3>1. \A y \in S : y - lo \in Nat
      OBVIOUS
    <3>2. T \subseteq Nat
      BY <3>1
    <3>3. T # {}
      BY Zenon
    <3> QED  BY <3>2, <3>3
  <2>2. PICK n \in T : \A y \in T : n <= y
    BY <2>1, LeastOf, Zenon
  <2>3. PICK m \in S : n = m - lo
    OBVIOUS
  <2>4. \A y \in S : y \in Int /\ y - lo \in T
    OBVIOUS
  <2> HIDE DEF T
  <2>5. m \in Int
    BY <2>4
  <2>6. ASSUME NEW y \in S PROVE m <= y
    <3>1. m - lo <= y - lo
      BY <2>2, <2>3, <2>4
    <3> QED  BY <2>4, <2>5, <3>1
  <2> QED  BY <2>6
<1>2. \E m \in S : \A y \in S : y <= m
  <2> DEFINE T == {hi - y : y \in S}
  <2>1. T \subseteq Nat /\ T # {}
    OBVIOUS
  <2>2. PICK n \in T : \A y \in T : n <= y
    BY <2>1, LeastOf, Zenon
  <2>3. PICK m \in S : n = hi - m
    OBVIOUS
  <2>4. \A y \in S : y \in Int /\ hi - y \in T
    OBVIOUS
  <2> HIDE DEF T
  <2>5. m \in Int
    BY <2>4
  <2>6. ASSUME NEW y \in S PROVE y <= m
    <3>1. hi - m <= hi - y
      BY <2>2, <2>3, <2>4
    <3> QED  BY <2>4, <2>5, <3>1
  <2> QED  BY <2>6
<1> QED  BY <1>1, <1>2

LEMMA FreeCount ==
  ASSUME NEW sl, NEW g
  PROVE  IsFiniteSet(Free(sl, g)) /\ Cardinality(Free(sl, g)) \in 0..Slabs
<1>1. IsFiniteSet(Ids) /\ Cardinality(Ids) = Slabs
  <2>1. 0 \in Int /\ Slabs - 1 \in Int /\ ~ (0 > Slabs - 1)
    BY RebalancerAssumption
  <2>2. IsFiniteSet(0..(Slabs - 1))
        /\ Cardinality(0..(Slabs - 1)) = IF 0 > Slabs - 1 THEN 0 ELSE (Slabs - 1) - 0 + 1
    BY <2>1, FS_Interval, Zenon
  <2> QED  BY <2>1, <2>2, RebalancerAssumption DEF Ids
<1>2. Free(sl, g) \in SUBSET Ids
  BY DEF Free
<1>3. IsFiniteSet(Free(sl, g)) /\ Cardinality(Free(sl, g)) <= Cardinality(Ids)
  BY <1>1, <1>2, FS_Subset
<1>4. Cardinality(Free(sl, g)) \in Nat
  BY <1>3, FS_CardinalityType
<1> QED  BY <1>1, <1>3, <1>4, RebalancerAssumption

LEMMA MinFreeType == ASSUME NEW sl PROVE min_free_slabs(sl) \in 0..Slabs
<1> DEFINE T == {Cardinality(Free(sl, g)) : g \in Gpus}
<1>1. T \subseteq Nat /\ T \subseteq 0..Slabs
  BY FreeCount, RebalancerAssumption
<1>2. 1 \in Gpus
  BY RebalancerAssumption DEF Gpus
<1>3. T # {}
  BY <1>2
<1>4. PICK m \in T : \A y \in T : m <= y
  BY <1>1, <1>3, LeastOf, Zenon
<1>5. m \in 0..Slabs /\ \E g \in Gpus : Cardinality(Free(sl, g)) = m
  BY <1>1
<1>6. \A g \in Gpus : Cardinality(Free(sl, g)) \in T /\ Cardinality(Free(sl, g)) \in 0..Slabs
  BY <1>1
<1>7. \A g \in Gpus : Cardinality(Free(sl, g)) >= m
  BY <1>1, <1>4, <1>5, <1>6, RebalancerAssumption
<1> QED  BY <1>5, <1>7, Zenon DEF min_free_slabs

LEMMA LargestRunType == ASSUME NEW g PROVE largest_free_run(g) \in 0..Slabs
<1> DEFINE T == {n \in Nat : Runs(g, n + 1) = {}}
<1>1. Slabs \in T
  BY RebalancerAssumption DEF Runs, Ids
<1>2. PICK m \in T : \A y \in T : m <= y
  BY <1>1, LeastOf
<1>3. m \in 0..Slabs /\ Runs(g, m + 1) = {}
  BY <1>1, <1>2, RebalancerAssumption
<1>4. m = 0 \/ Runs(g, m) # {}
  <2>1. SUFFICES ASSUME m # 0, Runs(g, m) = {} PROVE FALSE
    OBVIOUS
  <2>2. m - 1 \in Nat /\ (m - 1) + 1 = m /\ ~ (m <= m - 1)
    BY <1>3, <2>1
  <2>3. m - 1 \in T
    BY <2>1, <2>2
  <2> QED  BY <1>2, <2>2, <2>3
<1> QED  BY <1>3, <1>4, Zenon DEF largest_free_run

LEMMA DivType == ASSUME NEW a \in Int, NEW b \in Int, b > 0 PROVE a \div b \in Int
OBVIOUS

LEMMA StrideType == slot_stride \in Int /\ slot_stride > 0
<1> DEFINE q == (SlotBytes + Align - 1) \div Align
<1>1. /\ SlotBytes \in Nat /\ Align \in Nat /\ Align > 1 /\ SlotBytes > 0
  BY GeometryAssumption
<1>2. q \in Int
  BY <1>1, DivType
<1>3. q >= 1
  BY <1>1, <1>2
<1> HIDE DEF q
<1>4. q * Align \in Int /\ q * Align > 0
  <2>1. q = 1 \/ q - 1 >= 1
    BY <1>2, <1>3
  <2> QED  BY <1>1, <1>2, <1>3
<1> QED  BY <1>4 DEF slot_stride, q

LEMMA SlotsInType ==
  ASSUME NEW s \in Int, NEW mis \in Int
  PROVE  slots_in(s, mis) \in Int
<1>1. /\ SlotBytes \in Int /\ SlabBytes \in Int /\ Align \in Int
  BY GeometryAssumption
<1>2. usable(s, mis) \in Int
  <2>1. s * SlabBytes \in Int
    BY <1>1
  <2> QED  BY <1>1, <2>1 DEF usable, capacity_bytes, base_pad
<1>3. (usable(s, mis) - SlotBytes) \div slot_stride \in Int
  BY <1>1, <1>2, StrideType, DivType
<1> QED  BY <1>3 DEF slots_in

LEMMA BestFitType == ASSUME NEW run \in Int PROVE best_fit(run, Worst) \in Int
<1> DEFINE fits == {n \in 1..slots_in(run, Worst) :
                      /\ slabs_for_slots(n, Worst) <= run
                      /\ WithinWaste(slabs_for_slots(n, Worst), n)}
<1>1. slots_in(run, Worst) \in Int
  BY SlotsInType DEF Worst
<1>2. fits \subseteq 1..slots_in(run, Worst) /\ fits \subseteq Int
  OBVIOUS
<1>3. best_fit(run, Worst) = IF fits = {} THEN 0 ELSE CHOOSE n \in fits : \A m \in fits : m <= n
  BY Zenon DEF best_fit
<1> HIDE DEF fits
<1>4. CASE fits # {}
  <2>1. \E n \in fits : \A m \in fits : m <= n
    <3>1. 1 \in Int
      OBVIOUS
    <3> QED  BY <1>1, <1>2, <1>4, <3>1, Extremes, Zenon
  <2>2. (CHOOSE n \in fits : \A m \in fits : m <= n) \in fits
    BY <2>1, Zenon
  <2> QED  BY <1>2, <1>3, <1>4, <2>2
<1> QED  BY <1>3, <1>4

LEMMA GrantSlabsType ==
  ASSUME NEW ask \in Int, NEW run \in Int
  PROVE  grant_slabs(ask, run) \in Int
<1> DEFINE good == {s \in slabs_for_slots(ask, Worst)..run : admissible(s, Worst)}
<1>1. slabs_for_slots(ask, Worst) \in Int
  <2>1. /\ SlotBytes \in Int /\ SlabBytes \in Int /\ Align \in Int /\ SlabBytes > 0
    BY GeometryAssumption
  <2>2. base_pad(Worst) \in Int /\ (ask - 1) * slot_stride \in Int
    BY <2>1, StrideType DEF base_pad, Worst
  <2>3. base_pad(Worst) + (ask - 1) * slot_stride + SlotBytes + SlabBytes - 1 \in Int
    BY <2>1, <2>2
  <2> QED  BY <2>1, <2>3, DivType DEF slabs_for_slots
<1>2. good \subseteq slabs_for_slots(ask, Worst)..run /\ good \subseteq Int
  BY <1>1
<1>3. grant_slabs(ask, run) =
        IF ask < 1 \/ run < 1 \/ good = {} THEN 0 ELSE CHOOSE s \in good : \A r \in good : s <= r
  BY Zenon DEF grant_slabs
<1> HIDE DEF good
<1>4. CASE good # {}
  <2>1. \E s \in good : \A r \in good : s <= r
    BY <1>1, <1>2, <1>4, Extremes, Zenon
  <2> DEFINE least == CHOOSE s \in good : \A r \in good : s <= r
  <2>2. least \in good
    BY <2>1, Zenon
  <2>3. grant_slabs(ask, run) = IF ask < 1 \/ run < 1 \/ good = {} THEN 0 ELSE least
    BY <1>3
  <2> HIDE DEF least
  <2> QED  BY <1>2, <2>2, <2>3
<1> QED  BY <1>3, <1>4

LEMMA FloorType == grant_floor_slabs \in Int /\ High \in Int /\ Low \in Int
<1> DEFINE ask == MinOf(MaxSlots, best_fit(Slabs, Worst))
<1>1. Slabs \in Int /\ best_fit(Slabs, Worst) \in Int
  BY BestFitType, RebalancerAssumption
<1>2. ask \in Int
  BY <1>1, RebalancerAssumption DEF MinOf
<1> HIDE DEF ask
<1>3. grant_slabs(ask, Slabs) \in Int
  BY <1>1, <1>2, GrantSlabsType
<1>4. TwoGrants \in Int
  BY <1>3 DEF TwoGrants, ask
<1>5. Concurrency * (Transient + Growth) \in Int
  BY RebalancerAssumption
<1>6. Low \in Int
  BY <1>5, RebalancerAssumption DEF Low, MaxOf
<1>7. Band \in Int
  BY <1>4, RebalancerAssumption DEF Band, MaxOf
<1>8. High \in Int
  BY <1>6, <1>7, RebalancerAssumption DEF High, MaxOf
<1> QED  BY <1>6, <1>8, RebalancerAssumption DEF grant_floor_slabs, MaxOf

LEMMA AskType == Ask \in Int
<1> DEFINE run == MinOf(largest_free_run(1), min_free_slabs(slab) - grant_floor_slabs)
<1>1. run \in Int
  BY LargestRunType, MinFreeType, FloorType, RebalancerAssumption DEF MinOf
<1>2. Ask = IF run <= 0 THEN 0 ELSE grant_slabs(MinOf(best_fit(run, Worst), MaxSlots), run)
  BY Zenon DEF Ask
<1> HIDE DEF run
<1>3. MinOf(best_fit(run, Worst), MaxSlots) \in Int
  BY <1>1, BestFitType, RebalancerAssumption DEF MinOf
<1>4. grant_slabs(MinOf(best_fit(run, Worst), MaxSlots), run) \in Int
  BY <1>1, <1>3, GrantSlabsType
<1> QED  BY <1>2, <1>4

-------------------------------------------------------------------------------
(* Erasing from the vector of grants.                                      *)

\* The positions of K have different ranks in K, and all ranks occur.
LEMMA Ranks1 ==
  ASSUME NEW n \in Nat, NEW K, K \subseteq 1..n
  PROVE  /\ IsFiniteSet(K) /\ Cardinality(K) \in Nat
         /\ \A i \in K : Cardinality({k \in K : k <= i}) \in 1..Cardinality(K)
         /\ \A i, j \in K : Cardinality({k \in K : k <= i}) = Cardinality({k \in K : k <= j}) => i = j
         /\ \A m \in 1..Cardinality(K) : \E i \in K : Cardinality({k \in K : k <= i}) = m
<1> DEFINE upto(i) == {k \in K : k <= i}
           f == [i \in K |-> Cardinality(upto(i))]
<1>1. IsFiniteSet(1..n)
  <2>1. 1 \in Int /\ n \in Int
    OBVIOUS
  <2> QED  BY <2>1, FS_Interval, Zenon
<1>2. IsFiniteSet(K) /\ Cardinality(K) \in Nat
  <2>1. K \in SUBSET (1..n)
    OBVIOUS
  <2>2. IsFiniteSet(K)
    BY <1>1, <2>1, FS_Subset
  <2> QED  BY <2>2, FS_CardinalityType
<1>3. ASSUME NEW i PROVE upto(i) \in SUBSET K /\ IsFiniteSet(upto(i)) /\ Cardinality(upto(i)) \in Nat
                         /\ Cardinality(upto(i)) <= Cardinality(K)
  <2>1. upto(i) \in SUBSET K
    OBVIOUS
  <2>2. IsFiniteSet(upto(i)) /\ Cardinality(upto(i)) <= Cardinality(K)
    BY <1>2, <2>1, FS_Subset
  <2> QED  BY <2>1, <2>2, FS_CardinalityType
<1>4. ASSUME NEW i \in K PROVE Cardinality(upto(i)) \in 1..Cardinality(K)
  <2>1. i \in upto(i)
    OBVIOUS
  <2>2. Cardinality(upto(i)) # 0
    BY <1>3, <2>1, FS_EmptySet
  <2>3. Cardinality(upto(i)) \in Nat /\ Cardinality(upto(i)) <= Cardinality(K)
    BY <1>3
  <2> HIDE DEF upto
  <2> QED  BY <1>2, <2>2, <2>3
<1>5. ASSUME NEW i \in K, NEW j \in K, i < j PROVE Cardinality(upto(i)) # Cardinality(upto(j))
  <2>1. i \in Int /\ j \in Int
    OBVIOUS
  <2>2. upto(i) \in SUBSET upto(j) /\ j \in upto(j) /\ j \notin upto(i)
    <3>1. \A k \in K : k \in Int
      OBVIOUS
    <3>2. \A k \in K : k <= i => k <= j
      BY <1>5, <3>1
    <3>3. j <= j /\ ~ (j <= i)
      BY <1>5, <2>1
    <3> QED  BY <3>2, <3>3, Zenon
  <2>3. IsFiniteSet(upto(j))
    BY <1>3
  <2> HIDE DEF upto
  <2> QED  BY <2>2, <2>3, FS_Subset
<1>6. ASSUME NEW i \in K, NEW j \in K, Cardinality(upto(i)) = Cardinality(upto(j)) PROVE i = j
  <2>1. i \in Int /\ j \in Int
    OBVIOUS
  <2>2. i < j \/ j < i \/ i = j
    BY <2>1
  <2> HIDE DEF upto
  <2> QED  BY <1>5, <1>6, <2>2
<1>7. f \in Injection(K, 1..Cardinality(K))
  <2> HIDE DEF upto
  <2>1. f \in [K -> 1..Cardinality(K)]
    BY <1>4
  <2>2. \A i, j \in K : f[i] = f[j] => i = j
    BY <1>6
  <2> HIDE DEF f
  <2> QED  BY <2>1, <2>2 DEF Injection, IsInjective
<1>8. f \in Surjection(K, 1..Cardinality(K))
  <2> DEFINE c == Cardinality(K)
  <2>1. 1 \in Int /\ c \in Int
    BY <1>2
  <2>2. IsFiniteSet(1..c) /\ Cardinality(1..c) = IF 1 > c THEN 0 ELSE c - 1 + 1
    BY <2>1, FS_Interval, Zenon
  <2>3. c \in Nat
    BY <1>2
  <2>4. Cardinality(1..c) = c
    <3> HIDE DEF c
    <3> QED  BY <2>2, <2>3
  <2>5. f \in Injection(K, 1..c)
    BY <1>7
  <2>6. Cardinality(K) = Cardinality(1..c)
    BY <2>4
  <2> HIDE DEF f, c
  <2>7. f \in Surjection(K, 1..c)
    BY <2>2, <2>5, <2>6, FS_Injection
  <2> QED  BY <2>7 DEF c
<1>9. ASSUME NEW m \in 1..Cardinality(K) PROVE \E i \in K : Cardinality(upto(i)) = m
  <2>1. \E i \in K : f[i] = m
    <3> HIDE DEF f
    <3> QED  BY <1>8 DEF Surjection
  <2> QED  BY <2>1
<1> QED  BY <1>2, <1>4, <1>6, <1>9

\* s is made of the elements of q at the positions of K, each once: p tells where
\* they were.
Erased(q, K, s, p) ==
  /\ p \in [1..Len(s) -> K]
  /\ \A m \in 1..Len(s) : s[m] = q[p[m]]
  /\ \A m, l \in 1..Len(s) : p[m] = p[l] => m = l
  /\ \A i \in K : \E m \in 1..Len(s) : p[m] = i

LEMMA InOrderKeeps ==
  ASSUME NEW A, NEW q \in Seq(A), NEW K, K \subseteq 1..Len(q)
  PROVE  InOrder(q, K) \in Seq(A) /\ \E p : Erased(q, K, InOrder(q, K), p)
<1> DEFINE c == Cardinality(K)
           rank(i) == Cardinality({k \in K : k <= i})
           at(m) == CHOOSE i \in K : rank(i) = m
           p == [m \in 1..c |-> at(m)]
           s == InOrder(q, K)
<1>0. Len(q) \in Nat
  OBVIOUS
<1>1. /\ c \in Nat
      /\ \A i \in K : rank(i) \in 1..c
      /\ \A i, j \in K : rank(i) = rank(j) => i = j
      /\ \A m \in 1..c : \E i \in K : rank(i) = m
  BY <1>0, Ranks1
<1>2. s = [m \in 1..c |-> q[at(m)]]
  BY DEF InOrder
<1> HIDE DEF c, rank
<1>3. ASSUME NEW m \in 1..c PROVE at(m) \in K /\ rank(at(m)) = m
  BY <1>1, Zenon
<1> HIDE DEF at, s
<1>4. ASSUME NEW m \in 1..c PROVE q[at(m)] \in A
  <2>1. \A i \in 1..Len(q) : q[i] \in A
    OBVIOUS
  <2>2. at(m) \in 1..Len(q)
    BY <1>3
  <2> QED  BY <2>1, <2>2
<1>5. s \in Seq(A) /\ Len(s) = c
  BY <1>1, <1>2, <1>4
<1>6. p \in [1..c -> K] /\ \A m \in 1..c : s[m] = q[p[m]]
  BY <1>2, <1>3
<1>7. \A m, l \in 1..c : p[m] = p[l] => m = l
  BY <1>3
<1>8. ASSUME NEW i \in K PROVE \E m \in 1..c : p[m] = i
  <2>1. rank(i) \in 1..c
    BY <1>1
  <2>2. at(rank(i)) \in K /\ rank(at(rank(i))) = rank(i)
    BY <1>3, <2>1
  <2>3. at(rank(i)) = i
    BY <1>1, <2>2
  <2> QED  BY <2>1, <2>3
<1> HIDE DEF p
<1>9. Erased(q, K, s, p)
  BY <1>5, <1>6, <1>7, <1>8 DEF Erased
<1> QED  BY <1>5, <1>9 DEF s

-------------------------------------------------------------------------------
(* What the invariant says, and where it begins.                           *)

\* The slabs of a grant are lent on every GPU, and are its own.
LEMMA LentSlabs ==
  ASSUME Types, LentExactly, NEW g \in Gpus, NEW id \in DOMAIN zones[g]
  PROVE  slab[g][id] = "zone"
<1>1. PICK i \in DOMAIN grants_ : id = grants_[i].start
  BY DEF LentExactly
<1>2. grants_[i] \in GrantType
  BY <1>1 DEF Types
<1>3. id \in Span(grants_[i])
  BY <1>1, <1>2, RebalancerAssumption DEF GrantType, Span, Ids
<1>4. id \in {s \in Ids : slab[g][s] = "zone"}
  BY <1>1, <1>3 DEF LentExactly
<1> QED  BY <1>4

LEMMA SoundParts == ZoneSound => ZoneInv /\ HandbackQuiet
<1> SUFFICES ASSUME ZoneSound PROVE ZoneInv /\ HandbackQuiet
  OBVIOUS
<1>0. Types /\ LentExactly /\ CopiesOwn(zones, h2d) /\ KernelsOwn /\ Fenced /\ LockedStays
  BY DEF ZoneSound
<1>1. TypeOK
  <2>1. \A g \in Gpus : DOMAIN zones[g] \subseteq Ids
    BY <1>0 DEF Types, ZonesType
  <2>2. ASSUME NEW g \in Gpus, NEW id \in DOMAIN zones[g]
        PROVE  /\ zones[g][id].draining \in {"yes", "no"}
               /\ ToSet(zones[g][id].slots) \subseteq {"free", "arriving", "ready"}
    <3>1. zones[g][id] \in Zone
      BY <1>0 DEF Types, ZonesType
    <3>2. zones[g][id].draining \in {"yes", "no"} /\ zones[g][id].slots \in Seq(SlotStates)
      BY <3>1 DEF Zone
    <3>3. \A j \in DOMAIN zones[g][id].slots : zones[g][id].slots[j] \in SlotStates
      BY <3>2
    <3> QED  BY <3>2, <3>3 DEF ToSet, SlotStates
  <2>3. \A i \in DOMAIN grants_ : grants_[i] \in GrantType
    BY <1>0 DEF Types
  <2>4. moe.state \in {"idle", "locked", "pending", "active"} /\ moe.ahead \in 0..StreamDepth
    BY <1>0 DEF Types, Moe
  <2> QED  BY <1>0, <2>1, <2>2, <2>3, <2>4 DEF TypeOK, Types
<1>2. NothingLeaks
  <2>1. 1 \in Gpus
    BY RebalancerAssumption DEF Gpus
  <2>2. DOMAIN grants_ = 1..Len(grants_)
    BY <1>0 DEF Types
  <2> QED  BY <1>0, <2>1, <2>2 DEF NothingLeaks, Fenced, FencedBy
<1>3. HandbackQuiet
  <2>1. ASSUME NEW g \in Gpus
        PROVE  /\ \A k \in DOMAIN h2d[g] : slab[g][h2d[g][k].id] = "zone"
               /\ \A k \in DOMAIN ffn[g] : \A id \in ffn[g][k] : slab[g][id] = "zone"
    <3>1. DOMAIN h2d[g] = 1..Len(h2d[g]) /\ DOMAIN ffn[g] = 1..Len(ffn[g])
      BY <1>0 DEF Types, StreamsType
    <3>2. \A k \in 1..Len(h2d[g]) : h2d[g][k].id \in DOMAIN zones[g]
      BY <1>0 DEF CopiesOwn
    <3>3. \A k \in 1..Len(ffn[g]) : \A id \in ffn[g][k] : id \in DOMAIN zones[g]
      BY <1>0 DEF KernelsOwn
    <3> QED  BY <1>0, <3>1, <3>2, <3>3, LentSlabs
  <2> QED  BY <2>1 DEF HandbackQuiet
<1> QED  BY <1>0, <1>1, <1>2, <1>3 DEF ZoneInv

LEMMA InitSound == Init => ZoneSound
<1> SUFFICES ASSUME Init PROVE ZoneSound
  OBVIOUS
<1>1. Types
  <2>1. ZonesType(zones)
    BY DEF Init, ZonesType
  <2>2. StreamsType
    BY RebalancerAssumption DEF Init, StreamsType
  <2>3. moe \in Moe
    BY RebalancerAssumption DEF Init, NoMoe, Moe, Gpus
  <2>4. grants_ \in Seq(GrantType)
    BY DEF Init
  <2>5. slab \in [Gpus -> [Ids -> {"free", "kv", "state", "zone"}]]
    BY DEF Init
  <2>6. cooldown \in 0..CooldownTicks /\ eager \in {Unarmed} \cup 0..Slabs
    BY RebalancerAssumption DEF Init
  <2> QED  BY <2>1, <2>2, <2>3, <2>4, <2>5, <2>6 DEF Init, Types
<1>2. LentExactly
  BY DEF Init, LentExactly
<1>3. CopiesOwn(zones, h2d) /\ KernelsOwn /\ Fenced
  BY DEF Init, CopiesOwn, KernelsOwn, Fenced
<1>4. LockedStays
  BY DEF Init, NoMoe, LockedStays
<1> QED  BY <1>1, <1>2, <1>3, <1>4 DEF ZoneSound

-------------------------------------------------------------------------------
(* KV and the dispatch.                                                    *)

\* Slabs that are not lent change hands.
LEMMA SlabStep ==
  ASSUME ZoneSound, UNCHANGED <<zones, grants_, cooldown, stage, h2d, ffn, moe>>,
         slab' \in [Gpus -> [Ids -> {"free", "kv", "state", "zone"}]],
         \A g \in Gpus, s \in Ids : slab'[g][s] = "zone" <=> slab[g][s] = "zone",
         eager' \in {Unarmed} \cup 0..Slabs, waiting' \in {0} \cup Prompts
  PROVE  ZoneSound'
<1>1. Types'
  BY DEF ZoneSound, Types, StreamsType, ZonesType
<1>2. LentExactly'
  <2>1. \A g \in Gpus : {s \in Ids : slab'[g][s] = "zone"} = {s \in Ids : slab[g][s] = "zone"}
    OBVIOUS
  <2> QED  BY <2>1 DEF ZoneSound, LentExactly, Span
<1>3. CopiesOwn(zones, h2d)' /\ KernelsOwn' /\ Fenced' /\ LockedStays'
  <2>1. CopiesOwn(zones, h2d)'
    BY DEF ZoneSound, CopiesOwn
  <2>2. KernelsOwn'
    BY DEF ZoneSound, KernelsOwn
  <2>3. Fenced'
    BY DEF ZoneSound, Fenced, FencedBy, Residents
  <2>4. LockedStays'
    BY DEF ZoneSound, LockedStays, ReadySlots
  <2> QED  BY <2>1, <2>2, <2>3, <2>4
<1> QED  BY <1>1, <1>2, <1>3 DEF ZoneSound

LEMMA KvSound == ASSUME ZoneSound, Kv PROVE ZoneSound'
<1> USE DEF streamVars
<1>1. /\ slab \in [Gpus -> [Ids -> {"free", "kv", "state", "zone"}]]
      /\ eager \in {Unarmed} \cup 0..Slabs /\ waiting \in {0} \cup Prompts
  BY DEF ZoneSound, Types
<1>2. ASSUME NEW g \in Gpus, allocate_kda_state(g) PROVE ZoneSound'
  <2>1. PICK s \in Free(slab, g) : slab' = [slab EXCEPT ![g][s] = "state"]
    BY <1>2 DEF allocate_kda_state
  <2>2. s \in Ids /\ slab[g][s] = "free"
    BY DEF Free
  <2>3. slab' \in [Gpus -> [Ids -> {"free", "kv", "state", "zone"}]]
    BY <1>1, <2>1, <2>2
  <2>4. \A h \in Gpus, t \in Ids : slab'[h][t] = "zone" <=> slab[h][t] = "zone"
    BY <1>1, <2>1, <2>2
  <2> QED  BY <1>1, <1>2, <2>3, <2>4, SlabStep DEF allocate_kda_state
<1>3. ASSUME NEW g \in Gpus, NEW s \in Ids, side_release(g, s) PROVE ZoneSound'
  <2>1. slab' = [slab EXCEPT ![g][s] = "free"] /\ slab[g][s] = "state"
    BY <1>3 DEF side_release
  <2>2. slab' \in [Gpus -> [Ids -> {"free", "kv", "state", "zone"}]]
    BY <1>1, <2>1
  <2>3. \A h \in Gpus, t \in Ids : slab'[h][t] = "zone" <=> slab[h][t] = "zone"
    BY <1>1, <2>1
  <2> QED  BY <1>1, <1>3, <2>2, <2>3, SlabStep DEF side_release
<1>4. ASSUME NEW S, NEW what \in {"free", "kv"}, \A g \in Gpus : S[g] \subseteq Ids,
             \A g \in Gpus, s \in Ids : s \in S[g] => slab[g][s] # "zone",
             slab' = [g \in Gpus |-> Filled(slab, g, S[g], what)[g]]
      PROVE  /\ slab' \in [Gpus -> [Ids -> {"free", "kv", "state", "zone"}]]
             /\ \A g \in Gpus, s \in Ids : slab'[g][s] = "zone" <=> slab[g][s] = "zone"
  <2>1. \A g \in Gpus : Filled(slab, g, S[g], what)[g]
                        = [s \in Ids |-> IF s \in S[g] THEN what ELSE slab[g][s]]
    BY <1>1 DEF Filled
  <2>2. slab' = [g \in Gpus |-> [s \in Ids |-> IF s \in S[g] THEN what ELSE slab[g][s]]]
    BY <1>4, <2>1
  <2>3. slab' \in [Gpus -> [Ids -> {"free", "kv", "state", "zone"}]]
    BY <1>1, <2>2
  <2>4. \A g \in Gpus, s \in Ids : slab'[g][s] = IF s \in S[g] THEN what ELSE slab[g][s]
    BY <2>2
  <2> QED  BY <1>4, <2>3, <2>4
<1>5. ASSUME free_sequence PROVE ZoneSound'
  <2> DEFINE S == [g \in Gpus |-> Have(g, "kv")]
  <2>1. slab' = [g \in Gpus |-> Filled(slab, g, Have(g, "kv"), "free")[g]]
    BY <1>5 DEF free_sequence
  <2>2. slab' = [g \in Gpus |-> Filled(slab, g, S[g], "free")[g]]
    BY <2>1
  <2>3. /\ \A g \in Gpus : S[g] \subseteq Ids
        /\ \A g \in Gpus, s \in Ids : s \in S[g] => slab[g][s] # "zone"
    BY DEF Have
  <2> HIDE DEF S
  <2>4. /\ slab' \in [Gpus -> [Ids -> {"free", "kv", "state", "zone"}]]
        /\ \A g \in Gpus, s \in Ids : slab'[g][s] = "zone" <=> slab[g][s] = "zone"
    BY <1>4, <2>2, <2>3
  <2> QED  BY <1>1, <1>5, <2>4, SlabStep DEF free_sequence
<1>6. ASSUME NEW need \in Prompts, seq_create(need) PROVE ZoneSound'
  <2>1. min_free_slabs(slab) \in 0..Slabs /\ need \in 1..Slabs
    BY MinFreeType, RebalancerAssumption
  <2>2. CASE min_free_slabs(slab) >= need
    <3> DEFINE S == [g \in Gpus |-> Lowest(g, need)]
    <3>1. /\ slab' = [g \in Gpus |-> Filled(slab, g, Lowest(g, need), "kv")[g]]
          /\ waiting' = 0 /\ UNCHANGED eager
      BY <1>6, <2>2 DEF seq_create
    <3>2. slab' = [g \in Gpus |-> Filled(slab, g, S[g], "kv")[g]]
      BY <3>1
    <3>3. /\ \A g \in Gpus : S[g] \subseteq Ids
          /\ \A g \in Gpus, s \in Ids : s \in S[g] => slab[g][s] # "zone"
      BY DEF Lowest, Free
    <3> HIDE DEF S
    <3>4. /\ slab' \in [Gpus -> [Ids -> {"free", "kv", "state", "zone"}]]
          /\ \A g \in Gpus, s \in Ids : slab'[g][s] = "zone" <=> slab[g][s] = "zone"
      BY <1>4, <3>2, <3>3
    <3> QED  BY <1>1, <1>6, <3>1, <3>4, SlabStep DEF seq_create
  <2>3. CASE ~ (min_free_slabs(slab) >= need)
    <3>0. PICK q \in Gpus : eager' = note_pool_pressure_refusal(MaxOf(0, need - Cardinality(Free(slab, q))))
      BY <1>6, <2>3 DEF seq_create
    <3> DEFINE m == min_free_slabs(slab)
               x == MaxOf(0, need - Cardinality(Free(slab, q)))
    <3>1. /\ eager' = note_pool_pressure_refusal(x)
          /\ waiting' = need /\ UNCHANGED slab
      BY <1>6, <2>3, <3>0 DEF seq_create
    <3>2. eager' \in {Unarmed} \cup 0..Slabs
      <4>1. eager' = eager \/ eager' = MaxOf(eager, MinOf(Slabs, m + x + Transient + Growth))
        BY <3>1, Zenon DEF note_pool_pressure_refusal
      <4>2. m \in 0..Slabs /\ need \in 1..Slabs
        BY <2>1
      <4>3. x \in Nat
        BY <4>2, FreeCount, RebalancerAssumption DEF MaxOf
      <4> HIDE DEF m, x
      <4> QED  BY <1>1, <4>1, <4>2, <4>3, RebalancerAssumption DEF MaxOf, MinOf, Unarmed
    <3> QED  BY <1>1, <1>6, <3>1, <3>2, SlabStep DEF seq_create
  <2> QED  BY <2>2, <2>3
<1>7. ASSUME give_up PROVE ZoneSound'
  BY <1>1, <1>7, SlabStep DEF give_up
<1>8. StateGpus \subseteq Gpus
  BY RebalancerAssumption
<1> QED  BY <1>2, <1>3, <1>5, <1>6, <1>7, <1>8 DEF Kv

\* A resident that is ready, as the dispatch names it.
LEMMA ReadyIn ==
  ASSUME NEW zs, NEW l
  PROVE  l \in UNION {UNION {{<<g, id, i>> : i \in {j \in DOMAIN zs[g][id].slots : zs[g][id].slots[j] = "ready"}}
                            : id \in DOMAIN zs[g]} : g \in Gpus} <=>
         \E g \in Gpus : \E id \in DOMAIN zs[g] : \E i \in DOMAIN zs[g][id].slots :
            zs[g][id].slots[i] = "ready" /\ l = <<g, id, i>>
<1> DEFINE ready(g, id) == {j \in DOMAIN zs[g][id].slots : zs[g][id].slots[j] = "ready"}
           of(g, id) == {<<g, id, i>> : i \in ready(g, id)}
           on(g) == UNION {of(g, id) : id \in DOMAIN zs[g]}
<1>1. \A g, id : l \in of(g, id) <=> \E i \in DOMAIN zs[g][id].slots :
                   zs[g][id].slots[i] = "ready" /\ l = <<g, id, i>>
  OBVIOUS
<1>2. SUFFICES l \in UNION {on(g) : g \in Gpus} <=>
               \E g \in Gpus : \E id \in DOMAIN zs[g] : l \in of(g, id)
  BY <1>1
<1> HIDE DEF of
<1>3. \A g : l \in on(g) <=> \E id \in DOMAIN zs[g] : l \in of(g, id)
  OBVIOUS
<1> HIDE DEF on
<1> QED  BY <1>3

LEMMA ReadyMember ==
  \A l : l \in ReadySlots <=>
         \E g \in Gpus : \E id \in DOMAIN zones[g] : \E i \in DOMAIN zones[g][id].slots :
            zones[g][id].slots[i] = "ready" /\ l = <<g, id, i>>
BY ReadyIn, ZenonT(60) DEF ReadySlots

LEMMA ReadyMemberNext ==
  \A l : l \in ReadySlots' <=>
         \E g \in Gpus : \E id \in DOMAIN zones'[g] : \E i \in DOMAIN zones'[g][id].slots :
            zones'[g][id].slots[i] = "ready" /\ l = <<g, id, i>>
BY ReadyIn, ZenonT(60) DEF ReadySlots

\* Only the dispatch's own state changes.
LEMMA MoeStep ==
  ASSUME ZoneSound, UNCHANGED <<slab, zones, grants_, cooldown, eager, stage, h2d, ffn, waiting>>,
         moe' \in Moe, moe'.locked \subseteq ReadySlots
  PROVE  ZoneSound'
<1>1. Types'
  BY DEF ZoneSound, Types, StreamsType, ZonesType
<1>2. LentExactly' /\ CopiesOwn(zones, h2d)' /\ KernelsOwn' /\ Fenced'
  <2>1. CopiesOwn(zones, h2d)'
    BY DEF ZoneSound, CopiesOwn
  <2>2. KernelsOwn'
    BY DEF ZoneSound, KernelsOwn
  <2>3. Fenced'
    BY DEF ZoneSound, Fenced, FencedBy, Residents
  <2>4. LentExactly'
    BY DEF ZoneSound, LentExactly, Span
  <2> QED  BY <2>1, <2>2, <2>3, <2>4
<1>3. LockedStays'
  BY DEF LockedStays, ReadySlots
<1> QED  BY <1>1, <1>2, <1>3 DEF ZoneSound

LEMMA ReadyTyped == ASSUME Types PROVE ReadySlots \subseteq Gpus \X Ids \X Nat
<1>1. SUFFICES ASSUME NEW l \in ReadySlots PROVE l \in Gpus \X Ids \X Nat
  OBVIOUS
<1>2. PICK g, id, i : /\ g \in Gpus /\ id \in DOMAIN zones[g] /\ i \in DOMAIN zones[g][id].slots
                      /\ l = <<g, id, i>>
  BY ReadyMember
<1>3. id \in Ids /\ zones[g][id] \in Zone
  BY <1>2 DEF Types, ZonesType
<1>4. zones[g][id].slots \in Seq(SlotStates)
  BY <1>3 DEF Zone
<1>5. i \in Nat
  BY <1>2, <1>4
<1> QED  BY <1>2, <1>3, <1>5

LEMMA DispatchSound == ASSUME ZoneSound, Dispatch PROVE ZoneSound'
<1> USE DEF streamVars
<1>1. Types /\ LockedStays /\ Fenced /\ KernelsOwn /\ moe \in Moe /\ 1 \in Gpus
  BY RebalancerAssumption DEF ZoneSound, Types, Gpus
<1>2. NoMoe \in Moe /\ NoMoe.locked = {}
  BY <1>1, RebalancerAssumption DEF NoMoe, Moe
<1>3. CASE moe_lock
  <2>1. PICK L \in SUBSET ReadySlots : moe' = [NoMoe EXCEPT !.state = "locked", !.locked = L]
    BY <1>3 DEF moe_lock
  <2>2. L \in SUBSET (Gpus \X Ids \X Nat)
    BY <1>1, ReadyTyped
  <2>3. moe' \in Moe /\ moe'.locked = L
    BY <1>2, <2>1, <2>2, RebalancerAssumption DEF NoMoe, Moe
  <2> QED  BY <1>3, <2>3, MoeStep DEF moe_lock
<1>4. CASE moe_reap
  <2>1. moe' \in Moe /\ moe'.locked = {}
    BY <1>1, <1>4, RebalancerAssumption DEF moe_reap, NoMoe, Moe
  <2> QED  BY <1>4, <2>1, MoeStep DEF moe_reap
<1>5. CASE moe_end
  BY <1>2, <1>5, MoeStep DEF moe_end
<1>6. CASE moe_finalize
  <2> DEFINE reads(g) == {l[2] : l \in {k \in moe.locked : k[1] = g}}
  <2>1. /\ \A g \in Gpus : Len(ffn[g]) < StreamDepth
        /\ ffn' = [g \in Gpus |-> IF reads(g) = {} THEN ffn[g] ELSE Append(ffn[g], reads(g))]
        /\ \E g \in Gpus : moe' = [state |-> "pending", locked |-> {}, ahead |-> Len(ffn'[g]), on |-> g]
        /\ UNCHANGED <<stage, slab, zones, grants_, cooldown, eager, h2d, waiting>>
    BY <1>6, Zenon DEF moe_finalize
  <2>2. /\ \A g \in Gpus : ffn[g] \in Seq(SUBSET Ids) /\ Len(ffn[g]) \in Nat
        /\ StreamDepth \in Nat
    BY <1>1, RebalancerAssumption DEF Types, StreamsType
  <2>3. ASSUME NEW g \in Gpus, NEW id \in reads(g)
        PROVE  id \in DOMAIN zones[g] /\ Residents(zones, g, id) # {}
    <3>1. PICK l \in moe.locked : l[1] = g /\ l[2] = id
      OBVIOUS
    <3>2. l \in ReadySlots
      BY <1>1 DEF LockedStays
    <3>3. PICK h, d, i : /\ h \in Gpus /\ d \in DOMAIN zones[h] /\ i \in DOMAIN zones[h][d].slots
                         /\ zones[h][d].slots[i] = "ready" /\ l = <<h, d, i>>
      BY <3>2, ReadyMember
    <3>4. h = g /\ d = id
      BY <3>1, <3>3
    <3> QED  BY <3>3, <3>4 DEF Residents
  <2>4. \A g \in Gpus : reads(g) \in SUBSET Ids /\ reads(g) \subseteq DOMAIN zones[g]
    BY <1>1, <2>3 DEF Types, ZonesType
  <2> HIDE DEF reads
  <2>5. \A g \in Gpus : Append(ffn[g], reads(g)) \in Seq(SUBSET Ids)
                        /\ Len(Append(ffn[g], reads(g))) = Len(ffn[g]) + 1
    BY <2>2, <2>4
  <2>6. /\ ffn' \in [Gpus -> Seq(SUBSET Ids)]
        /\ \A g \in Gpus : Len(ffn'[g]) \in 0..StreamDepth
    <3>1. \A g \in Gpus : ffn'[g] = IF reads(g) = {} THEN ffn[g] ELSE Append(ffn[g], reads(g))
      BY <2>1
    <3>2. \A g \in Gpus : ffn'[g] \in Seq(SUBSET Ids)
      BY <2>2, <2>5, <3>1
    <3>3. ffn' = [g \in Gpus |-> ffn'[g]]
      BY <2>1
    <3>4. ASSUME NEW g \in Gpus PROVE Len(ffn'[g]) \in 0..StreamDepth
      <4>1. Len(ffn'[g]) = Len(ffn[g]) \/ Len(ffn'[g]) = Len(ffn[g]) + 1
        BY <2>5, <3>1
      <4>2. Len(ffn[g]) \in Nat /\ Len(ffn[g]) < StreamDepth
        BY <2>1, <2>2
      <4> QED  BY <2>2, <4>1, <4>2
    <3> QED  BY <3>2, <3>3, <3>4
  <2>7. moe' \in Moe /\ moe'.locked = {}
    BY <2>1, <2>6 DEF Moe
  <2>8. Types'
    <3>0. /\ h2d \in [Gpus -> Seq(Copy)] /\ \A g \in Gpus : Len(h2d[g]) <= StreamDepth
          /\ h2d' = h2d /\ \A g \in Gpus : Len(ffn'[g]) <= StreamDepth
      BY <1>1, <2>1, <2>2, <2>6 DEF Types, StreamsType
    <3>1. StreamsType'
      BY <2>6, <3>0 DEF StreamsType
    <3>2. ZonesType(zones)'
      BY <1>1, <2>1 DEF Types, ZonesType
    <3> QED  BY <1>1, <2>1, <2>7, <3>1, <3>2 DEF Types
  <2>9. ASSUME NEW g \in Gpus, NEW k \in 1..Len(ffn'[g])
        PROVE  \/ k \in 1..Len(ffn[g]) /\ ffn'[g][k] = ffn[g][k]
               \/ ffn'[g][k] = reads(g)
    <3>1. CASE reads(g) = {}
      BY <2>1, <3>1
    <3>2. CASE reads(g) # {}
      <4>1. ffn'[g] = Append(ffn[g], reads(g))
        BY <2>1, <3>2
      <4> QED  BY <2>2, <2>4, <4>1
    <3> QED  BY <3>1, <3>2
  <2>10. KernelsOwn'
    BY <1>1, <2>1, <2>4, <2>9 DEF KernelsOwn
  <2>11. Fenced'
    <3>1. SUFFICES ASSUME NEW i \in 1..Len(grants_), NEW r \in Gpus PROVE FencedBy(zones, grants_[i], r)'
      BY <2>1 DEF Fenced
    <3>2. FencedBy(zones, grants_[i], r)
      BY <1>1 DEF Fenced
    <3>3. PICK a : a = grants_[i]
      OBVIOUS
    <3>4. ASSUME a.st = "barrier", NEW k \in 1..Len(ffn'[r]), a.start \in ffn'[r][k]
          PROVE  k <= a.ffn[r]
      BY <2>3, <2>9, <3>2, <3>3, <3>4 DEF FencedBy
    <3> QED  BY <2>1, <3>2, <3>3, <3>4 DEF FencedBy, Residents
  <2>12. LentExactly' /\ CopiesOwn(zones, h2d)'
    BY <2>1 DEF ZoneSound, LentExactly, CopiesOwn, Span
  <2>13. LockedStays'
    BY <2>7 DEF LockedStays
  <2> QED  BY <2>8, <2>10, <2>11, <2>12, <2>13 DEF ZoneSound
<1> QED  BY <1>3, <1>4, <1>5, <1>6 DEF Dispatch

-------------------------------------------------------------------------------
(* Slots of the zones, and the streams.                                    *)

\* zs is zones with one slot changed.
SlotSet(zs, g, id, i, what) ==
  /\ ZonesType(zs)
  /\ \A r \in Gpus : DOMAIN zs[r] = DOMAIN zones[r]
  /\ \A r \in Gpus : \A d \in DOMAIN zones[r] :
       /\ zs[r][d].draining = zones[r][d].draining
       /\ DOMAIN zs[r][d].slots = DOMAIN zones[r][d].slots
       /\ \A j \in DOMAIN zones[r][d].slots :
            zs[r][d].slots[j] = IF r = g /\ d = id /\ j = i THEN what ELSE zones[r][d].slots[j]

LEMMA SetSlotEffect ==
  ASSUME ZonesType(zones), NEW g \in Gpus, NEW id \in DOMAIN zones[g],
         NEW i \in DOMAIN zones[g][id].slots, NEW what \in SlotStates
  PROVE  SlotSet(SetSlot(g, id, i, what), g, id, i, what)
<1> DEFINE s2 == [zones[g][id].slots EXCEPT ![i] = what]
           z2 == [zones[g][id] EXCEPT !.slots = s2]
           f2 == [zones[g] EXCEPT ![id] = z2]
           zs == [zones EXCEPT ![g] = f2]
<1>0. SetSlot(g, id, i, what) = zs
  BY DEF SetSlot
<1>1. /\ DOMAIN zones = Gpus
      /\ \A r \in Gpus : DOMAIN zones[r] \subseteq Ids /\ zones[r] \in [DOMAIN zones[r] -> Zone]
  BY DEF ZonesType
<1>2. zones[g][id] \in Zone /\ zones[g][id].slots \in Seq(SlotStates)
  BY <1>1 DEF Zone
<1>3. /\ s2 \in Seq(SlotStates) /\ DOMAIN s2 = DOMAIN zones[g][id].slots
      /\ \A j \in DOMAIN zones[g][id].slots : s2[j] = IF j = i THEN what ELSE zones[g][id].slots[j]
  BY <1>2
<1> HIDE DEF s2
<1>4. z2 \in Zone /\ z2.draining = zones[g][id].draining /\ z2.slots = s2
  BY <1>2, <1>3 DEF Zone
<1> HIDE DEF z2
<1>5. /\ f2 \in [DOMAIN zones[g] -> Zone] /\ f2[id] = z2
      /\ \A d \in DOMAIN zones[g] : d # id => f2[d] = zones[g][d]
  BY <1>1, <1>4
<1> HIDE DEF f2
<1>6. DOMAIN zs = Gpus /\ zs[g] = f2 /\ \A r \in Gpus : r # g => zs[r] = zones[r]
  BY <1>1
<1> HIDE DEF zs
<1>7. \A r \in Gpus : DOMAIN zs[r] = DOMAIN zones[r]
  BY <1>5, <1>6
<1>8. ZonesType(zs)
  <2>1. \A r \in Gpus : zs[r] \in [DOMAIN zs[r] -> Zone]
    BY <1>1, <1>5, <1>6, <1>7
  <2> QED  BY <1>1, <1>6, <1>7, <2>1 DEF ZonesType
<1>9. ASSUME NEW r \in Gpus, NEW d \in DOMAIN zones[r]
      PROVE  /\ zs[r][d].draining = zones[r][d].draining
             /\ DOMAIN zs[r][d].slots = DOMAIN zones[r][d].slots
             /\ \A j \in DOMAIN zones[r][d].slots :
                  zs[r][d].slots[j] = IF r = g /\ d = id /\ j = i THEN what ELSE zones[r][d].slots[j]
  <2>1. CASE r = g /\ d = id
    <3>1. zs[r][d] = z2
      BY <1>5, <1>6, <2>1
    <3> QED  BY <1>3, <1>4, <2>1, <3>1
  <2>2. CASE ~ (r = g /\ d = id)
    <3>1. zs[r][d] = zones[r][d]
      BY <1>5, <1>6, <2>2
    <3> QED  BY <2>2, <3>1
  <2> QED  BY <2>1, <2>2
<1> QED  BY <1>0, <1>7, <1>8, <1>9 DEF SlotSet

\* Locks hold when every zone with a locked slot keeps it.
LEMMA LocksKeep ==
  ASSUME LockedStays, moe'.locked \subseteq moe.locked,
         \A g \in Gpus : \A id \in DOMAIN zones[g] : \A i \in DOMAIN zones[g][id].slots :
           zones[g][id].slots[i] = "ready" /\ <<g, id, i>> \in moe.locked =>
             /\ id \in DOMAIN zones'[g] /\ i \in DOMAIN zones'[g][id].slots
             /\ zones'[g][id].slots[i] = "ready"
  PROVE  LockedStays'
<1>1. SUFFICES ASSUME NEW l \in moe.locked PROVE l \in ReadySlots'
  BY DEF LockedStays
<1>2. l \in ReadySlots
  BY DEF LockedStays
<1>3. PICK g, id, i : /\ g \in Gpus /\ id \in DOMAIN zones[g] /\ i \in DOMAIN zones[g][id].slots
                      /\ zones[g][id].slots[i] = "ready" /\ l = <<g, id, i>>
  BY <1>2, ReadyMember
<1>4. /\ id \in DOMAIN zones'[g] /\ i \in DOMAIN zones'[g][id].slots
      /\ zones'[g][id].slots[i] = "ready"
  BY <1>3
<1> QED  BY <1>3, <1>4, ReadyMemberNext

\* Neither the grants nor the zones change their places.
SamePlaces ==
  /\ grants_ \in Seq(GrantType) /\ grants_' \in Seq(GrantType) /\ Len(grants_') = Len(grants_)
  /\ \A i \in 1..Len(grants_) :
       grants_'[i].start = grants_[i].start /\ grants_'[i].num = grants_[i].num
  /\ \A g \in Gpus : DOMAIN zones'[g] = DOMAIN zones[g]

LEMMA LentKeeps == ASSUME LentExactly, UNCHANGED slab, SamePlaces PROVE LentExactly'
<1>1. DOMAIN grants_ = 1..Len(grants_) /\ DOMAIN grants_' = 1..Len(grants_)
  BY DEF SamePlaces
<1>2. \A i \in 1..Len(grants_) : grants_'[i].start = grants_[i].start
  BY DEF SamePlaces
<1>3. \A i \in 1..Len(grants_) : Span(grants_'[i]) = Span(grants_[i])
  BY DEF SamePlaces, Span
<1>4. UNION {Span(grants_'[i]) : i \in 1..Len(grants_)} = UNION {Span(grants_[i]) : i \in 1..Len(grants_)}
  BY <1>3
<1>5. {grants_'[i].start : i \in 1..Len(grants_)} = {grants_[i].start : i \in 1..Len(grants_)}
  BY <1>2
<1>6. \A g \in Gpus :
        /\ {s \in Ids : slab'[g][s] = "zone"} = UNION {Span(grants_[i]) : i \in 1..Len(grants_)}
        /\ DOMAIN zones'[g] = {grants_[i].start : i \in 1..Len(grants_)}
        /\ \A i, j \in 1..Len(grants_) : i # j => Span(grants_[i]) \cap Span(grants_[j]) = {}
  BY <1>1 DEF LentExactly, SamePlaces
<1> HIDE DEF Span
<1> QED  BY <1>1, <1>3, <1>4, <1>5, <1>6 DEF LentExactly

\* The zones of a grant are there, on every GPU.
LEMMA GrantHasZone ==
  ASSUME Types, LentExactly, NEW n \in 1..Len(grants_), NEW r \in Gpus
  PROVE  grants_[n] \in GrantType /\ grants_[n].start \in DOMAIN zones[r]
<1>1. DOMAIN grants_ = 1..Len(grants_) /\ grants_[n] \in GrantType
  BY DEF Types
<1> QED  BY <1>1 DEF LentExactly

\* A changed slot leaves zones empty that have their barriers, when it is set
\* free, was not free, or is in a zone that is not draining.
LEMMA EmptyKeeps ==
  ASSUME ZoneSound, NEW g \in Gpus, NEW id, NEW i, NEW what, SlotSet(zones', g, id, i, what),
         id \in DOMAIN zones[g], i \in DOMAIN zones[g][id].slots,
         what = "free" \/ zones[g][id].slots[i] # "free" \/ zones[g][id].draining = "no",
         NEW n \in 1..Len(grants_), NEW r \in Gpus
  PROVE  /\ grants_[n].st # "active" => zones'[r][grants_[n].start].draining = "yes"
         /\ grants_[n].st = "barrier" => Residents(zones', r, grants_[n].start) = {}
<1>1. FencedBy(zones, grants_[n], r) /\ grants_[n].start \in DOMAIN zones[r]
  BY GrantHasZone DEF ZoneSound, Fenced
<1>2. PICK a : a = grants_[n].start
  OBVIOUS
<1>3. /\ zones'[r][a].draining = zones[r][a].draining
      /\ DOMAIN zones'[r][a].slots = DOMAIN zones[r][a].slots
      /\ \A j \in DOMAIN zones[r][a].slots :
           zones'[r][a].slots[j] = IF r = g /\ a = id /\ j = i THEN what ELSE zones[r][a].slots[j]
  BY <1>1, <1>2 DEF SlotSet
<1>4. ASSUME grants_[n].st = "barrier" PROVE Residents(zones', r, a) = {}
  <2>1. \A j \in DOMAIN zones[r][a].slots : zones[r][a].slots[j] = "free"
    BY <1>1, <1>2, <1>4 DEF FencedBy, Residents
  <2>2. zones[r][a].draining = "yes"
    BY <1>1, <1>2, <1>4 DEF FencedBy
  <2>3. \A j \in DOMAIN zones[r][a].slots : zones'[r][a].slots[j] = "free"
    BY <1>3, <2>1, <2>2
  <2> QED  BY <1>3, <2>3 DEF Residents
<1> QED  BY <1>1, <1>2, <1>3, <1>4 DEF FencedBy

LEMMA ReserveSound ==
  ASSUME ZoneSound, NEW g \in Gpus, NEW id \in DOMAIN zones[g], reserve(g, id)
  PROVE  ZoneSound'
<1>1. /\ Types /\ ZonesType(zones) /\ StreamsType /\ LentExactly /\ CopiesOwn(zones, h2d)
      /\ KernelsOwn /\ Fenced /\ LockedStays
  BY DEF ZoneSound, Types
<1>2. PICK i \in DOMAIN zones[g][id].slots :
        /\ zones[g][id].slots[i] = "free" /\ zones' = SetSlot(g, id, i, "arriving")
        /\ h2d' = [h2d EXCEPT ![g] = Append(@, [id |-> id, slot |-> i, live |-> "yes"])]
  BY DEF reserve
<1>3. /\ zones[g][id].draining = "no" /\ Len(h2d[g]) < StreamDepth
      /\ UNCHANGED <<stage, slab, grants_, cooldown, eager, ffn, moe, waiting>>
  BY DEF reserve, Offered
<1> DEFINE c == [id |-> id, slot |-> i, live |-> "yes"]
<1>4. SlotSet(zones', g, id, i, "arriving")
  BY <1>1, <1>2, SetSlotEffect DEF SlotStates
<1>5. id \in Ids /\ i \in Nat
  <2>1. id \in Ids /\ zones[g][id] \in Zone
    BY <1>1 DEF ZonesType
  <2>2. zones[g][id].slots \in Seq(SlotStates)
    BY <2>1 DEF Zone
  <2> QED  BY <2>1, <2>2
<1>6. c \in Copy /\ c.id = id /\ c.slot = i /\ c.live = "yes"
  BY <1>5 DEF Copy
<1>7. h2d' = [h2d EXCEPT ![g] = Append(@, c)]
  BY <1>2
<1> HIDE DEF c
<1>8. \A r \in Gpus : h2d[r] \in Seq(Copy) /\ Len(h2d[r]) \in Nat
  BY <1>1 DEF StreamsType
<1>9. /\ h2d' \in [Gpus -> Seq(Copy)] /\ h2d'[g] = Append(h2d[g], c)
      /\ \A r \in Gpus : r # g => h2d'[r] = h2d[r]
  BY <1>1, <1>6, <1>7, <1>8 DEF StreamsType
<1>10. /\ Len(h2d'[g]) = Len(h2d[g]) + 1 /\ h2d'[g][Len(h2d[g]) + 1] = c
       /\ \A k \in 1..Len(h2d[g]) : h2d'[g][k] = h2d[g][k]
  BY <1>6, <1>8, <1>9
<1>11. Types'
  <2>1. \A r \in Gpus : Len(h2d'[r]) <= StreamDepth
    <3>1. ASSUME NEW r \in Gpus, r # g PROVE Len(h2d'[r]) <= StreamDepth
      BY <1>1, <1>9, <3>1 DEF StreamsType
    <3>2. Len(h2d'[g]) <= StreamDepth
      BY <1>3, <1>8, <1>10, RebalancerAssumption
    <3> QED  BY <3>1, <3>2
  <2>2. StreamsType'
    BY <1>1, <1>3, <1>9, <2>1 DEF StreamsType
  <2>3. ZonesType(zones)'
    BY <1>4 DEF SlotSet, ZonesType
  <2> QED  BY <1>1, <1>3, <2>2, <2>3 DEF Types
<1>12. LentExactly'
  BY <1>1, <1>3, <1>4, LentKeeps DEF SamePlaces, SlotSet, Types
<1>13. KernelsOwn'
  BY <1>1, <1>3, <1>4 DEF KernelsOwn, SlotSet
<1>14. LockedStays'
  BY <1>1, <1>2, <1>3, <1>4, LocksKeep DEF SlotSet
<1>15. Fenced'
  <2>1. SUFFICES ASSUME NEW n \in 1..Len(grants_), NEW r \in Gpus PROVE FencedBy(zones, grants_[n], r)'
    BY <1>3 DEF Fenced
  <2>2. FencedBy(zones, grants_[n], r)
    BY <1>1 DEF Fenced
  <2>3. /\ grants_[n].st # "active" => zones'[r][grants_[n].start].draining = "yes"
        /\ grants_[n].st = "barrier" => Residents(zones', r, grants_[n].start) = {}
    BY <1>3, <1>4, EmptyKeeps
  <2>4. ASSUME grants_[n].st = "barrier", NEW k \in 1..Len(h2d'[r]), h2d'[r][k].id = grants_[n].start
        PROVE  k <= grants_[n].h2d[r]
    <3>1. ~ (r = g /\ grants_[n].start = id)
      BY <1>3, <2>2, <2>4 DEF FencedBy
    <3>2. k \in 1..Len(h2d[r]) /\ h2d'[r][k] = h2d[r][k]
      <4>1. CASE r # g
        BY <1>9, <2>4, <4>1
      <4>2. CASE r = g
        <5>1. k \in 1..(Len(h2d[g]) + 1) /\ k # Len(h2d[g]) + 1
          BY <1>6, <1>10, <2>4, <3>1, <4>2
        <5>2. k \in 1..Len(h2d[g])
          BY <1>8, <5>1
        <5> QED  BY <1>10, <4>2, <5>2
      <4> QED  BY <4>1, <4>2
    <3> QED  BY <2>2, <2>4, <3>2 DEF FencedBy
  <2> QED  BY <1>3, <2>2, <2>3, <2>4 DEF FencedBy, Residents
<1>16. CopiesOwn(zones', h2d')
  <2>1. SUFFICES ASSUME NEW r \in Gpus
        PROVE  /\ \A k \in 1..Len(h2d'[r]) :
                    /\ h2d'[r][k].id \in DOMAIN zones'[r]
                    /\ h2d'[r][k].live = "yes" =>
                         /\ h2d'[r][k].slot \in DOMAIN zones'[r][h2d'[r][k].id].slots
                         /\ zones'[r][h2d'[r][k].id].slots[h2d'[r][k].slot] = "arriving"
               /\ \A j, k \in 1..Len(h2d'[r]) :
                    /\ h2d'[r][j].live = "yes" /\ h2d'[r][k].live = "yes"
                    /\ h2d'[r][j].id = h2d'[r][k].id /\ h2d'[r][j].slot = h2d'[r][k].slot
                    => j = k
    BY DEF CopiesOwn
  <2>2. ASSUME NEW k \in 1..Len(h2d[r])
        PROVE  /\ h2d[r][k].id \in DOMAIN zones'[r]
               /\ h2d[r][k].live = "yes" =>
                    /\ h2d[r][k].slot \in DOMAIN zones'[r][h2d[r][k].id].slots
                    /\ zones'[r][h2d[r][k].id].slots[h2d[r][k].slot] = "arriving"
                    /\ ~ (r = g /\ h2d[r][k].id = id /\ h2d[r][k].slot = i)
    <3>1. PICK b : b = h2d[r][k]
      OBVIOUS
    <3>2. b.id \in DOMAIN zones[r] /\ (b.live = "yes" =>
            b.slot \in DOMAIN zones[r][b.id].slots /\ zones[r][b.id].slots[b.slot] = "arriving")
      BY <1>1, <3>1 DEF CopiesOwn
    <3>3. b.live = "yes" => ~ (r = g /\ b.id = id /\ b.slot = i)
      BY <1>2, <3>2
    <3> QED  BY <1>4, <3>1, <3>2, <3>3 DEF SlotSet
  <2>3. CASE r # g
    <3>1. h2d'[r] = h2d[r]
      BY <1>9, <2>3
    <3> QED  BY <1>1, <2>2, <3>1 DEF CopiesOwn
  <2>4. CASE r = g
    <3>1. /\ c.id \in DOMAIN zones'[g] /\ c.slot \in DOMAIN zones'[g][c.id].slots
          /\ zones'[g][c.id].slots[c.slot] = "arriving"
      BY <1>4, <1>6 DEF SlotSet
    <3>2. \A k \in 1..Len(h2d'[g]) : \/ k \in 1..Len(h2d[g]) /\ h2d'[g][k] = h2d[g][k]
                                     \/ k = Len(h2d[g]) + 1 /\ h2d'[g][k] = c
      BY <1>8, <1>10
    <3>3. ASSUME NEW j \in 1..Len(h2d'[g]), NEW k \in 1..Len(h2d'[g]),
                 h2d'[g][j].live = "yes", h2d'[g][k].live = "yes",
                 h2d'[g][j].id = h2d'[g][k].id, h2d'[g][j].slot = h2d'[g][k].slot
          PROVE  j = k
      <4>1. CASE j \in 1..Len(h2d[g]) /\ k \in 1..Len(h2d[g])
        <5>1. h2d'[g][j] = h2d[g][j] /\ h2d'[g][k] = h2d[g][k]
          BY <1>10, <4>1
        <5> QED  BY <1>1, <3>3, <4>1, <5>1 DEF CopiesOwn
      <4>2. CASE ~ (j \in 1..Len(h2d[g]) /\ k \in 1..Len(h2d[g]))
        <5>1. \A l \in 1..Len(h2d[g]) : h2d[g][l].live = "yes" => ~ (h2d[g][l].id = id /\ h2d[g][l].slot = i)
          BY <2>2, <2>4
        <5>2. CASE j \notin 1..Len(h2d[g])
          <6>1. j = Len(h2d[g]) + 1 /\ h2d'[g][j] = c
            BY <3>2, <5>2
          <6> QED  BY <1>6, <3>2, <3>3, <5>1, <6>1
        <5>3. CASE k \notin 1..Len(h2d[g])
          <6>1. k = Len(h2d[g]) + 1 /\ h2d'[g][k] = c
            BY <3>2, <5>3
          <6> QED  BY <1>6, <3>2, <3>3, <5>1, <6>1
        <5> QED  BY <4>2, <5>2, <5>3
      <4> QED  BY <4>1, <4>2
    <3> QED  BY <2>2, <2>4, <3>1, <3>2, <3>3
  <2> QED  BY <2>3, <2>4
<1> QED  BY <1>11, <1>12, <1>13, <1>14, <1>15, <1>16 DEF ZoneSound, CopiesOwn

\* A slot that is freed: by a cancel, whose copy goes on, or by an eviction.  No
\* other live copy was to arrive there, and it was not locked.
LEMMA FreedSound ==
  ASSUME ZoneSound, NEW g \in Gpus, NEW id \in DOMAIN zones[g], NEW i \in DOMAIN zones[g][id].slots,
         zones' = SetSlot(g, id, i, "free"), <<g, id, i>> \notin moe.locked,
         UNCHANGED <<stage, slab, grants_, cooldown, eager, ffn, moe, waiting>>,
         StreamsType',
         \A r \in Gpus : Len(h2d'[r]) = Len(h2d[r]),
         \A r \in Gpus : \A k \in 1..Len(h2d[r]) :
            /\ h2d'[r][k].id = h2d[r][k].id /\ h2d'[r][k].slot = h2d[r][k].slot
            /\ h2d'[r][k].live = "yes" =>
                 h2d[r][k].live = "yes" /\ ~ (r = g /\ h2d[r][k].id = id /\ h2d[r][k].slot = i)
  PROVE  ZoneSound'
<1>1. /\ Types /\ ZonesType(zones) /\ LentExactly /\ CopiesOwn(zones, h2d)
      /\ KernelsOwn /\ Fenced /\ LockedStays
  BY DEF ZoneSound, Types
<1>2. SlotSet(zones', g, id, i, "free")
  BY <1>1, SetSlotEffect DEF SlotStates
<1>3. Types'
  <2>1. ZonesType(zones)'
    BY <1>2 DEF SlotSet, ZonesType
  <2> QED  BY <1>1, <2>1 DEF Types
<1>4. LentExactly'
  BY <1>1, <1>2, LentKeeps DEF SamePlaces, SlotSet, Types
<1>5. KernelsOwn'
  BY <1>1, <1>2 DEF KernelsOwn, SlotSet
<1>6. LockedStays'
  BY <1>1, <1>2, LocksKeep DEF SlotSet
<1>7. Fenced'
  <2>1. SUFFICES ASSUME NEW n \in 1..Len(grants_), NEW r \in Gpus PROVE FencedBy(zones, grants_[n], r)'
    BY DEF Fenced
  <2>2. FencedBy(zones, grants_[n], r)
    BY <1>1 DEF Fenced
  <2>3. /\ grants_[n].st # "active" => zones'[r][grants_[n].start].draining = "yes"
        /\ grants_[n].st = "barrier" => Residents(zones', r, grants_[n].start) = {}
    BY <1>2, EmptyKeeps
  <2>4. ASSUME grants_[n].st = "barrier", NEW k \in 1..Len(h2d'[r]), h2d'[r][k].id = grants_[n].start
        PROVE  k <= grants_[n].h2d[r]
    BY <2>2, <2>4 DEF FencedBy
  <2> QED  BY <2>2, <2>3, <2>4 DEF FencedBy, Residents
<1>8. CopiesOwn(zones', h2d')
  <2>1. SUFFICES ASSUME NEW r \in Gpus
        PROVE  /\ \A k \in 1..Len(h2d'[r]) :
                    /\ h2d'[r][k].id \in DOMAIN zones'[r]
                    /\ h2d'[r][k].live = "yes" =>
                         /\ h2d'[r][k].slot \in DOMAIN zones'[r][h2d'[r][k].id].slots
                         /\ zones'[r][h2d'[r][k].id].slots[h2d'[r][k].slot] = "arriving"
               /\ \A j, k \in 1..Len(h2d'[r]) :
                    /\ h2d'[r][j].live = "yes" /\ h2d'[r][k].live = "yes"
                    /\ h2d'[r][j].id = h2d'[r][k].id /\ h2d'[r][j].slot = h2d'[r][k].slot
                    => j = k
    BY DEF CopiesOwn
  <2>2. ASSUME NEW k \in 1..Len(h2d[r])
        PROVE  /\ h2d'[r][k].id \in DOMAIN zones'[r]
               /\ h2d'[r][k].live = "yes" =>
                    /\ h2d'[r][k].slot \in DOMAIN zones'[r][h2d'[r][k].id].slots
                    /\ zones'[r][h2d'[r][k].id].slots[h2d'[r][k].slot] = "arriving"
    <3>1. PICK b : b = h2d[r][k]
      OBVIOUS
    <3>2. b.id \in DOMAIN zones[r] /\ (b.live = "yes" =>
            b.slot \in DOMAIN zones[r][b.id].slots /\ zones[r][b.id].slots[b.slot] = "arriving")
      BY <1>1, <3>1 DEF CopiesOwn
    <3>3. PICK c : c = h2d'[r][k]
      OBVIOUS
    <3>4. c.id = b.id /\ c.slot = b.slot
          /\ (c.live = "yes" => b.live = "yes" /\ ~ (r = g /\ b.id = id /\ b.slot = i))
      BY <3>1, <3>3
    <3> QED  BY <1>2, <3>2, <3>3, <3>4 DEF SlotSet
  <2>3. ASSUME NEW j \in 1..Len(h2d[r]), NEW k \in 1..Len(h2d[r]),
               h2d'[r][j].live = "yes", h2d'[r][k].live = "yes",
               h2d'[r][j].id = h2d'[r][k].id, h2d'[r][j].slot = h2d'[r][k].slot
        PROVE  j = k
    <3>1. /\ h2d[r][j].live = "yes" /\ h2d[r][k].live = "yes"
          /\ h2d[r][j].id = h2d[r][k].id /\ h2d[r][j].slot = h2d[r][k].slot
      BY <2>3
    <3> QED  BY <1>1, <3>1 DEF CopiesOwn
  <2> QED  BY <2>2, <2>3
<1> QED  BY <1>3, <1>4, <1>5, <1>6, <1>7, <1>8 DEF ZoneSound, CopiesOwn

LEMMA EvictSound ==
  ASSUME ZoneSound, NEW g \in Gpus, NEW id \in DOMAIN zones[g], NEW i \in DOMAIN zones[g][id].slots,
         evict(g, id, i)
  PROVE  ZoneSound'
<1>1. /\ zones[g][id].slots[i] = "ready" /\ <<g, id, i>> \notin moe.locked
      /\ zones' = SetSlot(g, id, i, "free")
      /\ UNCHANGED <<stage, slab, grants_, cooldown, eager, h2d, ffn, moe, waiting>>
  BY DEF evict, Evictable, streamVars
<1>2. CopiesOwn(zones, h2d) /\ StreamsType
  BY DEF ZoneSound, Types
<1>3. \A r \in Gpus : \A k \in 1..Len(h2d[r]) :
         h2d[r][k].live = "yes" => ~ (r = g /\ h2d[r][k].id = id /\ h2d[r][k].slot = i)
  BY <1>1, <1>2 DEF CopiesOwn
<1>4. StreamsType'
  BY <1>1, <1>2 DEF StreamsType
<1> QED  BY <1>1, <1>3, <1>4, FreedSound

LEMMA CancelSound ==
  ASSUME ZoneSound, NEW g \in Gpus, NEW k \in DOMAIN h2d[g], cancel(g, k)
  PROVE  ZoneSound'
<1>1. CopiesOwn(zones, h2d) /\ StreamsType /\ LockedStays /\ h2d \in [Gpus -> Seq(Copy)]
  BY DEF ZoneSound, Types, StreamsType
<1>2. h2d[g] \in Seq(Copy) /\ k \in 1..Len(h2d[g]) /\ h2d[g][k] \in Copy
  BY <1>1
<1>3. PICK c : c = h2d[g][k]
  OBVIOUS
<1>4. /\ c.live = "yes" /\ zones' = SetSlot(g, c.id, c.slot, "free")
      /\ h2d' = [h2d EXCEPT ![g][k].live = "no"]
      /\ UNCHANGED <<stage, slab, grants_, cooldown, eager, ffn, moe, waiting>>
  BY <1>3 DEF cancel
<1>5. /\ c.id \in DOMAIN zones[g] /\ c.slot \in DOMAIN zones[g][c.id].slots
      /\ zones[g][c.id].slots[c.slot] = "arriving"
  BY <1>1, <1>2, <1>3, <1>4 DEF CopiesOwn
<1> DEFINE b == [c EXCEPT !.live = "no"]
<1>6. b \in Copy /\ b.id = c.id /\ b.slot = c.slot /\ b.live = "no"
  BY <1>2, <1>3 DEF Copy
<1>7. h2d' = [h2d EXCEPT ![g] = [h2d[g] EXCEPT ![k] = b]]
  BY <1>3, <1>4
<1> HIDE DEF b
<1>8. /\ h2d' \in [Gpus -> Seq(Copy)] /\ \A r \in Gpus : Len(h2d'[r]) = Len(h2d[r])
      /\ h2d'[g][k] = b
      /\ \A r \in Gpus : \A j \in 1..Len(h2d[r]) : ~ (r = g /\ j = k) => h2d'[r][j] = h2d[r][j]
  <2>1. /\ [h2d[g] EXCEPT ![k] = b] \in Seq(Copy) /\ Len([h2d[g] EXCEPT ![k] = b]) = Len(h2d[g])
        /\ [h2d[g] EXCEPT ![k] = b][k] = b
        /\ \A j \in 1..Len(h2d[g]) : j # k => [h2d[g] EXCEPT ![k] = b][j] = h2d[g][j]
    BY <1>2, <1>6
  <2>2. h2d'[g] = [h2d[g] EXCEPT ![k] = b] /\ \A r \in Gpus : r # g => h2d'[r] = h2d[r]
    BY <1>1, <1>7
  <2>3. \A r \in Gpus : h2d[r] \in Seq(Copy)
    BY <1>1
  <2>4. h2d' \in [Gpus -> Seq(Copy)]
    BY <1>1, <1>7, <2>1
  <2> QED  BY <2>1, <2>2, <2>3, <2>4
<1>9. StreamsType'
  BY <1>1, <1>4, <1>8 DEF StreamsType
<1>10. <<g, c.id, c.slot>> \notin moe.locked
  <2>1. SUFFICES ASSUME <<g, c.id, c.slot>> \in ReadySlots PROVE FALSE
    BY <1>1 DEF LockedStays
  <2>2. PICK h, d, i : /\ h \in Gpus /\ d \in DOMAIN zones[h] /\ i \in DOMAIN zones[h][d].slots
                       /\ zones[h][d].slots[i] = "ready" /\ <<g, c.id, c.slot>> = <<h, d, i>>
    BY <2>1, ReadyMember
  <2> QED  BY <1>5, <2>2
<1>11. ASSUME NEW r \in Gpus, NEW j \in 1..Len(h2d[r])
       PROVE  /\ h2d'[r][j].id = h2d[r][j].id /\ h2d'[r][j].slot = h2d[r][j].slot
              /\ h2d'[r][j].live = "yes" =>
                   h2d[r][j].live = "yes" /\ ~ (r = g /\ h2d[r][j].id = c.id /\ h2d[r][j].slot = c.slot)
  <2>1. CASE r = g /\ j = k
    BY <1>3, <1>6, <1>8, <2>1
  <2>2. CASE ~ (r = g /\ j = k)
    <3>1. h2d'[r][j] = h2d[r][j]
      BY <1>8, <2>2
    <3>2. ASSUME r = g, h2d[r][j].live = "yes", h2d[r][j].id = c.id, h2d[r][j].slot = c.slot
          PROVE  FALSE
      BY <1>1, <1>2, <1>3, <1>4, <2>2, <3>2 DEF CopiesOwn
    <3> QED  BY <3>1, <3>2
  <2> QED  BY <2>1, <2>2
<1>12. PICK d, s : d = c.id /\ s = c.slot
  OBVIOUS
<1>13. /\ d \in DOMAIN zones[g] /\ s \in DOMAIN zones[g][d].slots
       /\ zones' = SetSlot(g, d, s, "free") /\ <<g, d, s>> \notin moe.locked
  BY <1>4, <1>5, <1>10, <1>12
<1>14. \A r \in Gpus : \A j \in 1..Len(h2d[r]) :
         /\ h2d'[r][j].id = h2d[r][j].id /\ h2d'[r][j].slot = h2d[r][j].slot
         /\ h2d'[r][j].live = "yes" =>
              h2d[r][j].live = "yes" /\ ~ (r = g /\ h2d[r][j].id = d /\ h2d[r][j].slot = s)
  BY <1>11, <1>12
<1>15. \A r \in Gpus : Len(h2d'[r]) = Len(h2d[r])
  BY <1>8
<1> QED  BY <1>4, <1>9, <1>13, <1>14, <1>15, FreedSound

\* The operation at the head of a stream is done: what is behind it moves up.
LEMMA TailMoves ==
  ASSUME NEW A, NEW q \in Seq(A), q # <<>>
  PROVE  /\ Tail(q) \in Seq(A) /\ Len(q) \in Nat /\ Len(q) >= 1 /\ Len(Tail(q)) = Len(q) - 1
         /\ Head(q) = q[1]
         /\ \A k \in 1..Len(Tail(q)) : k + 1 \in 1..Len(q) /\ k + 1 # 1 /\ Tail(q)[k] = q[k + 1]
OBVIOUS

LEMMA Minus1Type ==
  ASSUME NEW n \in 0..StreamDepth
  PROVE  Minus1(n) \in 0..StreamDepth /\ \A k \in Nat : k + 1 <= n => k <= Minus1(n)
BY RebalancerAssumption DEF Minus1, MaxOf

\* The grants after an operation on the copy stream of g: their distances to it.
LEMMA CopyAges ==
  ASSUME grants_ \in Seq(GrantType), NEW g \in Gpus,
         grants_' = [i \in DOMAIN grants_ |-> [grants_[i] EXCEPT !.h2d[g] = Minus1(@)]]
  PROVE  /\ grants_' \in Seq(GrantType) /\ Len(grants_') = Len(grants_)
         /\ \A i \in 1..Len(grants_) :
              /\ grants_'[i].start = grants_[i].start /\ grants_'[i].num = grants_[i].num
              /\ grants_'[i].st = grants_[i].st /\ grants_'[i].ffn = grants_[i].ffn
              /\ \A r \in Gpus : grants_'[i].h2d[r] = IF r = g THEN Minus1(grants_[i].h2d[r])
                                                      ELSE grants_[i].h2d[r]
<1>1. DOMAIN grants_ = 1..Len(grants_) /\ Len(grants_) \in Nat
  OBVIOUS
<1>2. ASSUME NEW i \in 1..Len(grants_)
      PROVE  /\ grants_'[i] \in GrantType
             /\ grants_'[i].start = grants_[i].start /\ grants_'[i].num = grants_[i].num
             /\ grants_'[i].st = grants_[i].st /\ grants_'[i].ffn = grants_[i].ffn
             /\ \A r \in Gpus : grants_'[i].h2d[r] = IF r = g THEN Minus1(grants_[i].h2d[r])
                                                     ELSE grants_[i].h2d[r]
  <2>1. PICK a : a = grants_[i]
    OBVIOUS
  <2>2. a \in GrantType
    BY <1>1, <2>1
  <2>3. a.h2d \in [Gpus -> 0..StreamDepth]
    BY <2>2 DEF GrantType
  <2> DEFINE d == [a.h2d EXCEPT ![g] = Minus1(a.h2d[g])]
  <2>4. grants_'[i] = [a EXCEPT !.h2d = d]
    BY <1>1, <2>1
  <2>5. d \in [Gpus -> 0..StreamDepth]
        /\ \A r \in Gpus : d[r] = IF r = g THEN Minus1(a.h2d[r]) ELSE a.h2d[r]
    BY <2>3, Minus1Type
  <2> HIDE DEF d
  <2>6. PICK b : b = [a EXCEPT !.h2d = d]
    OBVIOUS
  <2>7. /\ b \in GrantType /\ b.start = a.start /\ b.num = a.num /\ b.st = a.st
        /\ b.ffn = a.ffn /\ b.h2d = d
    BY <2>2, <2>5, <2>6 DEF GrantType
  <2>8. grants_'[i] = b
    BY <2>4, <2>6
  <2> QED  BY <2>1, <2>5, <2>7, <2>8, Zenon
<1>3. grants_' = [i \in 1..Len(grants_) |-> grants_'[i]]
  BY <1>1
<1>4. grants_' \in Seq(GrantType) /\ Len(grants_') = Len(grants_)
  <2>1. PICK n \in Nat : n = Len(grants_)
    BY <1>1
  <2>2. grants_' \in [1..n -> GrantType]
    BY <1>2, <1>3, <2>1
  <2> QED  BY <2>1, <2>2
<1> QED  BY <1>2, <1>4

LEMMA KernelAges ==
  ASSUME grants_ \in Seq(GrantType), NEW g \in Gpus,
         grants_' = [i \in DOMAIN grants_ |-> [grants_[i] EXCEPT !.ffn[g] = Minus1(@)]]
  PROVE  /\ grants_' \in Seq(GrantType) /\ Len(grants_') = Len(grants_)
         /\ \A i \in 1..Len(grants_) :
              /\ grants_'[i].start = grants_[i].start /\ grants_'[i].num = grants_[i].num
              /\ grants_'[i].st = grants_[i].st /\ grants_'[i].h2d = grants_[i].h2d
              /\ \A r \in Gpus : grants_'[i].ffn[r] = IF r = g THEN Minus1(grants_[i].ffn[r])
                                                      ELSE grants_[i].ffn[r]
<1>1. DOMAIN grants_ = 1..Len(grants_) /\ Len(grants_) \in Nat
  OBVIOUS
<1>2. ASSUME NEW i \in 1..Len(grants_)
      PROVE  /\ grants_'[i] \in GrantType
             /\ grants_'[i].start = grants_[i].start /\ grants_'[i].num = grants_[i].num
             /\ grants_'[i].st = grants_[i].st /\ grants_'[i].h2d = grants_[i].h2d
             /\ \A r \in Gpus : grants_'[i].ffn[r] = IF r = g THEN Minus1(grants_[i].ffn[r])
                                                     ELSE grants_[i].ffn[r]
  <2>1. PICK a : a = grants_[i]
    OBVIOUS
  <2>2. a \in GrantType
    BY <1>1, <2>1
  <2>3. a.ffn \in [Gpus -> 0..StreamDepth]
    BY <2>2 DEF GrantType
  <2> DEFINE d == [a.ffn EXCEPT ![g] = Minus1(a.ffn[g])]
  <2>4. grants_'[i] = [a EXCEPT !.ffn = d]
    BY <1>1, <2>1
  <2>5. d \in [Gpus -> 0..StreamDepth]
        /\ \A r \in Gpus : d[r] = IF r = g THEN Minus1(a.ffn[r]) ELSE a.ffn[r]
    BY <2>3, Minus1Type
  <2> HIDE DEF d
  <2>6. PICK b : b = [a EXCEPT !.ffn = d]
    OBVIOUS
  <2>7. /\ b \in GrantType /\ b.start = a.start /\ b.num = a.num /\ b.st = a.st
        /\ b.h2d = a.h2d /\ b.ffn = d
    BY <2>2, <2>5, <2>6 DEF GrantType
  <2>8. grants_'[i] = b
    BY <2>4, <2>6
  <2> QED  BY <2>1, <2>5, <2>7, <2>8, Zenon
<1>3. grants_' = [i \in 1..Len(grants_) |-> grants_'[i]]
  BY <1>1
<1>4. grants_' \in Seq(GrantType) /\ Len(grants_') = Len(grants_)
  <2>1. PICK n \in Nat : n = Len(grants_)
    BY <1>1
  <2>2. grants_' \in [1..n -> GrantType]
    BY <1>2, <1>3, <2>1
  <2> QED  BY <2>1, <2>2
<1> QED  BY <1>2, <1>4

LEMMA FfnSound == ASSUME ZoneSound, NEW g \in Gpus, ffn_step(g) PROVE ZoneSound'
<1>1. /\ Types /\ ZonesType(zones) /\ StreamsType /\ LentExactly /\ CopiesOwn(zones, h2d)
      /\ KernelsOwn /\ Fenced /\ LockedStays /\ grants_ \in Seq(GrantType) /\ moe \in Moe
      /\ ffn \in [Gpus -> Seq(SUBSET Ids)]
  BY DEF ZoneSound, Types, StreamsType
<1>2. /\ ffn[g] # <<>> /\ ffn' = [ffn EXCEPT ![g] = Tail(@)]
      /\ grants_' = [i \in DOMAIN grants_ |-> [grants_[i] EXCEPT !.ffn[g] = Minus1(@)]]
      /\ moe' = IF moe.state = "pending" /\ moe.on = g THEN [moe EXCEPT !.ahead = Minus1(@)] ELSE moe
      /\ UNCHANGED <<stage, slab, zones, cooldown, eager, h2d, waiting>>
  BY DEF ffn_step
<1>3. /\ ffn[g] \in Seq(SUBSET Ids)
      /\ ffn'[g] = Tail(ffn[g]) /\ \A r \in Gpus : r # g => ffn'[r] = ffn[r]
  BY <1>1, <1>2
<1>4. /\ Tail(ffn[g]) \in Seq(SUBSET Ids) /\ Len(ffn[g]) \in Nat /\ Len(ffn'[g]) = Len(ffn[g]) - 1
      /\ \A k \in 1..Len(ffn'[g]) : k + 1 \in 1..Len(ffn[g]) /\ ffn'[g][k] = ffn[g][k + 1]
  <2>1. PICK q : q = ffn[g]
    OBVIOUS
  <2>2. q \in Seq(SUBSET Ids) /\ q # <<>>
    BY <1>2, <1>3, <2>1
  <2>3. /\ Tail(q) \in Seq(SUBSET Ids) /\ Len(q) \in Nat /\ Len(Tail(q)) = Len(q) - 1
        /\ \A k \in 1..Len(Tail(q)) : k + 1 \in 1..Len(q) /\ Tail(q)[k] = q[k + 1]
    BY <2>2, TailMoves
  <2> QED  BY <1>3, <2>1, <2>3
<1>5. /\ grants_' \in Seq(GrantType) /\ Len(grants_') = Len(grants_)
      /\ \A i \in 1..Len(grants_) :
           /\ grants_'[i].start = grants_[i].start /\ grants_'[i].num = grants_[i].num
           /\ grants_'[i].st = grants_[i].st /\ grants_'[i].h2d = grants_[i].h2d
           /\ \A r \in Gpus : grants_'[i].ffn[r] = IF r = g THEN Minus1(grants_[i].ffn[r])
                                                   ELSE grants_[i].ffn[r]
  BY <1>1, <1>2, KernelAges
<1>6. Types'
  <2>1. moe' \in Moe
    <3>1. moe.ahead \in 0..StreamDepth
      BY <1>1 DEF Moe
    <3>2. Minus1(moe.ahead) \in 0..StreamDepth
      BY <3>1, Minus1Type
    <3> QED  BY <1>1, <1>2, <3>2 DEF Moe
  <2>2. ffn' \in [Gpus -> Seq(SUBSET Ids)]
    BY <1>1, <1>2, <1>4
  <2>3. \A r \in Gpus : Len(ffn'[r]) <= StreamDepth
    <3>1. ASSUME NEW r \in Gpus, r # g PROVE Len(ffn'[r]) <= StreamDepth
      BY <1>1, <1>3, <3>1 DEF StreamsType
    <3>2. Len(ffn[g]) <= StreamDepth
      BY <1>1 DEF StreamsType
    <3>3. Len(ffn'[g]) <= StreamDepth
      BY <1>4, <3>2, RebalancerAssumption
    <3> QED  BY <3>1, <3>3
  <2>4. StreamsType'
    BY <1>1, <1>2, <2>2, <2>3 DEF StreamsType
  <2>5. ZonesType(zones)'
    BY <1>1, <1>2 DEF ZonesType
  <2> QED  BY <1>1, <1>2, <1>5, <2>1, <2>4, <2>5 DEF Types
<1>7. LentExactly'
  <2>1. zones' = zones /\ slab' = slab
    BY <1>2
  <2>2. SamePlaces
    BY <1>1, <1>5, <2>1 DEF SamePlaces
  <2> QED  BY <1>1, <2>1, <2>2, LentKeeps
<1>8. CopiesOwn(zones, h2d)'
  <2>1. zones' = zones /\ h2d' = h2d
    BY <1>2
  <2>2. CopiesOwn(zones, h2d)
    BY <1>1
  <2>3. CopiesOwn(zones', h2d')
    BY <2>1, <2>2
  <2> QED  BY <2>3 DEF CopiesOwn
<1>9. KernelsOwn'
  <2>1. ASSUME NEW r \in Gpus, NEW k \in 1..Len(ffn'[r]) PROVE ffn'[r][k] \subseteq DOMAIN zones[r]
    <3>1. CASE r # g
      BY <1>1, <1>3, <3>1 DEF KernelsOwn
    <3>2. CASE r = g
      <4>1. k + 1 \in 1..Len(ffn[g]) /\ ffn'[g][k] = ffn[g][k + 1]
        BY <1>4, <3>2
      <4> QED  BY <1>1, <3>2, <4>1 DEF KernelsOwn
    <3> QED  BY <3>1, <3>2
  <2> QED  BY <1>2, <2>1 DEF KernelsOwn
<1>10. Fenced'
  <2>1. SUFFICES ASSUME NEW n \in 1..Len(grants_), NEW r \in Gpus PROVE FencedBy(zones, grants_[n], r)'
    BY <1>5 DEF Fenced
  <2>2. PICK a, b : a = grants_[n] /\ b = grants_'[n]
    OBVIOUS
  <2>3. FencedBy(zones, a, r) /\ a \in GrantType
    BY <1>1, <2>2 DEF Fenced
  <2>4. /\ b.start = a.start /\ b.st = a.st /\ b.h2d = a.h2d
        /\ b.ffn[r] = IF r = g THEN Minus1(a.ffn[r]) ELSE a.ffn[r]
    BY <1>5, <2>2
  <2>5. ASSUME a.st = "barrier", NEW k \in 1..Len(ffn'[r]), a.start \in ffn'[r][k]
        PROVE  k <= b.ffn[r]
    <3>1. CASE r # g
      BY <1>3, <2>3, <2>4, <2>5, <3>1 DEF FencedBy
    <3>2. CASE r = g
      <4>1. k + 1 \in 1..Len(ffn[g]) /\ ffn'[g][k] = ffn[g][k + 1] /\ k \in Nat
        BY <1>4, <3>2
      <4>2. k + 1 <= a.ffn[g]
        BY <2>3, <2>5, <3>2, <4>1 DEF FencedBy
      <4>3. a.ffn[g] \in 0..StreamDepth
        BY <2>3 DEF GrantType
      <4> QED  BY <2>4, <3>2, <4>1, <4>2, <4>3, Minus1Type
    <3> QED  BY <3>1, <3>2
  <2>6. zones' = zones /\ h2d' = h2d
    BY <1>2
  <2> QED  BY <2>2, <2>3, <2>4, <2>5, <2>6 DEF FencedBy, Residents
<1>11. LockedStays'
  <2>1. moe'.locked = moe.locked
    BY <1>1, <1>2 DEF Moe
  <2> QED  BY <1>1, <1>2, <2>1, LocksKeep
<1> QED  BY <1>6, <1>7, <1>8, <1>9, <1>10, <1>11 DEF ZoneSound

LEMMA H2dSound == ASSUME ZoneSound, NEW g \in Gpus, h2d_step(g) PROVE ZoneSound'
<1>1. /\ Types /\ ZonesType(zones) /\ StreamsType /\ LentExactly /\ CopiesOwn(zones, h2d)
      /\ KernelsOwn /\ Fenced /\ LockedStays /\ grants_ \in Seq(GrantType)
      /\ h2d \in [Gpus -> Seq(Copy)]
  BY DEF ZoneSound, Types, StreamsType
<1>2. PICK c : c = h2d[g][1]
  OBVIOUS
<1>3. h2d[g] # <<>> /\ h2d[g] \in Seq(Copy)
  BY <1>1 DEF h2d_step
<1>4. /\ Tail(h2d[g]) \in Seq(Copy) /\ Len(h2d[g]) \in Nat /\ Len(h2d[g]) >= 1 /\ Head(h2d[g]) = c
      /\ Len(Tail(h2d[g])) = Len(h2d[g]) - 1
      /\ \A k \in 1..Len(Tail(h2d[g])) : /\ k + 1 \in 1..Len(h2d[g]) /\ k + 1 # 1
                                         /\ Tail(h2d[g])[k] = h2d[g][k + 1]
  BY <1>2, <1>3, TailMoves
<1>5. /\ h2d' = [h2d EXCEPT ![g] = Tail(@)]
      /\ zones' = IF c.live = "yes" THEN SetSlot(g, c.id, c.slot, "ready") ELSE zones
      /\ grants_' = [i \in DOMAIN grants_ |-> [grants_[i] EXCEPT !.h2d[g] = Minus1(@)]]
      /\ UNCHANGED <<stage, slab, cooldown, eager, ffn, moe, waiting>>
  BY <1>4 DEF h2d_step
<1>6. h2d'[g] = Tail(h2d[g]) /\ \A r \in Gpus : r # g => h2d'[r] = h2d[r]
  BY <1>1, <1>5
<1>7. h2d' \in [Gpus -> Seq(Copy)] /\ \A r \in Gpus : Len(h2d'[r]) <= StreamDepth
  <2>1. h2d' \in [Gpus -> Seq(Copy)]
    BY <1>1, <1>4, <1>5
  <2>2. ASSUME NEW r \in Gpus, r # g PROVE Len(h2d'[r]) <= StreamDepth
    BY <1>1, <1>6, <2>2 DEF StreamsType
  <2>3. Len(h2d[g]) <= StreamDepth
    BY <1>1 DEF StreamsType
  <2>4. Len(h2d'[g]) <= StreamDepth
    BY <1>4, <1>6, <2>3, RebalancerAssumption
  <2> QED  BY <2>1, <2>2, <2>4
<1>8. /\ grants_' \in Seq(GrantType) /\ Len(grants_') = Len(grants_)
      /\ \A i \in 1..Len(grants_) :
           /\ grants_'[i].start = grants_[i].start /\ grants_'[i].num = grants_[i].num
           /\ grants_'[i].st = grants_[i].st /\ grants_'[i].ffn = grants_[i].ffn
           /\ \A r \in Gpus : grants_'[i].h2d[r] = IF r = g THEN Minus1(grants_[i].h2d[r])
                                                   ELSE grants_[i].h2d[r]
  BY <1>1, <1>5, CopyAges
<1>9. /\ c.id \in DOMAIN zones[g]
      /\ c.live = "yes" => /\ c.slot \in DOMAIN zones[g][c.id].slots
                           /\ zones[g][c.id].slots[c.slot] = "arriving"
  <2>1. 1 \in 1..Len(h2d[g])
    BY <1>4
  <2> QED  BY <1>1, <1>2, <2>1 DEF CopiesOwn
<1>10. c.live = "yes" => SlotSet(zones', g, c.id, c.slot, "ready")
  BY <1>1, <1>5, <1>9, SetSlotEffect DEF SlotStates
<1>11. /\ ZonesType(zones') /\ \A r \in Gpus : DOMAIN zones'[r] = DOMAIN zones[r]
       /\ \A r \in Gpus : \A d \in DOMAIN zones[r] :
            /\ DOMAIN zones'[r][d].slots = DOMAIN zones[r][d].slots
            /\ \A j \in DOMAIN zones[r][d].slots :
                 zones'[r][d].slots[j] =
                   IF c.live = "yes" /\ r = g /\ d = c.id /\ j = c.slot THEN "ready"
                   ELSE zones[r][d].slots[j]
  <2>1. CASE c.live = "yes"
    BY <1>10, <2>1 DEF SlotSet
  <2>2. CASE c.live # "yes"
    <3>1. zones' = zones
      BY <1>5, <2>2
    <3> QED  BY <1>1, <2>2, <3>1
  <2> QED  BY <2>1, <2>2
<1>12. ASSUME NEW n \in 1..Len(grants_), NEW r \in Gpus
       PROVE  /\ grants_[n].st # "active" => zones'[r][grants_[n].start].draining = "yes"
              /\ grants_[n].st = "barrier" => Residents(zones', r, grants_[n].start) = {}
  <2>1. CASE c.live = "yes"
    <3>1. PICK id, i : id = c.id /\ i = c.slot
      OBVIOUS
    <3>2. /\ SlotSet(zones', g, id, i, "ready") /\ id \in DOMAIN zones[g]
          /\ i \in DOMAIN zones[g][id].slots /\ zones[g][id].slots[i] # "free"
      BY <1>9, <1>10, <2>1, <3>1
    <3> QED  BY <3>2, EmptyKeeps
  <2>2. CASE c.live # "yes"
    <3>1. zones' = zones
      BY <1>5, <2>2
    <3>2. FencedBy(zones, grants_[n], r)
      BY <1>1 DEF Fenced
    <3> QED  BY <3>1, <3>2 DEF FencedBy
  <2> QED  BY <2>1, <2>2
<1>13. Types'
  <2>1. StreamsType'
    BY <1>1, <1>5, <1>7 DEF StreamsType
  <2>2. ZonesType(zones)'
    BY <1>11 DEF ZonesType
  <2> QED  BY <1>1, <1>5, <1>8, <2>1, <2>2 DEF Types
<1>14. LentExactly'
  BY <1>1, <1>5, <1>8, <1>11, LentKeeps DEF SamePlaces
<1>15. KernelsOwn'
  BY <1>1, <1>5, <1>11 DEF KernelsOwn
<1>16. LockedStays'
  <2>1. moe' = moe
    BY <1>5
  <2>2. ASSUME NEW r \in Gpus, NEW id \in DOMAIN zones[r], NEW i \in DOMAIN zones[r][id].slots,
               zones[r][id].slots[i] = "ready"
        PROVE  /\ id \in DOMAIN zones'[r] /\ i \in DOMAIN zones'[r][id].slots
               /\ zones'[r][id].slots[i] = "ready"
    BY <1>11, <2>2
  <2> QED  BY <1>1, <2>1, <2>2, LocksKeep
<1>17. Fenced'
  <2>1. SUFFICES ASSUME NEW n \in 1..Len(grants_), NEW r \in Gpus PROVE FencedBy(zones, grants_[n], r)'
    BY <1>8 DEF Fenced
  <2>2. PICK a, b : a = grants_[n] /\ b = grants_'[n]
    OBVIOUS
  <2>3. FencedBy(zones, a, r) /\ a \in GrantType
    BY <1>1, <2>2 DEF Fenced
  <2>4. /\ b.start = a.start /\ b.st = a.st /\ b.ffn = a.ffn
        /\ b.h2d[r] = IF r = g THEN Minus1(a.h2d[r]) ELSE a.h2d[r]
    BY <1>8, <2>2
  <2>5. ASSUME a.st = "barrier", NEW k \in 1..Len(h2d'[r]), h2d'[r][k].id = a.start
        PROVE  k <= b.h2d[r]
    <3>1. CASE r # g
      BY <1>6, <2>3, <2>4, <2>5, <3>1 DEF FencedBy
    <3>2. CASE r = g
      <4>1. k + 1 \in 1..Len(h2d[g]) /\ h2d'[g][k] = h2d[g][k + 1] /\ k \in Nat
        <5>1. k \in 1..Len(Tail(h2d[g])) /\ h2d'[g] = Tail(h2d[g])
          BY <1>6, <3>2
        <5> QED  BY <1>4, <5>1
      <4>2. k + 1 <= a.h2d[g]
        BY <2>3, <2>5, <3>2, <4>1 DEF FencedBy
      <4>3. a.h2d[g] \in 0..StreamDepth
        BY <2>3 DEF GrantType
      <4> QED  BY <2>4, <3>2, <4>1, <4>2, <4>3, Minus1Type
    <3> QED  BY <3>1, <3>2
  <2>6. /\ a.st # "active" => zones'[r][a.start].draining = "yes"
        /\ a.st = "barrier" => Residents(zones', r, a.start) = {}
    BY <1>12, <2>2
  <2>7. ffn' = ffn
    BY <1>5
  <2> QED  BY <2>2, <2>3, <2>4, <2>5, <2>6, <2>7 DEF FencedBy, Residents
<1>18. CopiesOwn(zones', h2d')
  <2>1. SUFFICES ASSUME NEW r \in Gpus
        PROVE  /\ \A k \in 1..Len(h2d'[r]) :
                    /\ h2d'[r][k].id \in DOMAIN zones'[r]
                    /\ h2d'[r][k].live = "yes" =>
                         /\ h2d'[r][k].slot \in DOMAIN zones'[r][h2d'[r][k].id].slots
                         /\ zones'[r][h2d'[r][k].id].slots[h2d'[r][k].slot] = "arriving"
               /\ \A j, k \in 1..Len(h2d'[r]) :
                    /\ h2d'[r][j].live = "yes" /\ h2d'[r][k].live = "yes"
                    /\ h2d'[r][j].id = h2d'[r][k].id /\ h2d'[r][j].slot = h2d'[r][k].slot
                    => j = k
    BY DEF CopiesOwn
  <2>2. ASSUME NEW k \in 1..Len(h2d[r]), r = g => k # 1
        PROVE  /\ h2d[r][k].id \in DOMAIN zones'[r]
               /\ h2d[r][k].live = "yes" =>
                    /\ h2d[r][k].slot \in DOMAIN zones'[r][h2d[r][k].id].slots
                    /\ zones'[r][h2d[r][k].id].slots[h2d[r][k].slot] = "arriving"
    <3>1. PICK b : b = h2d[r][k]
      OBVIOUS
    <3>2. b.id \in DOMAIN zones[r] /\ (b.live = "yes" =>
            b.slot \in DOMAIN zones[r][b.id].slots /\ zones[r][b.id].slots[b.slot] = "arriving")
      BY <1>1, <3>1 DEF CopiesOwn
    <3>3. ASSUME b.live = "yes", c.live = "yes", r = g, b.id = c.id, b.slot = c.slot PROVE FALSE
      <4>1. 1 \in 1..Len(h2d[g]) /\ k \in 1..Len(h2d[g]) /\ k # 1
        BY <1>4, <2>2, <3>3
      <4>2. h2d[g][k] = b /\ h2d[g][1] = c
        BY <1>2, <3>1, <3>3
      <4> QED  BY <1>1, <3>3, <4>1, <4>2 DEF CopiesOwn
    <3> QED  BY <1>11, <3>1, <3>2, <3>3
  <2>3. CASE r # g
    <3>1. h2d'[r] = h2d[r]
      BY <1>6, <2>3
    <3> QED  BY <1>1, <2>2, <2>3, <3>1 DEF CopiesOwn
  <2>4. CASE r = g
    <3>1. \A k \in 1..Len(h2d'[g]) : /\ k \in Int /\ k + 1 \in 1..Len(h2d[g]) /\ k + 1 # 1
                                     /\ h2d'[g][k] = h2d[g][k + 1]
      BY <1>4, <1>6
    <3>2. \A j, k \in 1..Len(h2d'[g]) : j + 1 = k + 1 => j = k
      OBVIOUS
    <3>3. \A j, k \in 1..Len(h2d[g]) :
            /\ h2d[g][j].live = "yes" /\ h2d[g][k].live = "yes"
            /\ h2d[g][j].id = h2d[g][k].id /\ h2d[g][j].slot = h2d[g][k].slot
            => j = k
      BY <1>1 DEF CopiesOwn
    <3>4. ASSUME NEW k \in 1..Len(h2d'[g])
          PROVE  /\ h2d'[g][k].id \in DOMAIN zones'[g]
                 /\ h2d'[g][k].live = "yes" =>
                      /\ h2d'[g][k].slot \in DOMAIN zones'[g][h2d'[g][k].id].slots
                      /\ zones'[g][h2d'[g][k].id].slots[h2d'[g][k].slot] = "arriving"
      <4>1. k + 1 \in 1..Len(h2d[g]) /\ k + 1 # 1 /\ h2d'[g][k] = h2d[g][k + 1]
        BY <3>1
      <4>2. PICK m : m = k + 1
        OBVIOUS
      <4>3. m \in 1..Len(h2d[r]) /\ m # 1 /\ h2d'[r][k] = h2d[r][m]
        BY <2>4, <4>1, <4>2
      <4> QED  BY <2>2, <2>4, <4>3
    <3>5. ASSUME NEW j \in 1..Len(h2d'[g]), NEW k \in 1..Len(h2d'[g]),
                 h2d'[g][j].live = "yes", h2d'[g][k].live = "yes",
                 h2d'[g][j].id = h2d'[g][k].id, h2d'[g][j].slot = h2d'[g][k].slot
          PROVE  j = k
      <4>1. PICK m, n : m = j + 1 /\ n = k + 1
        OBVIOUS
      <4>2. /\ m \in 1..Len(h2d[g]) /\ h2d'[g][j] = h2d[g][m]
            /\ n \in 1..Len(h2d[g]) /\ h2d'[g][k] = h2d[g][n]
        BY <3>1, <4>1
      <4>3. m = n
        BY <3>3, <3>5, <4>2
      <4> QED  BY <3>2, <4>1, <4>3
    <3> QED  BY <2>4, <3>4, <3>5
  <2> QED  BY <2>3, <2>4
<1> QED  BY <1>13, <1>14, <1>15, <1>16, <1>17, <1>18 DEF ZoneSound, CopiesOwn

LEMMA CacheSound == ASSUME ZoneSound, Cache PROVE ZoneSound'
BY ReserveSound, EvictSound, CancelSound DEF Cache

LEMMA StreamsSound == ASSUME ZoneSound, Streams PROVE ZoneSound'
BY H2dSound, FfnSound DEF Streams

-------------------------------------------------------------------------------
(* The steps of a tick.                                                    *)

\* A function on 1..n is a sequence.
LEMMA FunctionIsSeq ==
  ASSUME NEW A, NEW n \in Nat, NEW q \in [1..n -> A]
  PROVE  q \in Seq(A) /\ Len(q) = n
OBVIOUS

\* Grants get into the drain: their zones offer no slot from now on.
LEMMA DrainSound ==
  ASSUME ZoneSound, NEW D, D \subseteq 1..Len(grants_), \A i \in D : grants_[i].st = "active",
         zones' = begin_drain_elastic_zone({grants_[i].start : i \in D}),
         grants_' = [i \in DOMAIN grants_ |->
                       IF i \in D THEN [grants_[i] EXCEPT !.st = "draining"] ELSE grants_[i]],
         UNCHANGED <<slab, cooldown, h2d, ffn, moe, waiting>>,
         eager' \in {Unarmed} \cup 0..Slabs, stage' \in {"loop", "pressure", "grant"}
  PROVE  ZoneSound'
<1>1. /\ Types /\ ZonesType(zones) /\ StreamsType /\ LentExactly /\ CopiesOwn(zones, h2d)
      /\ KernelsOwn /\ Fenced /\ LockedStays /\ grants_ \in Seq(GrantType)
  BY DEF ZoneSound, Types
<1>2. DOMAIN grants_ = 1..Len(grants_) /\ Len(grants_) \in Nat
  BY <1>1
<1>3. PICK S : S = {grants_[i].start : i \in D}
  OBVIOUS
<1>4. ASSUME NEW r \in Gpus
      PROVE  /\ DOMAIN zones'[r] = DOMAIN zones[r]
             /\ \A id \in DOMAIN zones[r] :
                  /\ zones'[r][id] \in Zone /\ zones'[r][id].slots = zones[r][id].slots
                  /\ zones'[r][id].draining = IF id \in S THEN "yes" ELSE zones[r][id].draining
  <2>1. zones'[r] = [id \in DOMAIN zones[r] |->
          IF id \in S THEN [zones[r][id] EXCEPT !.draining = "yes"] ELSE zones[r][id]]
    BY <1>3 DEF begin_drain_elastic_zone
  <2>2. \A id \in DOMAIN zones[r] : zones[r][id] \in Zone
    BY <1>1 DEF ZonesType
  <2>3. ASSUME NEW id \in DOMAIN zones[r]
        PROVE  /\ zones'[r][id] \in Zone /\ zones'[r][id].slots = zones[r][id].slots
               /\ zones'[r][id].draining = IF id \in S THEN "yes" ELSE zones[r][id].draining
    <3>1. PICK z : z = zones[r][id]
      OBVIOUS
    <3>2. PICK y : y = [z EXCEPT !.draining = "yes"]
      OBVIOUS
    <3>3. z \in Zone /\ zones'[r][id] = IF id \in S THEN y ELSE z
      BY <2>1, <2>2, <3>1, <3>2
    <3>4. y \in Zone /\ y.slots = z.slots /\ y.draining = "yes"
      BY <3>2, <3>3 DEF Zone
    <3> QED  BY <3>1, <3>3, <3>4
  <2>4. DOMAIN zones'[r] = DOMAIN zones[r]
    BY <2>1
  <2> QED  BY <2>3, <2>4
<1>5. ZonesType(zones)'
  <2>1. DOMAIN zones' = Gpus
    BY DEF begin_drain_elastic_zone
  <2>2. ASSUME NEW r \in Gpus PROVE zones'[r] \in [DOMAIN zones'[r] -> Zone]
    <3>1. zones'[r] = [id \in DOMAIN zones'[r] |-> zones'[r][id]]
      BY <1>4 DEF begin_drain_elastic_zone
    <3> QED  BY <1>4, <3>1
  <2>3. \A r \in Gpus : DOMAIN zones'[r] \subseteq Ids
    BY <1>1, <1>4 DEF ZonesType
  <2> QED  BY <2>1, <2>2, <2>3 DEF ZonesType
<1>6. ASSUME NEW i \in 1..Len(grants_)
      PROVE  /\ grants_'[i] \in GrantType
             /\ grants_'[i].start = grants_[i].start /\ grants_'[i].num = grants_[i].num
             /\ grants_'[i].st = IF i \in D THEN "draining" ELSE grants_[i].st
             /\ grants_'[i].h2d = grants_[i].h2d /\ grants_'[i].ffn = grants_[i].ffn
  <2>1. PICK a, b : a = grants_[i] /\ b = [a EXCEPT !.st = "draining"]
    OBVIOUS
  <2>2. a \in GrantType
    BY <1>1, <1>2, <2>1
  <2>3. grants_'[i] = IF i \in D THEN b ELSE a
    BY <1>2, <2>1
  <2>4. /\ b \in GrantType /\ b.start = a.start /\ b.num = a.num /\ b.st = "draining"
        /\ b.h2d = a.h2d /\ b.ffn = a.ffn
    BY <2>1, <2>2 DEF GrantType
  <2>5. CASE i \in D
    <3>1. grants_'[i] = b
      BY <2>3, <2>5
    <3> QED  BY <2>1, <2>4, <2>5, <3>1
  <2>6. CASE i \notin D
    <3>1. grants_'[i] = a
      BY <2>3, <2>6
    <3> QED  BY <2>1, <2>2, <2>6, <3>1
  <2> QED  BY <2>5, <2>6
<1>7. grants_' \in Seq(GrantType) /\ Len(grants_') = Len(grants_)
  <2>1. PICK n \in Nat : n = Len(grants_)
    BY <1>2
  <2>2. grants_' = [i \in 1..n |-> grants_'[i]]
    BY <1>2, <2>1
  <2>3. grants_' \in [1..n -> GrantType]
    BY <1>6, <2>1, <2>2
  <2> QED  BY <2>1, <2>3, FunctionIsSeq
<1>8. Types'
  <2>1. StreamsType'
    BY <1>1 DEF StreamsType
  <2> QED  BY <1>1, <1>5, <1>7, <2>1 DEF Types
<1>9. LentExactly'
  <2>1. \A i \in 1..Len(grants_) :
          grants_'[i].start = grants_[i].start /\ grants_'[i].num = grants_[i].num
    BY <1>6
  <2>2. \A r \in Gpus : DOMAIN zones'[r] = DOMAIN zones[r]
    BY <1>4
  <2>3. SamePlaces
    BY <1>1, <1>7, <2>1, <2>2, Zenon DEF SamePlaces
  <2> QED  BY <1>1, <2>3, LentKeeps
<1>10. CopiesOwn(zones', h2d')
  <2>1. h2d' = h2d
    OBVIOUS
  <2>2. \A r \in Gpus : DOMAIN zones'[r] = DOMAIN zones[r]
                        /\ \A id \in DOMAIN zones[r] : zones'[r][id].slots = zones[r][id].slots
    BY <1>4
  <2>3. CopiesOwn(zones', h2d)
    <3>1. PICK zs : zs = zones'
      OBVIOUS
    <3>2. \A r \in Gpus : DOMAIN zs[r] = DOMAIN zones[r]
                          /\ \A id \in DOMAIN zones[r] : zs[r][id].slots = zones[r][id].slots
      BY <2>2, <3>1
    <3>3. CopiesOwn(zs, h2d)
      BY <1>1, <3>2 DEF CopiesOwn
    <3> QED  BY <3>1, <3>3
  <2> QED  BY <2>1, <2>3
<1>11. KernelsOwn'
  <2>1. ffn' = ffn /\ \A r \in Gpus : DOMAIN zones'[r] = DOMAIN zones[r]
    BY <1>4
  <2> QED  BY <1>1, <2>1 DEF KernelsOwn
<1>12. LockedStays'
  <2>1. \A r \in Gpus : \A id \in DOMAIN zones[r] :
          id \in DOMAIN zones'[r] /\ zones'[r][id].slots = zones[r][id].slots
    BY <1>4
  <2> QED  BY <1>1, <2>1, LocksKeep
<1>13. Fenced'
  <2>1. SUFFICES ASSUME NEW n \in 1..Len(grants_), NEW r \in Gpus PROVE FencedBy(zones, grants_[n], r)'
    BY <1>7 DEF Fenced
  <2>2. PICK a, b : a = grants_[n] /\ b = grants_'[n]
    OBVIOUS
  <2>3. FencedBy(zones, a, r) /\ a.start \in DOMAIN zones[r]
    BY <1>1, <2>2, GrantHasZone DEF Fenced
  <2>4. /\ b.start = a.start /\ b.st = (IF n \in D THEN "draining" ELSE a.st)
        /\ b.h2d = a.h2d /\ b.ffn = a.ffn
    BY <1>6, <2>2
  <2>5. /\ zones'[r][a.start].slots = zones[r][a.start].slots
        /\ zones'[r][a.start].draining = IF a.start \in S THEN "yes" ELSE zones[r][a.start].draining
    BY <1>4, <2>3
  <2>6. n \in D => a.start \in S
    BY <1>3, <2>2
  <2>7. b.st # "leaked" /\ (b.st # "active" => zones'[r][b.start].draining = "yes")
    BY <2>3, <2>4, <2>5, <2>6 DEF FencedBy
  <2>8. b.st = "barrier" =>
          /\ Residents(zones', r, b.start) = {}
          /\ \A k \in 1..Len(h2d[r]) : h2d[r][k].id = b.start => k <= b.h2d[r]
          /\ \A k \in 1..Len(ffn[r]) : b.start \in ffn[r][k] => k <= b.ffn[r]
    <3>1. b.st = "barrier" => a.st = "barrier"
      BY <2>4
    <3>2. Residents(zones', r, a.start) = Residents(zones, r, a.start)
      BY <2>5 DEF Residents
    <3> QED  BY <2>3, <2>4, <3>1, <3>2 DEF FencedBy
  <2>9. h2d' = h2d /\ ffn' = ffn
    OBVIOUS
  <2>10. /\ grants_'[n].st # "leaked"
         /\ grants_'[n].st # "active" => zones'[r][grants_'[n].start].draining = "yes"
         /\ grants_'[n].st = "barrier" =>
              /\ Residents(zones', r, grants_'[n].start) = {}
              /\ \A k \in 1..Len(h2d'[r]) : h2d'[r][k].id = grants_'[n].start => k <= grants_'[n].h2d[r]
              /\ \A k \in 1..Len(ffn'[r]) : grants_'[n].start \in ffn'[r][k] => k <= grants_'[n].ffn[r]
    BY <2>2, <2>7, <2>8, <2>9, Zenon
  <2> QED  BY <2>10, Zenon DEF FencedBy, Residents
<1> QED  BY <1>8, <1>9, <1>10, <1>11, <1>12, <1>13 DEF ZoneSound, CopiesOwn

\* Nothing but the stage, the cooldown or the eager reclaim changes.
LEMMA QuietSound ==
  ASSUME ZoneSound, UNCHANGED <<slab, zones, grants_, h2d, ffn, moe, waiting>>,
         cooldown' \in 0..CooldownTicks, eager' \in {Unarmed} \cup 0..Slabs,
         stage' \in {"loop", "pressure", "grant"}
  PROVE  ZoneSound'
<1>1. Types'
  BY DEF ZoneSound, Types, StreamsType, ZonesType
<1>2. LentExactly' /\ CopiesOwn(zones, h2d)' /\ KernelsOwn' /\ Fenced' /\ LockedStays'
  <2>1. CopiesOwn(zones, h2d)'
    BY DEF ZoneSound, CopiesOwn
  <2>2. KernelsOwn'
    BY DEF ZoneSound, KernelsOwn
  <2>3. Fenced'
    BY DEF ZoneSound, Fenced, FencedBy, Residents
  <2>4. LockedStays'
    BY DEF ZoneSound, LockedStays, ReadySlots
  <2>5. LentExactly'
    BY DEF ZoneSound, LentExactly, Span
  <2> QED  BY <2>1, <2>2, <2>3, <2>4, <2>5
<1> QED  BY <1>1, <1>2 DEF ZoneSound

LEMMA PressureSound == ASSUME ZoneSound, pressure PROVE ZoneSound'
<1>1. PICK D : D = ToDrain
  OBVIOUS
<1>2. /\ stage' = "grant" /\ eager' = Unarmed
      /\ UNCHANGED <<slab, cooldown, h2d, ffn, moe, waiting>>
      /\ \/ /\ zones' = begin_drain_elastic_zone({grants_[i].start : i \in D})
            /\ grants_' = [i \in DOMAIN grants_ |->
                             IF i \in D THEN [grants_[i] EXCEPT !.st = "draining"] ELSE grants_[i]]
         \/ UNCHANGED <<zones, grants_>>
  BY <1>1, Zenon DEF pressure, streamVars
<1>3. D \subseteq 1..Len(grants_) /\ \A i \in D : grants_[i].st = "active"
  <2>1. DOMAIN grants_ = 1..Len(grants_)
    BY DEF ZoneSound, Types
  <2>2. \A i \in D : i \in DOMAIN grants_ /\ grants_[i].st = "active"
    BY <1>1, Zenon DEF ToDrain
  <2> QED  BY <2>1, <2>2
<1>4. cooldown \in 0..CooldownTicks
  BY DEF ZoneSound, Types
<1>5. eager' \in {Unarmed} \cup 0..Slabs /\ stage' \in {"loop", "pressure", "grant"}
  BY <1>2
<1>6. CASE UNCHANGED <<zones, grants_>>
  BY <1>2, <1>4, <1>5, <1>6, QuietSound
<1>7. CASE ~ UNCHANGED <<zones, grants_>>
  BY <1>2, <1>3, <1>5, <1>7, DrainSound
<1> QED  BY <1>6, <1>7

\* A zone is claimed from slabs that are free on every GPU.
LEMMA GrantedSound ==
  ASSUME ZoneSound, NEW start, NEW num \in Int, num > 0, NEW n \in Nat,
         \A r \in Gpus : start \in Runs(r, num), Granted(start, num, n),
         UNCHANGED <<cooldown, eager, h2d, ffn, moe, waiting>>,
         stage' \in {"loop", "pressure", "grant"}
  PROVE  ZoneSound'
<1>1. /\ Types /\ ZonesType(zones) /\ StreamsType /\ LentExactly /\ CopiesOwn(zones, h2d)
      /\ KernelsOwn /\ Fenced /\ LockedStays /\ grants_ \in Seq(GrantType)
      /\ slab \in [Gpus -> [Ids -> {"free", "kv", "state", "zone"}]]
  BY DEF ZoneSound, Types
<1>2. DOMAIN grants_ = 1..Len(grants_) /\ Len(grants_) \in Nat
  BY <1>1
<1>3. PICK span : span = start..(start + num - 1)
  OBVIOUS
<1>4. 1 \in Gpus
  BY RebalancerAssumption DEF Gpus
<1>5. start \in Ids /\ start + num - 1 \in Ids /\ \A r \in Gpus : span \subseteq Free(slab, r)
  BY <1>3, <1>4 DEF Runs
<1>6. start \in Int /\ num \in 1..Slabs /\ start \in span
  BY <1>3, <1>5, RebalancerAssumption DEF Ids
<1>7. \A r \in Gpus : \A s \in span : s \in Ids /\ slab[r][s] = "free"
  BY <1>5 DEF Free
<1>8. \A r \in Gpus : start \notin DOMAIN zones[r]
  BY <1>1, <1>6, <1>7, LentSlabs
<1> DEFINE zero == [r \in Gpus |-> 0]
           new == [start |-> start, num |-> num, st |-> "active", h2d |-> zero, ffn |-> zero]
           slots == [i \in 1..n |-> "free"]
           zone == [draining |-> "no", slots |-> slots]
<1>9. /\ slab' = [r \in Gpus |-> [s \in Ids |-> IF s \in span THEN "zone" ELSE slab[r][s]]]
      /\ zones' = [r \in Gpus |-> [id \in DOMAIN zones[r] \cup {start} |->
                     IF id = start THEN zone ELSE zones[r][id]]]
      /\ grants_' = Append(grants_, new)
  BY <1>3 DEF Granted
<1>10. new \in GrantType /\ new.start = start /\ new.num = num /\ new.st = "active"
  <2>1. zero \in [Gpus -> 0..StreamDepth]
    BY RebalancerAssumption
  <2> HIDE DEF zero
  <2> QED  BY <1>5, <1>6, <2>1 DEF GrantType
<1>11. zone \in Zone
  <2>1. slots \in Seq(SlotStates)
    <3>1. slots \in [1..n -> SlotStates]
      BY DEF SlotStates
    <3> HIDE DEF slots
    <3> QED  BY <3>1, FunctionIsSeq
  <2> HIDE DEF slots
  <2> QED  BY <2>1 DEF Zone
<1> HIDE DEF new, zone
<1>12. /\ grants_' \in Seq(GrantType) /\ Len(grants_') = Len(grants_) + 1
       /\ grants_'[Len(grants_) + 1] = new
       /\ \A i \in 1..Len(grants_) : grants_'[i] = grants_[i]
  BY <1>1, <1>9, <1>10
<1>13. ASSUME NEW r \in Gpus
       PROVE  /\ DOMAIN zones'[r] = DOMAIN zones[r] \cup {start}
              /\ \A id \in DOMAIN zones[r] : zones'[r][id] = zones[r][id]
              /\ \A id \in DOMAIN zones'[r] : zones'[r][id] \in Zone
              /\ zones'[r] = [id \in DOMAIN zones'[r] |-> zones'[r][id]]
  <2>1. zones'[r] = [id \in DOMAIN zones[r] \cup {start} |-> IF id = start THEN zone ELSE zones[r][id]]
    BY <1>9
  <2>2. \A id \in DOMAIN zones[r] : zones[r][id] \in Zone /\ id # start
    BY <1>1, <1>8 DEF ZonesType
  <2>3. DOMAIN zones'[r] = DOMAIN zones[r] \cup {start}
    BY <2>1
  <2> QED  BY <1>11, <2>1, <2>2, <2>3
<1>14. ZonesType(zones)'
  <2>1. DOMAIN zones' = Gpus
    BY <1>9
  <2>2. ASSUME NEW r \in Gpus PROVE DOMAIN zones'[r] \subseteq Ids
    <3>1. DOMAIN zones[r] \subseteq Ids
      BY <1>1 DEF ZonesType
    <3>2. DOMAIN zones'[r] = DOMAIN zones[r] \cup {start}
      BY <1>13
    <3> QED  BY <1>5, <3>1, <3>2
  <2>3. ASSUME NEW r \in Gpus PROVE zones'[r] \in [DOMAIN zones'[r] -> Zone]
    BY <1>13
  <2> QED  BY <2>1, <2>2, <2>3 DEF ZonesType
<1>15. Types'
  <2>1. slab' \in [Gpus -> [Ids -> {"free", "kv", "state", "zone"}]]
    BY <1>1, <1>9
  <2>2. StreamsType'
    BY <1>1 DEF StreamsType
  <2> QED  BY <1>1, <1>12, <1>14, <2>1, <2>2 DEF Types
<1>16. LentExactly'
  <2> DEFINE m == Len(grants_)
  <2>1. DOMAIN grants_' = 1..(m + 1)
    BY <1>12
  <2>2. Span(new) = span /\ \A i \in 1..m : Span(grants_'[i]) = Span(grants_[i])
    BY <1>3, <1>10, <1>12 DEF Span
  <2>3. \A i \in 1..(m + 1) : i \in 1..m \/ i = m + 1
    BY <1>2
  <2>4. \A i \in 1..m : i \in 1..(m + 1) /\ i # m + 1
    BY <1>2
  <2>5. m + 1 \in 1..(m + 1) /\ grants_'[m + 1] = new
    BY <1>2, <1>12
  <2>6. ASSUME NEW r \in Gpus, NEW i \in 1..m PROVE Span(grants_[i]) \cap span = {}
    <3>1. Span(grants_[i]) \subseteq {s \in Ids : slab[r][s] = "zone"}
      BY <1>1, <1>2 DEF LentExactly
    <3> QED  BY <1>7, <3>1
  <2>7. ASSUME NEW r \in Gpus
        PROVE  {s \in Ids : slab'[r][s] = "zone"} = UNION {Span(grants_'[i]) : i \in 1..(m + 1)}
    <3>1. {s \in Ids : slab[r][s] = "zone"} = UNION {Span(grants_[i]) : i \in 1..m}
      BY <1>1, <1>2 DEF LentExactly
    <3>2. UNION {Span(grants_'[i]) : i \in 1..(m + 1)} = (UNION {Span(grants_[i]) : i \in 1..m}) \cup span
      <4> HIDE DEF m, Span
      <4>1. Span(grants_'[m + 1]) = span
        BY <2>2, <2>5
      <4>2. ASSUME NEW x, NEW i \in 1..(m + 1), x \in Span(grants_'[i])
            PROVE  x \in (UNION {Span(grants_[k]) : k \in 1..m}) \cup span
        <5>1. CASE i \in 1..m
          BY <2>2, <4>2, <5>1
        <5>2. CASE i = m + 1
          <6>1. x \in span
            BY <4>1, <4>2, <5>2, Zenon
          <6> QED  BY <6>1
        <5> QED  BY <2>3, <5>1, <5>2
      <4>3. ASSUME NEW x, NEW i \in 1..m, x \in Span(grants_[i])
            PROVE  x \in UNION {Span(grants_'[k]) : k \in 1..(m + 1)}
        BY <2>2, <2>4, <4>3
      <4>4. ASSUME NEW x \in span PROVE x \in UNION {Span(grants_'[k]) : k \in 1..(m + 1)}
        BY <2>5, <4>1
      <4>5. UNION {Span(grants_'[i]) : i \in 1..(m + 1)}
            \subseteq (UNION {Span(grants_[i]) : i \in 1..m}) \cup span
        BY <4>2, Zenon
      <4>6. UNION {Span(grants_[i]) : i \in 1..m} \subseteq UNION {Span(grants_'[i]) : i \in 1..(m + 1)}
        BY <4>3, Zenon
      <4> QED  BY <4>4, <4>5, <4>6
    <3>3. {s \in Ids : slab'[r][s] = "zone"} = {s \in Ids : slab[r][s] = "zone"} \cup span
      <4>1. \A s \in Ids : slab'[r][s] = IF s \in span THEN "zone" ELSE slab[r][s]
        BY <1>9
      <4>2. \A s \in Ids : slab'[r][s] = "zone" <=> s \in span \/ slab[r][s] = "zone"
        BY <4>1
      <4>3. span \subseteq Ids
        BY <1>7
      <4> QED  BY <4>2, <4>3
    <3> QED  BY <3>1, <3>2, <3>3
  <2>8. ASSUME NEW r \in Gpus
        PROVE  DOMAIN zones'[r] = {grants_'[i].start : i \in 1..(m + 1)}
    <3>1. DOMAIN zones[r] = {grants_[i].start : i \in 1..m}
      BY <1>1, <1>2 DEF LentExactly
    <3>2. \A i \in 1..m : grants_'[i] = grants_[i]
      BY <1>12
    <3> HIDE DEF m
    <3>3. {grants_'[i].start : i \in 1..(m + 1)} = {grants_[i].start : i \in 1..m} \cup {start}
      BY <1>10, <2>3, <2>4, <2>5, <3>2
    <3> QED  BY <1>13, <3>1, <3>3
  <2>9. ASSUME NEW i \in 1..(m + 1), NEW j \in 1..(m + 1), i # j
        PROVE  Span(grants_'[i]) \cap Span(grants_'[j]) = {}
    <3>1. CASE i \in 1..m /\ j \in 1..m
      <4>1. Span(grants_[i]) \cap Span(grants_[j]) = {}
        BY <1>1, <1>2, <1>4, <2>9, <3>1 DEF LentExactly
      <4> QED  BY <2>2, <3>1, <4>1
    <3>2. CASE i = m + 1
      <4>1. j \in 1..m
        BY <2>3, <2>9, <3>2
      <4> HIDE DEF m, Span
      <4> QED  BY <1>4, <2>2, <2>5, <2>6, <3>2, <4>1
    <3>3. CASE j = m + 1
      <4>1. i \in 1..m
        BY <2>3, <2>9, <3>3
      <4> HIDE DEF m, Span
      <4> QED  BY <1>4, <2>2, <2>5, <2>6, <3>3, <4>1
    <3> QED  BY <2>3, <3>1, <3>2, <3>3
  <2> HIDE DEF m, Span
  <2> QED  BY <2>1, <2>7, <2>8, <2>9 DEF LentExactly
<1>17. CopiesOwn(zones', h2d')
  <2>1. PICK zs : zs = zones'
    OBVIOUS
  <2>2. \A r \in Gpus : \A id \in DOMAIN zones[r] : id \in DOMAIN zs[r] /\ zs[r][id] = zones[r][id]
    BY <1>13, <2>1
  <2>3. CopiesOwn(zs, h2d)
    <3>1. CopiesOwn(zones, h2d)
      BY <1>1
    <3> QED  BY <2>2, <3>1 DEF CopiesOwn
  <2> QED  BY <2>1, <2>3
<1>18. KernelsOwn'
  <2>1. ffn' = ffn /\ \A r \in Gpus : DOMAIN zones[r] \subseteq DOMAIN zones'[r]
    BY <1>13
  <2> QED  BY <1>1, <2>1 DEF KernelsOwn
<1>19. LockedStays'
  <2>1. \A r \in Gpus : \A id \in DOMAIN zones[r] :
          id \in DOMAIN zones'[r] /\ zones'[r][id] = zones[r][id]
    BY <1>13
  <2> QED  BY <1>1, <2>1, LocksKeep
<1>20. Fenced'
  <2>1. SUFFICES ASSUME NEW k \in 1..(Len(grants_) + 1), NEW r \in Gpus PROVE FencedBy(zones, grants_[k], r)'
    BY <1>12 DEF Fenced
  <2>2. PICK b : b = grants_'[k]
    OBVIOUS
  <2>3. CASE k \in 1..Len(grants_)
    <3>1. b = grants_[k]
      BY <1>12, <2>2, <2>3
    <3>2. FencedBy(zones, b, r) /\ b.start \in DOMAIN zones[r]
      BY <1>1, <2>3, <3>1, GrantHasZone DEF Fenced
    <3>3. zones'[r][b.start] = zones[r][b.start]
      BY <1>13, <3>2
    <3> QED  BY <2>2, <3>2, <3>3 DEF FencedBy, Residents
  <2>4. CASE k = Len(grants_) + 1
    <3>1. b.st = "active"
      BY <1>10, <1>12, <2>2, <2>4
    <3> QED  BY <2>2, <3>1 DEF FencedBy
  <2> QED  BY <1>2, <2>3, <2>4
<1> QED  BY <1>15, <1>16, <1>17, <1>18, <1>19, <1>20 DEF ZoneSound, CopiesOwn

LEMMA GrantSound == ASSUME ZoneSound, try_grant PROVE ZoneSound'
<1>1. PICK num : num = Ask
  OBVIOUS
<1> DEFINE n(start) == slots_in(num, Misalign(start))
<1>2. /\ cooldown \in 0..CooldownTicks /\ eager \in {Unarmed} \cup 0..Slabs
  BY DEF ZoneSound, Types
<1>3. /\ stage' = "loop" /\ UNCHANGED <<cooldown, eager, h2d, ffn, moe, waiting>>
      /\ \/ \E start \in Topmost(num) : /\ num > 0 /\ n(start) >= 1 /\ Mirrored(start, num)
                                        /\ Granted(start, num, n(start))
         \/ UNCHANGED <<slab, zones, grants_>>
  BY <1>1, Zenon DEF try_grant, streamVars, rollback_partial
<1>4. CASE UNCHANGED <<slab, zones, grants_>>
  BY <1>2, <1>3, <1>4, QuietSound
<1>5. CASE ~ UNCHANGED <<slab, zones, grants_>>
  <2>1. PICK start \in Topmost(num) : /\ num > 0 /\ n(start) >= 1 /\ Mirrored(start, num)
                                      /\ Granted(start, num, n(start))
    BY <1>3, <1>5
  <2>2. num \in Int
    BY <1>1, AskType
  <2>3. \A r \in Gpus : start \in Runs(r, num)
    BY <2>1 DEF Mirrored, Claimable
  <2>4. start \in Int
    BY DEF Topmost, Runs, Ids
  <2>5. n(start) \in Int
    <3>1. Misalign(start) \in Int
      <4>1. start * SlabBytes \in Int /\ Align \in Nat \ {0}
        BY <2>4, GeometryAssumption
      <4> QED  BY <4>1 DEF Misalign
    <3> QED  BY <2>2, <3>1, SlotsInType
  <2>6. PICK k \in Nat : k = n(start)
    BY <2>1, <2>5
  <2> HIDE DEF n
  <2>7. Granted(start, num, k)
    BY <2>1, <2>6
  <2> QED  BY <1>3, <2>1, <2>2, <2>3, <2>6, <2>7, GrantedSound
<1> QED  BY <1>4, <1>5

\* zs is zones with some evictable residents gone.
Thinned(zs) ==
  /\ ZonesType(zs)
  /\ \A r \in Gpus : DOMAIN zs[r] = DOMAIN zones[r]
  /\ \A r \in Gpus : \A d \in DOMAIN zones[r] :
       /\ zs[r][d].draining = zones[r][d].draining
       /\ DOMAIN zs[r][d].slots = DOMAIN zones[r][d].slots
       /\ \A j \in DOMAIN zones[r][d].slots :
            \/ zs[r][d].slots[j] = zones[r][d].slots[j]
            \/ zs[r][d].slots[j] = "free" /\ Evictable(r, d, j)

LEMMA DrainedThins == ASSUME ZonesType(zones) PROVE Thinned(Drained)
<1>1. PICK zs : zs = Drained
  OBVIOUS
<1>2. ASSUME NEW r \in Gpus
      PROVE  /\ DOMAIN zs[r] = DOMAIN zones[r] /\ zs[r] \in [DOMAIN zones[r] -> Zone]
             /\ \A d \in DOMAIN zones[r] :
                  /\ zs[r][d].draining = zones[r][d].draining
                  /\ DOMAIN zs[r][d].slots = DOMAIN zones[r][d].slots
                  /\ \A j \in DOMAIN zones[r][d].slots :
                       \/ zs[r][d].slots[j] = zones[r][d].slots[j]
                       \/ zs[r][d].slots[j] = "free" /\ Evictable(r, d, j)
  <2> DEFINE hit(d) == \E j \in DOMAIN grants_ : grants_[j].start = d /\ grants_[j].st = "draining"
             left(d) == [i \in DOMAIN zones[r][d].slots |->
                           IF Evictable(r, d, i) THEN "free" ELSE zones[r][d].slots[i]]
             thin(d) == [zones[r][d] EXCEPT !.slots = left(d)]
  <2>1. zs[r] = [d \in DOMAIN zones[r] |-> IF hit(d) THEN thin(d) ELSE zones[r][d]]
    BY <1>1 DEF Drained
  <2> HIDE DEF hit
  <2>2. ASSUME NEW d \in DOMAIN zones[r]
        PROVE  /\ zs[r][d] \in Zone
               /\ zs[r][d].draining = zones[r][d].draining
               /\ DOMAIN zs[r][d].slots = DOMAIN zones[r][d].slots
               /\ \A j \in DOMAIN zones[r][d].slots :
                    \/ zs[r][d].slots[j] = zones[r][d].slots[j]
                    \/ zs[r][d].slots[j] = "free" /\ Evictable(r, d, j)
    <3>1. PICK z, l : z = zones[r][d] /\ l = left(d)
      OBVIOUS
    <3>2. z \in Zone /\ z.slots \in Seq(SlotStates)
      BY <3>1 DEF ZonesType, Zone
    <3>3. /\ DOMAIN l = DOMAIN z.slots
          /\ \A j \in DOMAIN z.slots : l[j] = IF Evictable(r, d, j) THEN "free" ELSE z.slots[j]
      BY <3>1
    <3>4. l \in Seq(SlotStates)
      <4>1. PICK n \in Nat : DOMAIN z.slots = 1..n
        BY <3>2
      <4>2. \A j \in 1..n : z.slots[j] \in SlotStates
        BY <3>2, <4>1
      <4>3. l = [j \in 1..n |-> l[j]]
        BY <3>1, <4>1
      <4>4. \A j \in 1..n : l[j] \in SlotStates
        BY <3>3, <4>1, <4>2 DEF SlotStates
      <4>5. l \in [1..n -> SlotStates]
        BY <4>3, <4>4
      <4> QED  BY <4>5, FunctionIsSeq
    <3>5. PICK y : y = [z EXCEPT !.slots = l]
      OBVIOUS
    <3>6. y \in Zone /\ y.draining = z.draining /\ y.slots = l
      BY <3>2, <3>4, <3>5 DEF Zone
    <3>7. zs[r][d] = y \/ zs[r][d] = z
      BY <2>1, <3>1, <3>5
    <3> QED  BY <3>1, <3>2, <3>3, <3>6, <3>7
  <2>3. DOMAIN zs[r] = DOMAIN zones[r]
    BY <2>1
  <2>4. zs[r] \in [DOMAIN zones[r] -> Zone]
    <3>1. zs[r] = [d \in DOMAIN zones[r] |-> zs[r][d]]
      BY <2>1
    <3> QED  BY <2>2, <3>1
  <2> QED  BY <2>2, <2>3, <2>4
<1>3. DOMAIN zs = Gpus
  BY <1>1 DEF Drained
<1>4. ZonesType(zs)
  BY <1>2, <1>3 DEF ZonesType
<1>5. Thinned(zs)
  BY <1>2, <1>4 DEF Thinned
<1> QED  BY <1>1, <1>5

\* A drained grant gets its barriers at the tails of the streams: everything that
\* goes to its zones or reads them is ahead of them.
LEMMA BarrieredFences ==
  ASSUME ZoneSound, NEW zs, Thinned(zs), NEW n \in 1..Len(grants_)
  PROVE  /\ Barriered(zs, grants_[n]) \in GrantType
         /\ Barriered(zs, grants_[n]).start = grants_[n].start
         /\ Barriered(zs, grants_[n]).num = grants_[n].num
         /\ \A r \in Gpus : FencedBy(zs, Barriered(zs, grants_[n]), r)
<1>1. /\ Types /\ LentExactly /\ StreamsType /\ Fenced /\ grants_ \in Seq(GrantType)
  BY DEF ZoneSound, Types
<1>2. PICK a : a = grants_[n]
  OBVIOUS
<1>3. /\ a \in GrantType
      /\ \A r \in Gpus : FencedBy(zones, a, r) /\ a.start \in DOMAIN zones[r]
  BY <1>1, <1>2, GrantHasZone DEF Fenced
<1>4. \A r \in Gpus : Len(h2d[r]) \in 0..StreamDepth /\ Len(ffn[r]) \in 0..StreamDepth
  <2>1. \A r \in Gpus : /\ Len(h2d[r]) \in Nat /\ Len(ffn[r]) \in Nat
                        /\ Len(h2d[r]) <= StreamDepth /\ Len(ffn[r]) <= StreamDepth
    BY <1>1 DEF StreamsType
  <2> QED  BY <2>1, RebalancerAssumption
<1>5. ASSUME NEW r \in Gpus, Residents(zones, r, a.start) = {} PROVE Residents(zs, r, a.start) = {}
  <2>1. /\ DOMAIN zs[r][a.start].slots = DOMAIN zones[r][a.start].slots
        /\ \A j \in DOMAIN zones[r][a.start].slots :
             zs[r][a.start].slots[j] = zones[r][a.start].slots[j] \/ zs[r][a.start].slots[j] = "free"
    BY <1>3 DEF Thinned
  <2>2. \A j \in DOMAIN zones[r][a.start].slots : zones[r][a.start].slots[j] = "free"
    BY <1>5 DEF Residents
  <2> QED  BY <2>1, <2>2 DEF Residents
<1>6. \A r \in Gpus : zs[r][a.start].draining = zones[r][a.start].draining
  BY <1>3 DEF Thinned
<1>7. PICK b : b = Barriered(zs, a)
  OBVIOUS
<1>8. CASE b = a
  <2>1. ASSUME NEW r \in Gpus PROVE FencedBy(zs, a, r)
    BY <1>3, <1>5, <1>6 DEF FencedBy
  <2> QED  BY <1>2, <1>3, <1>7, <1>8, <2>1
<1>9. CASE b # a
  <2>1. /\ a.st = "draining" /\ \A r \in Gpus : Residents(zs, r, a.start) = {}
        /\ b = record_barriers(a)
    BY <1>7, <1>9 DEF Barriered
  <2> DEFINE d == [r \in Gpus |-> Len(h2d[r])]
             f == [r \in Gpus |-> Len(ffn[r])]
  <2>2. d \in [Gpus -> 0..StreamDepth] /\ f \in [Gpus -> 0..StreamDepth]
    BY <1>4
  <2>3. \A r \in Gpus : d[r] = Len(h2d[r]) /\ f[r] = Len(ffn[r])
    OBVIOUS
  <2>4. b = [a EXCEPT !.st = "barrier", !.h2d = d, !.ffn = f]
    BY <2>1 DEF record_barriers
  <2> HIDE DEF d, f
  <2>5. /\ b \in GrantType /\ b.start = a.start /\ b.num = a.num /\ b.st = "barrier"
        /\ b.h2d = d /\ b.ffn = f
    BY <1>3, <2>2, <2>4 DEF GrantType
  <2>6. ASSUME NEW r \in Gpus PROVE FencedBy(zs, b, r)
    <3>1. zones[r][a.start].draining = "yes"
      BY <1>3, <2>1 DEF FencedBy
    <3>2. \A k \in 1..Len(h2d[r]) : k <= b.h2d[r]
      BY <1>4, <2>3, <2>5
    <3>3. \A k \in 1..Len(ffn[r]) : k <= b.ffn[r]
      BY <1>4, <2>3, <2>5
    <3>4. Residents(zs, r, b.start) = {}
      BY <2>1, <2>5
    <3>5. zs[r][b.start].draining = "yes"
      BY <1>6, <2>5, <3>1
    <3> QED  BY <2>5, <3>2, <3>3, <3>4, <3>5 DEF FencedBy
  <2> QED  BY <1>2, <1>7, <2>5, <2>6
<1> QED  BY <1>8, <1>9

LEMMA ReclaimSound == ASSUME ZoneSound, advance_reclaims PROVE ZoneSound'
<1>1. /\ Types /\ ZonesType(zones) /\ StreamsType /\ LentExactly /\ CopiesOwn(zones, h2d)
      /\ KernelsOwn /\ Fenced /\ LockedStays /\ grants_ \in Seq(GrantType)
      /\ slab \in [Gpus -> [Ids -> {"free", "kv", "state", "zone"}]]
      /\ cooldown \in 0..CooldownTicks
  BY DEF ZoneSound, Types
<1>2. PICK zs : zs = Drained
  OBVIOUS
<1>3. PICK gs : gs = [i \in DOMAIN grants_ |-> Barriered(zs, grants_[i])]
  OBVIOUS
<1>4. PICK over : over = {g \in ToSet(gs) : Finishing(g)}
  OBVIOUS
<1>5. PICK gone : gone = {g \in over : Reclaimed(zs, g)}
  OBVIOUS
<1>6. PICK K : K = {i \in DOMAIN gs : gs[i] \notin gone}
  OBVIOUS
<1>7. PICK kept : kept = InOrder(gs, K)
  OBVIOUS
<1>8. /\ stage' = "pressure"
      /\ zones' = [r \in Gpus |-> [id \in DOMAIN zones[r]
                     \ {g.start : g \in {h \in over : Removable(zs, r, h)}} |-> zs[r][id]]]
      /\ grants_' = [i \in DOMAIN kept |->
                       IF kept[i] \in over THEN [kept[i] EXCEPT !.st = "leaked"] ELSE kept[i]]
      /\ slab' = release_expert_zone(slab, gone)
      /\ cooldown' = IF gone # {} THEN CooldownTicks ELSE MaxOf(0, cooldown - 1)
      /\ UNCHANGED <<eager, h2d, ffn, moe, waiting>>
  BY <1>2, <1>3, <1>4, <1>5, <1>6, <1>7, Zenon DEF advance_reclaims, streamVars
<1>9. Thinned(zs)
  BY <1>1, <1>2, DrainedThins
<1>10. /\ gs \in Seq(GrantType) /\ Len(gs) = Len(grants_) /\ DOMAIN gs = 1..Len(gs)
       /\ DOMAIN grants_ = 1..Len(gs)
       /\ \A i \in 1..Len(gs) :
            /\ gs[i] \in GrantType /\ gs[i].start = grants_[i].start /\ gs[i].num = grants_[i].num
            /\ \A r \in Gpus : FencedBy(zs, gs[i], r) /\ gs[i].start \in DOMAIN zones[r]
  <2>1. PICK n \in Nat : n = Len(grants_) /\ DOMAIN grants_ = 1..n
    BY <1>1
  <2>2. ASSUME NEW i \in 1..n
        PROVE  /\ gs[i] \in GrantType /\ gs[i].start = grants_[i].start /\ gs[i].num = grants_[i].num
               /\ \A r \in Gpus : FencedBy(zs, gs[i], r) /\ gs[i].start \in DOMAIN zones[r]
    <3>1. gs[i] = Barriered(zs, grants_[i]) /\ i \in 1..Len(grants_)
      BY <1>3, <2>1
    <3>2. /\ gs[i] \in GrantType /\ gs[i].start = grants_[i].start /\ gs[i].num = grants_[i].num
          /\ \A r \in Gpus : FencedBy(zs, gs[i], r)
      BY <1>9, <3>1, BarrieredFences
    <3>3. \A r \in Gpus : grants_[i].start \in DOMAIN zones[r]
      BY <1>1, <3>1, GrantHasZone
    <3> QED  BY <3>2, <3>3
  <2>3. gs \in [1..n -> GrantType]
    BY <1>3, <2>1, <2>2
  <2>4. gs \in Seq(GrantType) /\ Len(gs) = n
    BY <2>3, FunctionIsSeq
  <2>5. DOMAIN gs = 1..n
    BY <2>3
  <2> QED  BY <2>1, <2>2, <2>4, <2>5
<1>11. over = {gs[i] : i \in {j \in 1..Len(gs) : Finishing(gs[j])}}
  BY <1>4, <1>10 DEF ToSet
<1>12. ASSUME NEW r \in Gpus, NEW i \in 1..Len(gs), Finishing(gs[i])
       PROVE  /\ Removable(zs, r, gs[i]) /\ Residents(zs, r, gs[i].start) = {}
              /\ \A k \in 1..Len(h2d[r]) : h2d[r][k].id # gs[i].start
              /\ \A k \in 1..Len(ffn[r]) : gs[i].start \notin ffn[r][k]
  <2>1. FencedBy(zs, gs[i], r) /\ gs[i].start \in DOMAIN zs[r]
    BY <1>9, <1>10 DEF Thinned
  <2>2. gs[i].st = "barrier" /\ gs[i].h2d[r] = 0 /\ gs[i].ffn[r] = 0
    BY <1>12 DEF Finishing, barriers_complete
  <2>3. /\ Residents(zs, r, gs[i].start) = {}
        /\ \A k \in 1..Len(h2d[r]) : h2d[r][k].id = gs[i].start => k <= 0
        /\ \A k \in 1..Len(ffn[r]) : gs[i].start \in ffn[r][k] => k <= 0
    BY <2>1, <2>2 DEF FencedBy
  <2> QED  BY <2>1, <2>3 DEF Removable
<1>13. gone = over
  <2>1. \A g \in over : Reclaimed(zs, g)
    BY <1>11, <1>12 DEF Reclaimed
  <2> QED  BY <1>5, <2>1
<1>14. PICK S : S = {g.start : g \in over}
  OBVIOUS
<1>15. /\ \A id \in S : \E i \in 1..Len(gs) : Finishing(gs[i]) /\ id = gs[i].start
       /\ \A i \in 1..Len(gs) : Finishing(gs[i]) => gs[i].start \in S
  BY <1>11, <1>14
<1>16. ASSUME NEW r \in Gpus
       PROVE  /\ zones'[r] = [id \in DOMAIN zones[r] \ S |-> zs[r][id]]
              /\ DOMAIN zones'[r] = DOMAIN zones[r] \ S
              /\ \A id \in DOMAIN zones[r] \ S : zones'[r][id] = zs[r][id]
  <2>1. {h \in over : Removable(zs, r, h)} = over
    BY <1>11, <1>12
  <2>2. zones'[r] = [id \in DOMAIN zones[r] \ S |-> zs[r][id]]
    BY <1>8, <1>14, <2>1
  <2> QED  BY <2>2
<1>17. K = {i \in 1..Len(gs) : ~ Finishing(gs[i])} /\ K \subseteq 1..Len(gs)
  <2>1. \A i \in 1..Len(gs) : gs[i] \in over <=> Finishing(gs[i])
    BY <1>4, <1>10 DEF ToSet
  <2> QED  BY <1>6, <1>10, <1>13, <2>1
<1>18. kept \in Seq(GrantType)
  BY <1>7, <1>10, <1>17, InOrderKeeps
<1>19. PICK p : /\ p \in [1..Len(kept) -> K]
                /\ \A m \in 1..Len(kept) : kept[m] = gs[p[m]]
                /\ \A m, l \in 1..Len(kept) : p[m] = p[l] => m = l
                /\ \A i \in K : \E m \in 1..Len(kept) : p[m] = i
  <2>1. \E p : Erased(gs, K, kept, p)
    BY <1>7, <1>10, <1>17, InOrderKeeps
  <2> QED  BY <2>1, Zenon DEF Erased
<1>20. grants_' = kept
  <2>1. DOMAIN kept = 1..Len(kept)
    BY <1>18
  <2>2. ASSUME NEW m \in 1..Len(kept) PROVE kept[m] \notin over
    <3>1. p[m] \in K /\ kept[m] = gs[p[m]]
      BY <1>19
    <3> QED  BY <1>6, <1>13, <3>1
  <2>3. grants_' = [m \in DOMAIN kept |-> kept[m]]
    BY <1>8, <2>1, <2>2
  <2>4. kept = [m \in DOMAIN kept |-> kept[m]]
    BY <1>18
  <2> QED  BY <2>3, <2>4
<1>21. \A i \in 1..Len(gs) : Span(gs[i]) = Span(grants_[i]) /\ gs[i].start \in Span(gs[i])
  <2>1. \A i \in 1..Len(gs) : Span(gs[i]) = Span(grants_[i])
    BY <1>10 DEF Span
  <2>2. ASSUME NEW i \in 1..Len(gs) PROVE gs[i].start \in Span(gs[i])
    <3>1. gs[i] \in GrantType
      BY <1>10
    <3>2. gs[i].start \in Int /\ gs[i].num \in Int /\ gs[i].num >= 1
      BY <3>1, RebalancerAssumption DEF GrantType, Ids
    <3> QED  BY <3>2 DEF Span
  <2> QED  BY <2>1, <2>2
<1>22. \A i, j \in 1..Len(gs) : i # j => Span(gs[i]) \cap Span(gs[j]) = {}
  <2>1. 1 \in Gpus
    BY RebalancerAssumption DEF Gpus
  <2>2. \A i, j \in 1..Len(gs) : i # j => Span(grants_[i]) \cap Span(grants_[j]) = {}
    BY <1>1, <1>10, <2>1 DEF LentExactly
  <2> HIDE DEF Span
  <2> QED  BY <1>21, <2>2
<1>23. ASSUME NEW i \in K PROVE gs[i].start \notin S
  <2>1. SUFFICES ASSUME gs[i].start \in S PROVE FALSE
    OBVIOUS
  <2>2. PICK j \in 1..Len(gs) : Finishing(gs[j]) /\ gs[i].start = gs[j].start
    BY <1>15, <2>1
  <2>3. i \in 1..Len(gs) /\ i # j
    BY <1>17, <2>2
  <2>4. gs[i].start \in Span(gs[i]) /\ gs[i].start \in Span(gs[j])
    BY <1>21, <2>2, <2>3
  <2> QED  BY <1>22, <2>3, <2>4
<1>24. ASSUME NEW r \in Gpus, NEW s \in Ids
       PROVE  slab'[r][s] = IF \E i \in 1..Len(gs) : Finishing(gs[i]) /\ s \in Span(gs[i])
                            THEN "free" ELSE slab[r][s]
  <2>1. slab'[r][s] = IF \E g \in over : s \in Span(g) THEN "free" ELSE slab[r][s]
    BY <1>8, <1>13 DEF release_expert_zone
  <2>2. (\E g \in over : s \in Span(g)) <=> \E i \in 1..Len(gs) : Finishing(gs[i]) /\ s \in Span(gs[i])
    BY <1>11
  <2> QED  BY <2>1, <2>2
<1>25. LentExactly'
  <2> HIDE DEF Span
  <2>1. DOMAIN grants_' = 1..Len(kept) /\ grants_' = kept
    BY <1>18, <1>20
  <2>2. ASSUME NEW r \in Gpus
        PROVE  {s \in Ids : slab'[r][s] = "zone"} = UNION {Span(kept[m]) : m \in 1..Len(kept)}
    <3>1. {s \in Ids : slab[r][s] = "zone"} = UNION {Span(grants_[i]) : i \in 1..Len(gs)}
      BY <1>1, <1>10 DEF LentExactly
    <3>2. ASSUME NEW s \in Ids, slab'[r][s] = "zone"
          PROVE  s \in UNION {Span(kept[m]) : m \in 1..Len(kept)}
      <4>1. /\ ~ \E i \in 1..Len(gs) : Finishing(gs[i]) /\ s \in Span(gs[i])
            /\ slab[r][s] = "zone"
        BY <1>24, <3>2
      <4>2. PICK i \in 1..Len(gs) : s \in Span(grants_[i])
        BY <3>1, <4>1
      <4>3. i \in K /\ s \in Span(gs[i])
        BY <1>17, <1>21, <4>1, <4>2
      <4>4. PICK m \in 1..Len(kept) : p[m] = i
        BY <1>19, <4>3
      <4>5. kept[m] = gs[i]
        BY <1>19, <4>4
      <4> QED  BY <4>3, <4>5
    <3>3. ASSUME NEW m \in 1..Len(kept), NEW s \in Span(kept[m])
          PROVE  s \in Ids /\ slab'[r][s] = "zone"
      <4>1. PICK i \in K : i = p[m] /\ kept[m] = gs[i]
        BY <1>19
      <4>2. i \in 1..Len(gs) /\ ~ Finishing(gs[i]) /\ s \in Span(gs[i])
        BY <1>17, <4>1
      <4>3. s \in {t \in Ids : slab[r][t] = "zone"}
        BY <1>21, <3>1, <4>2
      <4>4. ~ \E j \in 1..Len(gs) : Finishing(gs[j]) /\ s \in Span(gs[j])
        BY <1>22, <4>2
      <4> QED  BY <1>24, <4>3, <4>4
    <3> QED  BY <3>2, <3>3
  <2>3. ASSUME NEW r \in Gpus
        PROVE  DOMAIN zones'[r] = {kept[m].start : m \in 1..Len(kept)}
    <3>1. DOMAIN zones[r] = {grants_[i].start : i \in 1..Len(gs)}
      BY <1>1, <1>10 DEF LentExactly
    <3>2. DOMAIN zones'[r] = DOMAIN zones[r] \ S
      BY <1>16
    <3>3. ASSUME NEW id \in DOMAIN zones[r], id \notin S
          PROVE  id \in {kept[m].start : m \in 1..Len(kept)}
      <4>1. PICK i \in 1..Len(gs) : id = gs[i].start
        BY <1>10, <3>1
      <4>2. i \in K
        BY <1>15, <1>17, <3>3, <4>1
      <4>3. PICK m \in 1..Len(kept) : p[m] = i
        BY <1>19, <4>2
      <4>4. kept[m] = gs[i]
        BY <1>19, <4>3
      <4> QED  BY <4>1, <4>4
    <3>4. ASSUME NEW m \in 1..Len(kept) PROVE kept[m].start \in DOMAIN zones[r] \ S
      <4>1. PICK i \in K : i = p[m] /\ kept[m] = gs[i]
        BY <1>19
      <4>2. i \in 1..Len(gs)
        BY <1>17
      <4> QED  BY <1>10, <1>23, <4>1, <4>2
    <3> QED  BY <3>2, <3>3, <3>4
  <2>4. ASSUME NEW m \in 1..Len(kept), NEW l \in 1..Len(kept), m # l
        PROVE  Span(kept[m]) \cap Span(kept[l]) = {}
    <3>1. p[m] # p[l] /\ p[m] \in 1..Len(gs) /\ p[l] \in 1..Len(gs)
      BY <1>17, <1>19, <2>4
    <3>2. kept[m] = gs[p[m]] /\ kept[l] = gs[p[l]]
      BY <1>19
    <3> QED  BY <1>22, <3>1, <3>2
  <2> QED  BY <2>1, <2>2, <2>3, <2>4 DEF LentExactly
<1>26. ASSUME NEW r \in Gpus, NEW id \in DOMAIN zones[r], id \in S
       PROVE  /\ \A j \in DOMAIN zs[r][id].slots : zs[r][id].slots[j] = "free"
              /\ \A k \in 1..Len(h2d[r]) : h2d[r][k].id # id
              /\ \A k \in 1..Len(ffn[r]) : id \notin ffn[r][k]
  <2>1. PICK i \in 1..Len(gs) : Finishing(gs[i]) /\ id = gs[i].start
    BY <1>15, <1>26
  <2>2. /\ Residents(zs, r, id) = {}
        /\ \A k \in 1..Len(h2d[r]) : h2d[r][k].id # id
        /\ \A k \in 1..Len(ffn[r]) : id \notin ffn[r][k]
    BY <1>12, <2>1
  <2> QED  BY <2>2 DEF Residents
<1>27. Types'
  <2>1. slab' \in [Gpus -> [Ids -> {"free", "kv", "state", "zone"}]]
    BY <1>1, <1>8 DEF release_expert_zone
  <2>2. StreamsType'
    BY <1>1, <1>8 DEF StreamsType
  <2>3. ZonesType(zones)'
    <3>1. DOMAIN zones' = Gpus
      BY <1>8
    <3>2. ASSUME NEW r \in Gpus
          PROVE  DOMAIN zones'[r] \subseteq Ids /\ zones'[r] \in [DOMAIN zones'[r] -> Zone]
      <4>1. /\ DOMAIN zones[r] \subseteq Ids /\ DOMAIN zs[r] = DOMAIN zones[r]
            /\ zs[r] \in [DOMAIN zs[r] -> Zone]
        BY <1>1, <1>9 DEF ZonesType, Thinned
      <4>2. \A id \in DOMAIN zones[r] : zs[r][id] \in Zone
        BY <4>1
      <4> QED  BY <1>16, <4>1, <4>2
    <3> QED  BY <3>1, <3>2 DEF ZonesType
  <2>4. cooldown' \in 0..CooldownTicks
    BY <1>1, <1>8, RebalancerAssumption DEF MaxOf
  <2>5. grants_' \in Seq(GrantType)
    BY <1>18, <1>20
  <2>6. stage' \in {"loop", "pressure", "grant"} /\ UNCHANGED <<eager, moe, waiting>>
    BY <1>8
  <2> QED  BY <1>1, <2>1, <2>2, <2>3, <2>4, <2>5, <2>6 DEF Types
<1>28. CopiesOwn(zones', h2d')
  <2>1. PICK zn : zn = zones'
    OBVIOUS
  <2>2. ASSUME NEW r \in Gpus, NEW k \in 1..Len(h2d[r])
        PROVE  /\ h2d[r][k].id \in DOMAIN zn[r]
               /\ h2d[r][k].live = "yes" =>
                    /\ h2d[r][k].slot \in DOMAIN zn[r][h2d[r][k].id].slots
                    /\ zn[r][h2d[r][k].id].slots[h2d[r][k].slot] = "arriving"
    <3>1. PICK c : c = h2d[r][k]
      OBVIOUS
    <3>2. c.id \in DOMAIN zones[r] /\ (c.live = "yes" =>
            c.slot \in DOMAIN zones[r][c.id].slots /\ zones[r][c.id].slots[c.slot] = "arriving")
      BY <1>1, <3>1 DEF CopiesOwn
    <3>3. c.id \notin S
      BY <1>26, <3>1, <3>2
    <3>4. c.id \in DOMAIN zn[r] /\ zn[r][c.id] = zs[r][c.id]
      BY <1>16, <2>1, <3>2, <3>3
    <3>5. c.live = "yes" => c.slot \in DOMAIN zs[r][c.id].slots
                            /\ zs[r][c.id].slots[c.slot] = "arriving"
      <4>1. /\ DOMAIN zs[r][c.id].slots = DOMAIN zones[r][c.id].slots
            /\ \A j \in DOMAIN zones[r][c.id].slots :
                 zs[r][c.id].slots[j] = zones[r][c.id].slots[j] \/ Evictable(r, c.id, j)
        BY <1>9, <3>2 DEF Thinned
      <4>2. \A j : Evictable(r, c.id, j) => zones[r][c.id].slots[j] = "ready"
        BY DEF Evictable
      <4> QED  BY <3>2, <4>1, <4>2
    <3> QED  BY <3>1, <3>4, <3>5
  <2>3. CopiesOwn(zn, h2d)
    BY <1>1, <2>2 DEF CopiesOwn
  <2>4. h2d' = h2d
    BY <1>8
  <2> QED  BY <2>1, <2>3, <2>4
<1>29. KernelsOwn'
  <2>1. ASSUME NEW r \in Gpus, NEW k \in 1..Len(ffn[r]), NEW id \in ffn[r][k] PROVE id \in DOMAIN zones'[r]
    <3>1. id \in DOMAIN zones[r]
      BY <1>1 DEF KernelsOwn
    <3>2. id \notin S
      BY <1>26, <3>1
    <3> QED  BY <1>16, <3>1, <3>2
  <2>2. ffn' = ffn
    BY <1>8
  <2> QED  BY <2>1, <2>2 DEF KernelsOwn
<1>30. LockedStays'
  <2>1. ASSUME NEW r \in Gpus, NEW id \in DOMAIN zones[r], NEW i \in DOMAIN zones[r][id].slots,
               zones[r][id].slots[i] = "ready", <<r, id, i>> \in moe.locked
        PROVE  /\ id \in DOMAIN zones'[r] /\ i \in DOMAIN zones'[r][id].slots
               /\ zones'[r][id].slots[i] = "ready"
    <3>1. i \in DOMAIN zs[r][id].slots /\ zs[r][id].slots[i] = "ready"
      BY <1>9, <2>1 DEF Thinned, Evictable
    <3>2. id \notin S
      BY <1>26, <3>1
    <3> QED  BY <1>16, <3>1, <3>2
  <2>2. moe' = moe
    BY <1>8
  <2> QED  BY <1>1, <2>1, <2>2, LocksKeep
<1>31. Fenced'
  <2>1. Len(grants_') = Len(kept)
    BY <1>20
  <2>2. SUFFICES ASSUME NEW m \in 1..Len(kept), NEW r \in Gpus PROVE FencedBy(zones, grants_[m], r)'
    BY <2>1 DEF Fenced
  <2>3. PICK i \in K : i = p[m] /\ kept[m] = gs[i]
    BY <1>19
  <2>4. PICK b : b = gs[i]
    OBVIOUS
  <2>5. FencedBy(zs, b, r) /\ b.start \in DOMAIN zones[r] /\ b.start \notin S
    BY <1>10, <1>17, <1>23, <2>4
  <2>6. zones'[r][b.start] = zs[r][b.start]
    BY <1>16, <2>5
  <2>7. grants_'[m] = b /\ h2d' = h2d /\ ffn' = ffn
    BY <1>8, <1>20, <2>3, <2>4
  <2> QED  BY <2>5, <2>6, <2>7 DEF FencedBy, Residents
<1> QED  BY <1>25, <1>27, <1>28, <1>29, <1>30, <1>31 DEF ZoneSound, CopiesOwn

-------------------------------------------------------------------------------
(* The theorems.                                                           *)

LEMMA NextSound == ASSUME ZoneSound, [Next]_vars PROVE ZoneSound'
<1>1. CASE UNCHANGED vars
  <2>1. /\ cooldown \in 0..CooldownTicks /\ eager \in {Unarmed} \cup 0..Slabs
        /\ stage \in {"loop", "pressure", "grant"}
    BY DEF ZoneSound, Types
  <2> QED  BY <1>1, <2>1, QuietSound DEF vars
<1>2. CASE Next
  BY <1>2, ReclaimSound, PressureSound, GrantSound, KvSound, CacheSound, DispatchSound, StreamsSound
     DEF Next
<1> QED  BY <1>1, <1>2

\* The books agree: on every GPU the slabs that the allocator has lent, the
\* elastic zones of the cache and the rebalancer's grants are the same ones, no
\* grant is lost to a removal that the cache refuses (finish_reclaim), and no
\* drain evicts an expert that a dispatch has locked.
THEOREM ZoneBooksAgree == Spec => []ZoneInv
<1>1. Init => ZoneSound
  BY InitSound
<1>2. ZoneSound /\ [Next]_vars => ZoneSound'
  BY NextSound
<1>3. ZoneSound => ZoneInv
  BY SoundParts
<1> QED  BY <1>1, <1>2, <1>3, PTL DEF Spec

\* The reclaim protocol: no slab goes back to KV (release_expert_zone) while a
\* copy on a stream may still write into it or a kernel may still read it, for any
\* number of GPUs and any depth of the streams.
THEOREM HandbackIsQuiet == Spec => []HandbackQuiet
<1>1. Init => ZoneSound
  BY InitSound
<1>2. ZoneSound /\ [Next]_vars => ZoneSound'
  BY NextSound
<1>3. ZoneSound => HandbackQuiet
  BY SoundParts
<1> QED  BY <1>1, <1>2, <1>3, PTL DEF Spec
===============================================================================
