--------------------------- MODULE KvTieringProofs -----------------------------
(***************************************************************************)
(* Proofs about KvTiering, for any number of sequences, layers, pages and   *)
(* slots.                                                                   *)
(***************************************************************************)
EXTENDS KvTiering, FiniteSetTheorems, FunctionTheorems, SequenceTheorems, NaturalsInduction, WellFoundedInduction, TLAPS

-------------------------------------------------------------------------------
(* Numbers, finite sets and sums.                                          *)

\* A set of numbers has a least one.
LEMMA LeastOf ==
  ASSUME NEW T, T \subseteq Nat, T # {}
  PROVE  \E m \in T : \A y \in T : m <= y
<1>1. PICK m \in T : \A y \in T : ~ (<<y, m>> \in OpToRel(<, Nat))
  BY NatLessThanWellFounded, WFMin
<1>2. ASSUME NEW y \in T PROVE m <= y
  <2>1. y \in Nat /\ m \in Nat
    OBVIOUS
  <2>2. ~ (y < m)
    BY <1>1, <2>1 DEF OpToRel
  <2> QED  BY <2>1, <2>2
<1> QED  BY <1>2

\* A set of numbers below a bound has a greatest one.
LEMMA MaxOfSet ==
  ASSUME NEW b \in Nat, NEW S, S \subseteq 0..b, S # {}
  PROVE  Max(S) \in S /\ \A y \in S : y <= Max(S)
<1> DEFINE T == {b - y : y \in S}
<1>1. T \subseteq Nat /\ T # {}
  <2>1. \A y \in S : b - y \in Nat
    OBVIOUS
  <2>2. T \subseteq Nat
    BY <2>1
  <2>3. T # {}
    BY Zenon
  <2> QED  BY <2>2, <2>3
<1>2. PICK n \in T : \A y \in T : n <= y
  BY <1>1, LeastOf, Zenon
<1>3. PICK m \in S : n = b - m
  OBVIOUS
<1>4. \A y \in S : y \in Int /\ b - y \in T
  OBVIOUS
<1> HIDE DEF T
<1>5. \A y \in S : m >= y
  <2> TAKE y \in S
  <2>1. b - m <= b - y
    BY <1>2, <1>3, <1>4
  <2> QED  BY <1>4, <2>1
<1>6. Max(S) = CHOOSE x \in S : \A y \in S : x >= y
  BY Zenon DEF Max
<1>7. Max(S) \in S /\ \A y \in S : Max(S) >= y
  BY <1>5, <1>6, Zenon
<1> QED  BY <1>7, <1>4

LEMMA TripleFinite ==
  ASSUME NEW A, NEW B, NEW C, IsFiniteSet(A), IsFiniteSet(B), IsFiniteSet(C)
  PROVE  IsFiniteSet(A \X B \X C)
<1> DEFINE f == [u \in (A \X B) \X C |-> <<u[1][1], u[1][2], u[2]>>]
<1>1. f \in [(A \X B) \X C -> A \X B \X C]
  OBVIOUS
<1>2. ASSUME NEW x \in A \X B \X C PROVE \E u \in (A \X B) \X C : f[u] = x
  <2>1. <<<<x[1], x[2]>>, x[3]>> \in (A \X B) \X C
    OBVIOUS
  <2>2. f[<<<<x[1], x[2]>>, x[3]>>] = x
    OBVIOUS
  <2> QED  BY <2>1, <2>2
<1> HIDE DEF f
<1>3. f \in Surjection((A \X B) \X C, A \X B \X C)
  BY <1>1, <1>2 DEF Surjection
<1>4. IsFiniteSet((A \X B) \X C)
  BY FS_Product
<1> QED  BY <1>3, <1>4, FS_Surjection

\* The cells of all sequences, of one, the pages and the slots are finitely many.
LEMMA FiniteCells ==
  /\ IsFiniteSet(Cells) /\ \A s : IsFiniteSet(Of(s))
  /\ IsFiniteSet(Pages) /\ IsFiniteSet(Slots)
<1>1. /\ IsFiniteSet(Ids) /\ IsFiniteSet(Layers) /\ IsFiniteSet(Logical)
      /\ IsFiniteSet(Pages) /\ IsFiniteSet(Slots)
  BY FS_Interval, KvAssumption DEF Ids, Layers, Logical, Pages, Slots
<1>2. \A s : IsFiniteSet({s})
  BY FS_Singleton
<1>3. IsFiniteSet(Cells)
  BY <1>1, TripleFinite DEF Cells
<1>4. ASSUME NEW s PROVE IsFiniteSet(Of(s))
  BY <1>1, <1>2, TripleFinite DEF Of
<1> QED  BY <1>1, <1>3, <1>4

\* The size of what is left, of two disjoint parts, and of a part.
LEMMA Minus ==
  ASSUME NEW A, IsFiniteSet(A), NEW B, B \subseteq A
  PROVE  /\ IsFiniteSet(A \ B) /\ IsFiniteSet(B)
         /\ Cardinality(A) \in Nat /\ Cardinality(B) \in Nat /\ Cardinality(A \ B) \in Nat
         /\ Cardinality(A \ B) = Cardinality(A) - Cardinality(B)
         /\ Cardinality(B) <= Cardinality(A)
<1>1. A \cap B = B
  OBVIOUS
<1>2. B \in SUBSET A
  OBVIOUS
<1> QED  BY <1>1, <1>2, FS_Difference, FS_Subset, FS_CardinalityType

LEMMA Plus ==
  ASSUME NEW A, IsFiniteSet(A), NEW B, IsFiniteSet(B), A \cap B = {}
  PROVE  /\ IsFiniteSet(A \cup B) /\ Cardinality(A \cup B) = Cardinality(A) + Cardinality(B)
         /\ Cardinality(A) \in Nat /\ Cardinality(B) \in Nat
<1>1. Cardinality(A \cap B) = 0
  BY FS_EmptySet
<1>2. Cardinality(A) \in Nat /\ Cardinality(B) \in Nat
  BY FS_CardinalityType
<1>3. /\ IsFiniteSet(A \cup B)
      /\ Cardinality(A \cup B) = Cardinality(A) + Cardinality(B) - Cardinality(A \cap B)
  BY FS_Union
<1> QED  BY <1>1, <1>2, <1>3

\* How many of the cells X have h.
Uses(p, X, h) == Cardinality({x \in X : p[x] = h})

\* A function that changes on X only: how often it takes a value.
LEMMA MoveCount ==
  ASSUME NEW C, IsFiniteSet(C), NEW X, X \subseteq C, NEW p, NEW q, NEW h,
         \A x \in C \ X : q[x] = p[x]
  PROVE  /\ Uses(q, C, h) = Uses(p, C, h) - Uses(p, X, h) + Uses(q, X, h)
         /\ Uses(p, C, h) \in Nat /\ Uses(p, X, h) \in Nat /\ Uses(q, X, h) \in Nat
         /\ Uses(p, X, h) <= Uses(p, C, h)
<1> DEFINE P == {x \in C : p[x] = h}
           PX == {x \in X : p[x] = h}
           QX == {x \in X : q[x] = h}
<1>1. {x \in C : q[x] = h} = (P \ PX) \cup QX
  OBVIOUS
<1>2. PX \subseteq P /\ (P \ PX) \cap QX = {} /\ P \subseteq C /\ QX \subseteq C
  OBVIOUS
<1>3. IsFiniteSet(P) /\ IsFiniteSet(QX)
  BY <1>2, FS_Subset
<1>6. /\ Uses(p, C, h) = Cardinality(P) /\ Uses(p, X, h) = Cardinality(PX)
      /\ Uses(q, X, h) = Cardinality(QX) /\ Uses(q, C, h) = Cardinality((P \ PX) \cup QX)
  BY <1>1 DEF Uses
<1> HIDE DEF P, PX, QX
<1>4. /\ IsFiniteSet(P \ PX) /\ Cardinality(P \ PX) = Cardinality(P) - Cardinality(PX)
      /\ Cardinality(P) \in Nat /\ Cardinality(PX) \in Nat /\ Cardinality(PX) <= Cardinality(P)
  BY <1>2, <1>3, Minus
<1>5. Cardinality((P \ PX) \cup QX) = Cardinality(P \ PX) + Cardinality(QX) /\ Cardinality(QX) \in Nat
  BY <1>2, <1>3, <1>4, Plus
<1> QED  BY <1>6, <1>4, <1>5

\* Nobody has h.
LEMMA NoUses ==
  ASSUME NEW X, NEW p, NEW h, \A x \in X : p[x] # h
  PROVE  Uses(p, X, h) = 0
<1>1. {x \in X : p[x] = h} = {}
  OBVIOUS
<1> QED  BY <1>1, FS_EmptySet DEF Uses

\* Place finds different pages for all, if there are enough.
LEMMA PlaceWorks ==
  ASSUME NEW X, IsFiniteSet(X), NEW S, IsFiniteSet(S), Cardinality(X) <= Cardinality(S)
  PROVE  /\ Place(X, S) \in [X -> S] /\ DOMAIN Place(X, S) = X
         /\ \A a, b \in X : Place(X, S)[a] = Place(X, S)[b] => a = b
<1>1. Cardinality(X) \in Nat /\ Cardinality(S) \in Nat
  BY FS_CardinalityType
<1>2. ExistsInjection(X, 1..Cardinality(X))
  <2>1. ExistsBijection(X, 1..Cardinality(X))
    BY FS_CardinalityType, Fun_ExistsBijSymmetric
  <2> QED  BY <2>1 DEF ExistsBijection, ExistsInjection, Bijection
<1>3. ExistsInjection(1..Cardinality(S), S)
  <2>1. ExistsBijection(1..Cardinality(S), S)
    BY FS_CardinalityType
  <2> QED  BY <2>1 DEF ExistsBijection, ExistsInjection, Bijection
<1>4. ExistsInjection(1..Cardinality(X), 1..Cardinality(S))
  BY <1>1, Fun_NatInjLeq
<1>5. ExistsInjection(X, S)
  BY <1>2, <1>3, <1>4, Fun_ExistsInjTransitive
<1>6. \E f \in [X -> S] : IsInjective(f)
  BY <1>5 DEF ExistsInjection, Injection
<1>7. Place(X, S) \in [X -> S] /\ IsInjective(Place(X, S))
  BY <1>6, Zenon DEF Place
<1>8. DOMAIN Place(X, S) = X
  BY <1>7
<1> QED  BY <1>7, <1>8 DEF IsInjective

\* First finds as many as it is asked for, if there are enough.
LEMMA FirstWorks ==
  ASSUME NEW S, IsFiniteSet(S), NEW key, \A a \in S : key[a] \in Nat,
         NEW n \in Nat, n <= Cardinality(S)
  PROVE  /\ First(n, S, key) \subseteq S /\ IsFiniteSet(First(n, S, key))
         /\ Cardinality(First(n, S, key)) = n
<1> DEFINE Good(A, m) == Cardinality(A) = m /\ \A a \in A, b \in S \ A : key[a] <= key[b]
           T == {m \in Nat : m <= Cardinality(S) /\ ~ \E A \in SUBSET S : Good(A, m)}
<1>0. Cardinality(S) \in Nat
  BY FS_CardinalityType
<1>1. T = {}
  <2> SUFFICES ASSUME T # {} PROVE FALSE
    OBVIOUS
  <2>1. PICK m \in T : \A y \in T : m <= y
    BY LeastOf
  <2>2. m # 0
    <3>1. Cardinality({}) = 0
      BY FS_EmptySet
    <3>2. Good({}, 0)
      BY <3>1
    <3> QED  BY <3>2
  <2>3. m \in Nat /\ m <= Cardinality(S) /\ m - 1 \in Nat /\ m - 1 \notin T
    BY <2>1, <2>2
  <2>4. PICK A \in SUBSET S : Good(A, m - 1)
    BY <2>3, <1>0
  <2>5. /\ IsFiniteSet(A) /\ S \ A # {}
    <3>1. IsFiniteSet(A)
      BY FS_Subset
    <3>2. A # S
      BY <2>3, <2>4, <1>0
    <3> QED  BY <3>1, <3>2
  <2> DEFINE K == {key[b] : b \in S \ A}
  <2>6. K \subseteq Nat /\ K # {}
    <3>1. PICK y \in S \ A : TRUE
      BY <2>5
    <3>2. key[y] \in K
      OBVIOUS
    <3> QED  BY <3>2
  <2>7. PICK v \in K : \A y \in K : v <= y
    BY <2>6, LeastOf, Zenon
  <2>8. PICK b \in S \ A : v = key[b]
    OBVIOUS
  <2>9. \A y \in S \ A : key[b] <= key[y]
    BY <2>7, <2>8
  <2>10. Cardinality(A \cup {b}) = m
    <3>1. Cardinality(A) = m - 1 /\ b \notin A
      BY <2>4, <2>8
    <3>2. Cardinality(A \cup {b}) = Cardinality(A) + 1
      BY <3>1, <2>5, FS_AddElement
    <3> QED  BY <3>1, <3>2, <2>3
  <2>11. \A x \in A \cup {b}, y \in S \ (A \cup {b}) : key[x] <= key[y]
    BY <2>4, <2>9
  <2>12. A \cup {b} \in SUBSET S /\ Good(A \cup {b}, m)
    BY <2>10, <2>11
  <2> QED  BY <2>1, <2>12
<1>2. \E A \in SUBSET S : Good(A, n)
  BY <1>1
<1>3. First(n, S, key) \in SUBSET S /\ Cardinality(First(n, S, key)) = n
  BY <1>2, Zenon DEF First
<1> QED  BY <1>3, FS_Subset

-------------------------------------------------------------------------------
(* Sums over the sequences.                                                *)

\* One more sequence in the sum.
SumStep(f, sum, n) == IF n = 0 THEN 0 ELSE sum[n - 1] + f[n]

LEMMA SumExists ==
  ASSUME NEW f, NEW N \in Nat
  PROVE  \E sum : sum = [n \in 0..N |-> SumStep(f, sum, n)]
<1> DEFINE T == {m \in Nat : ~\E g : g = [n \in 0..m |-> SumStep(f, g, n)]}
<1> SUFFICES ASSUME T # {} PROVE FALSE
  OBVIOUS
<1>1. PICK m \in T : \A y \in T : m <= y
  BY LeastOf
<1>2. CASE m = 0
  <2> DEFINE g == [n \in 0..0 |-> 0]
  <2>1. g = [n \in 0..0 |-> SumStep(f, g, n)]
    BY DEF SumStep
  <2> QED  BY <2>1, <1>2
<1>3. CASE m # 0
  <2>0. m - 1 \in Nat /\ m - 1 \notin T
    BY <1>1, <1>3
  <2>1. PICK g : g = [n \in 0..(m - 1) |-> SumStep(f, g, n)]
    BY <2>0
  <2> DEFINE e == [n \in 0..m |-> IF n = m THEN SumStep(f, g, m) ELSE g[n]]
  <2>2. ASSUME NEW n \in 0..m PROVE e[n] = SumStep(f, e, n)
    <3>1. CASE n = m
      BY <3>1, <2>0 DEF SumStep
    <3>2. CASE n # m
      <4>1. n \in 0..(m - 1) /\ e[n] = g[n]
        BY <3>2, <2>0
      <4>2. g[n] = SumStep(f, g, n)
        BY <4>1, <2>1
      <4>3. n # 0 => n - 1 \in 0..m /\ n - 1 # m
        BY <4>1, <2>0
      <4>4. n # 0 => e[n - 1] = g[n - 1]
        BY <4>3
      <4> QED  BY <4>1, <4>2, <4>4 DEF SumStep
    <3> QED  BY <3>1, <3>2
  <2>3. e = [n \in 0..m |-> SumStep(f, e, n)]
    BY <2>2
  <2> QED  BY <2>3
<1> QED  BY <1>2, <1>3

\* The partial sums that SumOver ends with.
Sums(f) == CHOOSE sum : sum = [n \in 0..NumSeqs |-> SumStep(f, sum, n)]

LEMMA SumsUnfold ==
  ASSUME NEW f
  PROVE  /\ SumOver(f) = Sums(f)[NumSeqs]
         /\ \A n \in 0..NumSeqs : Sums(f)[n] = SumStep(f, Sums(f), n)
<1>1. NumSeqs \in Nat
  BY KvAssumption
<1>2. \E sum : sum = [n \in 0..NumSeqs |-> SumStep(f, sum, n)]
  BY <1>1, SumExists, Zenon
<1>3. SumOver(f) = Sums(f)[NumSeqs]
  BY Zenon DEF SumOver, Sums, SumStep
<1>4. Sums(f) = [n \in 0..NumSeqs |-> SumStep(f, Sums(f), n)]
  BY <1>2, Zenon DEF Sums
<1> HIDE DEF Sums
<1>5. \A n \in 0..NumSeqs : Sums(f)[n] = SumStep(f, Sums(f), n)
  BY <1>4, Zenon
<1> QED  BY <1>3, <1>5

\* The partial sums are integers, and differ from those of a function that
\* differs at s by that difference, from s on.
LEMMA SumsChange ==
  ASSUME NEW f \in [Ids -> Int], NEW g \in [Ids -> Int], NEW s \in Ids,
         \A q \in Ids \ {s} : g[q] = f[q],
         NEW m \in 0..NumSeqs
  PROVE  /\ Sums(f)[m] \in Int
         /\ Sums(g)[m] = IF m < s THEN Sums(f)[m] ELSE Sums(f)[m] + g[s] - f[s]
<1> DEFINE Good(n) == /\ Sums(f)[n] \in Int
                      /\ Sums(g)[n] = IF n < s THEN Sums(f)[n] ELSE Sums(f)[n] + g[s] - f[s]
           T == {n \in Nat : n <= NumSeqs /\ ~ Good(n)}
<1>0. NumSeqs \in Nat /\ s \in 1..NumSeqs
  BY KvAssumption DEF Ids
<1>1. T = {}
  <2> SUFFICES ASSUME T # {} PROVE FALSE
    OBVIOUS
  <2>1. PICK n \in T : \A y \in T : n <= y
    BY LeastOf
  <2>2. n \in 0..NumSeqs /\ ~ Good(n)
    BY <1>0
  <2>3. Sums(f)[n] = SumStep(f, Sums(f), n) /\ Sums(g)[n] = SumStep(g, Sums(g), n)
    BY <2>2, SumsUnfold, Zenon
  <2>4. CASE n = 0
    BY <2>2, <2>3, <2>4, <1>0 DEF SumStep
  <2>5. CASE n # 0
    <3>1. n - 1 \in Nat /\ n - 1 \notin T /\ n \in Ids /\ n \in Nat
      BY <2>1, <2>2, <2>5, <1>0 DEF Ids
    <3>2. Good(n - 1)
      BY <3>1, <2>2, <1>0
    <3>3. Sums(f)[n] = Sums(f)[n - 1] + f[n] /\ Sums(g)[n] = Sums(g)[n - 1] + g[n]
      BY <2>3, <2>5 DEF SumStep
    <3>4. f[n] \in Int /\ g[n] \in Int /\ f[s] \in Int /\ g[s] \in Int /\ (n # s => g[n] = f[n])
      BY <3>1
    <3> QED  BY <3>1, <3>2, <3>3, <3>4, <2>2, <1>0
  <2> QED  BY <2>4, <2>5
<1> QED  BY <1>1, <1>0

LEMMA SumChange ==
  ASSUME NEW f \in [Ids -> Int], NEW g \in [Ids -> Int], NEW s \in Ids,
         \A q \in Ids \ {s} : g[q] = f[q]
  PROVE  SumOver(f) \in Int /\ SumOver(g) \in Int /\ SumOver(g) = SumOver(f) + g[s] - f[s]
<1>1. NumSeqs \in 0..NumSeqs /\ ~ (NumSeqs < s)
  BY KvAssumption DEF Ids
<1>2. /\ Sums(f)[NumSeqs] \in Int
      /\ Sums(g)[NumSeqs] = Sums(f)[NumSeqs] + g[s] - f[s]
  BY <1>1, SumsChange
<1>3. f[s] \in Int /\ g[s] \in Int
  OBVIOUS
<1> QED  BY <1>2, <1>3, SumsUnfold

\* A sum of nothing.
LEMMA SumZero ==
  ASSUME NEW f \in [Ids -> Int], \A q \in Ids : f[q] = 0
  PROVE  SumOver(f) = 0
<1> DEFINE T == {n \in Nat : n <= NumSeqs /\ Sums(f)[n] # 0}
<1>0. NumSeqs \in Nat
  BY KvAssumption
<1>1. T = {}
  <2> SUFFICES ASSUME T # {} PROVE FALSE
    OBVIOUS
  <2>1. PICK n \in T : \A y \in T : n <= y
    BY LeastOf
  <2>2. n \in 0..NumSeqs /\ Sums(f)[n] # 0
    BY <1>0
  <2>3. Sums(f)[n] = SumStep(f, Sums(f), n)
    BY <2>2, SumsUnfold, Zenon
  <2>4. n # 0 => n - 1 \notin T /\ n - 1 \in 0..NumSeqs /\ n \in Ids
    BY <2>1, <2>2, <1>0 DEF Ids
  <2>5. n # 0 => Sums(f)[n - 1] = 0 /\ f[n] = 0
    BY <2>4
  <2> QED  BY <2>2, <2>3, <2>5 DEF SumStep
<1> QED  BY <1>1, <1>0, SumsUnfold

-------------------------------------------------------------------------------
(* The invariant.  Its parts are about the fields they need, so that a step *)
(* that leaves these alone keeps the part.                                  *)

Fields == {"vram", "ref", "cold", "cold_ref", "pg", "num", "life", "txt", "pass", "base", "floor",
           "rewinds", "st", "cache", "seen", "frontier", "demoted", "flying", "used", "hibernated",
           "file", "pend", "stream", "landed", "spilled_total", "total", "spill", "fail"}
IsKv(k) == DOMAIN k = Fields
\* g is k but for the fields F.
Same(k, g, F) == \A x \in Fields \ F : g[x] = k[x]
\* f with another value at s.
Put(f, s, v) == [f EXCEPT ![s] = v]

Tiers   == {"hot", "inflight", "cold", "spilled"}
Lower   == {"inflight", "cold", "spilled"}
Slotted == {"inflight", "cold"}
Item    == [x : Cells, h : Pages, c : Slots]
Todo    == [x : Cells, h : Pages]
PageEnd(x) == (x[3] + 1) * PageSize

\* The members of S are counted by what p says of the cells.
Counted(ref, S, p) ==
  ref \in [S -> Int] /\ \A h \in S : ref[h] = Uses(p, Cells, h)
SlotOf(st) == [x \in Cells |-> st[x].slot]

\* A page state and the page: what is cold or on disk has no page.
EntriesOk(st, pg) ==
  /\ DOMAIN st = Cells /\ pg \in [Cells -> 0..VramPages]
  /\ \A x \in Cells : /\ st[x].tier \in Tiers /\ st[x].slot \in 0..ColdPages
                      /\ (st[x].slot # 0) <=> (st[x].tier \in Slotted)
                      /\ st[x].tier \in {"cold", "spilled"} => pg[x] = Neutral

\* The pages of s in the tiers T.
Tier(st, s, T) == {x \in Of(s) : st[x].tier \in T}

\* f is the end of the last page of X.
LastEnd(f, X) ==
  /\ f \in Nat /\ (f = 0 \/ \E x \in X : f = PageEnd(x))
  /\ \A x \in X : PageEnd(x) <= f

SeqCounts(st, s, demoted, flying, used, frontier, file) ==
  /\ demoted = Cardinality(Tier(st, s, Lower)) /\ flying = Cardinality(Tier(st, s, {"inflight"}))
  /\ used = Cardinality(Tier(st, s, Slotted)) /\ LastEnd(frontier, Tier(st, s, Lower))
  /\ file \in Nat /\ ((file > 0) <=> Tier(st, s, {"spilled"}) # {})
CountsOk(st, demoted, flying, used, frontier, file) ==
  /\ demoted \in [Ids -> Int] /\ flying \in [Ids -> Int] /\ used \in [Ids -> Int]
  /\ frontier \in [Ids -> Int] /\ file \in [Ids -> Int]
  /\ \A s \in Ids : SeqCounts(st, s, demoted[s], flying[s], used[s], frontier[s], file[s])

TotalsOk(total, demoted, spilled_total, file) ==
  total = SumOver(demoted) /\ spilled_total = SumOver(file) /\ spilled_total <= SpillCap

\* The deferred batch is of hot pages of one sequence.
PendOk(pend, st, pg) ==
  /\ pend.items \subseteq Todo /\ pend.seq \in 0..NumSeqs
  /\ (pend.items = {}) <=> (pend.seq = 0)
  /\ \A i \in pend.items : i.x[1] = pend.seq /\ st[i.x].tier = "hot" /\ pg[i.x] = i.h

\* A page is in flight exactly if one copy of it is in the stream or has landed.
ItemsOk(items, st, pg) ==
  \A i \in items : st[i.x].tier = "inflight" /\ st[i.x].slot = i.c /\ pg[i.x] = i.h
Apart(A, B) == \A i \in A, j \in B : i.x # j.x
Cargo(items) == {i.x : i \in items}
FlightOk(landed, stream, st, pg) ==
  /\ landed \subseteq Item /\ stream \in Seq(SUBSET Item)
  /\ ItemsOk(landed, st, pg)
  /\ \A n \in 1..Len(stream) : ItemsOk(stream[n], st, pg) /\ Apart(stream[n], landed)
  /\ \A m, n \in 1..Len(stream) : m # n => Apart(stream[m], stream[n])
  /\ \A x \in Cells : st[x].tier = "inflight" =>
       x \in Cargo(landed) \/ \E n \in 1..Len(stream) : x \in Cargo(stream[n])

\* What has a page or was demoted.
Owned(st, pg, x) == pg[x] # Neutral \/ st[x].tier # "hot"
\* It is a page of the sequence (but for those of D) ..
NumberedOk(num, st, pg, D) ==
  /\ num \in [Ids -> 0..MaxPages]
  /\ \A x \in Cells : x[1] \notin D /\ Owned(st, pg, x) => x[3] < num[x[1]]
\* .. and of a sequence that is held.
DormantOk(life, num, st, pg, hibernated, seen, D) ==
  /\ DOMAIN life = Ids /\ DOMAIN hibernated = Ids /\ seen \in [Ids -> Nat]
  /\ \A s \in Ids \ D : life[s] \notin {"live", "holder"} => num[s] = 0 /\ hibernated[s] = "no" /\ seen[s] = 0
  /\ \A x \in Cells : x[1] \notin D /\ Owned(st, pg, x) => life[x[1]] \in {"live", "holder"}

\* D: the child of a fork under way.
Base(k, D) ==
  /\ IsKv(k) /\ EntriesOk(k.st, k.pg)
  /\ Counted(k.ref, Pages, k.pg) /\ Counted(k.cold_ref, Slots, SlotOf(k.st))
  /\ CountsOk(k.st, k.demoted, k.flying, k.used, k.frontier, k.file)
  /\ TotalsOk(k.total, k.demoted, k.spilled_total, k.file)
  /\ PendOk(k.pend, k.st, k.pg)
  /\ FlightOk(k.landed, k.stream, k.st, k.pg)
  /\ NumberedOk(k.num, k.st, k.pg, D)
  /\ DormantOk(k.life, k.num, k.st, k.pg, k.hibernated, k.seen, D)

-------------------------------------------------------------------------------
(* Cells, and how often a function takes a value on them.                  *)

LEMMA MulMono ==
  ASSUME NEW a \in Int, NEW b \in Int, a <= b, NEW c \in Nat
  PROVE  a * c <= b * c /\ a * c \in Int /\ b * c \in Int
<1>1. b * c - a * c = (b - a) * c
  OBVIOUS
<1>2. (b - a) * c >= 0
  OBVIOUS
<1>3. a * c \in Int /\ b * c \in Int
  OBVIOUS
<1> QED  BY <1>1, <1>2, <1>3

\* The parts of a cell.
LEMMA CellParts ==
  /\ \A x \in Cells : /\ x[1] \in Ids /\ x[2] \in Layers /\ x[3] \in Logical /\ x \in Of(x[1])
                      /\ x[3] \in Nat /\ x[3] < MaxPages /\ x[2] \in Nat
  /\ \A s \in Ids : Of(s) \subseteq Cells /\ \A x \in Of(s) : x[1] = s
  /\ \A s \in Ids, x \in Cells : x[1] = s => x \in Of(s)
BY KvAssumption DEF Cells, Of, Layers, Logical

LEMMA PageEnds ==
  ASSUME NEW x \in Cells
  PROVE  PageEnd(x) \in Nat /\ PageEnd(x) \in 0..(MaxPages * PageSize)
<1>1. x[3] \in Nat /\ x[3] + 1 <= MaxPages /\ MaxPages \in Nat /\ PageSize \in Nat
  BY CellParts, KvAssumption
<1>2. (x[3] + 1) * PageSize <= MaxPages * PageSize /\ 0 * PageSize <= (x[3] + 1) * PageSize
  BY <1>1, MulMono
<1>3. (x[3] + 1) * PageSize \in Int /\ MaxPages * PageSize \in Int /\ 0 * PageSize = 0
  BY <1>1
<1> QED  BY <1>2, <1>3 DEF PageEnd

\* The pages or slots of the cells X, counted.
Tallies(n, S, p, X) == \A h \in S : n[h] = Uses(p, X, h)
LEMMA HandlesCopies ==
  ASSUME NEW k, NEW X, X \subseteq Cells
  PROVE  Tallies(Handles(k, X), Pages, k.pg, X) /\ Tallies(Copies(k, X), Slots, SlotOf(k.st), X)
<1>1. ASSUME NEW c PROVE {x \in X : k.st[x].slot = c} = {x \in X : SlotOf(k.st)[x] = c}
  BY DEF SlotOf
<1> QED  BY <1>1 DEF Handles, Copies, Uses, Tallies

LEMMA WithIs ==
  ASSUME NEW p, DOMAIN p = Cells, NEW f, DOMAIN f \subseteq Cells
  PROVE  /\ DOMAIN With(p, f) = Cells
         /\ \A x \in DOMAIN f : With(p, f)[x] = f[x]
         /\ \A x \in Cells \ DOMAIN f : With(p, f)[x] = p[x]
BY DEF With

LEMMA AtIs ==
  ASSUME NEW t, NEW f
  PROVE  /\ DOMAIN At(t, f) = DOMAIN f
         /\ \A x \in DOMAIN f : At(t, f)[x].tier = t /\ At(t, f)[x].slot = f[x]
BY DEF At, Hot

\* p changes on X only, to q; there q has nothing of S; or it has what f says,
\* different members of S that nobody has.
Moves(p, q, X)  == X \subseteq Cells /\ \A x \in Cells \ X : q[x] = p[x]
Without(S, q, X) == \A x \in X : q[x] \notin S
Fresh(ref, S, p, q, X, f) ==
  /\ Moves(p, q, X) /\ Without(S, p, X) /\ DOMAIN f = X
  /\ \A x \in X : f[x] \in S /\ ref[f[x]] = 0 /\ q[x] = f[x]
  /\ \A a, b \in X : f[a] = f[b] => a = b

LEMMA MoveUses ==
  ASSUME NEW p, NEW q, NEW X, Moves(p, q, X), NEW h
  PROVE  /\ Uses(q, Cells, h) = Uses(p, Cells, h) - Uses(p, X, h) + Uses(q, X, h)
         /\ Uses(p, Cells, h) \in Nat /\ Uses(p, X, h) \in Nat /\ Uses(q, X, h) \in Nat
         /\ Uses(p, X, h) <= Uses(p, Cells, h)
BY FiniteCells, MoveCount DEF Moves

LEMMA CountTaken ==
  ASSUME NEW ref, NEW S, NEW p, Counted(ref, S, p), NEW q, NEW X, NEW f, Fresh(ref, S, p, q, X, f)
  PROVE  Counted(Took(ref, f), S, q)
<1> USE DEF Fresh, Moves, Without
<1>0. DOMAIN ref = S /\ \A h \in S : ref[h] \in Int
  BY DEF Counted
<1> SUFFICES ASSUME NEW h \in S
             PROVE  (IF Takes(f, h) THEN 1 ELSE ref[h]) = Uses(q, Cells, h)
  BY <1>0 DEF Counted, Took
<1>1. IsFiniteSet(Cells) /\ IsFiniteSet(X)
  BY FiniteCells, FS_Subset
<1>2. Uses(q, Cells, h) = Uses(p, Cells, h) - Uses(p, X, h) + Uses(q, X, h)
  BY MoveUses
<1>3. Uses(p, X, h) = 0
  BY NoUses
<1>4. Uses(p, Cells, h) = ref[h] /\ ref[h] \in Int
  BY DEF Counted
<1>5. CASE Takes(f, h)
  <2>1. PICK a \in X : f[a] = h
    BY <1>5 DEF Takes
  <2>2. {x \in X : q[x] = h} = {a}
    BY <2>1
  <2>3. Uses(q, X, h) = 1
    BY <2>2, FS_Singleton DEF Uses
  <2>4. ref[h] = 0
    BY <2>1
  <2> QED  BY <1>2, <1>3, <1>4, <1>5, <2>3, <2>4
<1>6. CASE ~ Takes(f, h)
  <2>1. \A x \in X : q[x] # h
    BY <1>6 DEF Takes
  <2>2. Uses(q, X, h) = 0
    BY <2>1, NoUses
  <2> QED  BY <1>2, <1>3, <1>4, <1>6, <2>2
<1> QED  BY <1>5, <1>6

\* The cells X give theirs up ..
LEMMA CountLess ==
  ASSUME NEW ref, NEW S, NEW p, Counted(ref, S, p), NEW X, NEW q, Moves(p, q, X), Without(S, q, X),
         NEW n, Tallies(n, S, p, X)
  PROVE  Counted(Less(ref, n), S, q) /\ \A h \in S : n[h] \in Nat /\ n[h] <= ref[h]
<1> USE DEF Without, Tallies
<1>2. \A h : /\ Uses(q, Cells, h) = Uses(p, Cells, h) - Uses(p, X, h) + Uses(q, X, h)
             /\ Uses(p, Cells, h) \in Nat /\ Uses(p, X, h) \in Nat /\ Uses(q, X, h) \in Nat
             /\ Uses(p, X, h) <= Uses(p, Cells, h)
  BY MoveUses
<1>3. DOMAIN ref = S /\ \A h \in S : ref[h] = Uses(p, Cells, h) /\ ref[h] \in Int
  BY DEF Counted
<1>4. \A h \in S : Uses(q, X, h) = 0
  BY NoUses
<1> QED  BY <1>2, <1>3, <1>4 DEF Counted, Less

\* .. or share those of others.
LEMMA CountMore ==
  ASSUME NEW ref, NEW S, NEW p, Counted(ref, S, p), NEW X, NEW q, Moves(p, q, X), Without(S, p, X),
         NEW n, Tallies(n, S, q, X)
  PROVE  Counted(More(ref, n), S, q)
<1> USE DEF Without, Tallies
<1>2. \A h : /\ Uses(q, Cells, h) = Uses(p, Cells, h) - Uses(p, X, h) + Uses(q, X, h)
             /\ Uses(p, Cells, h) \in Nat /\ Uses(p, X, h) \in Nat /\ Uses(q, X, h) \in Nat
  BY MoveUses
<1>3. DOMAIN ref = S /\ \A h \in S : ref[h] = Uses(p, Cells, h) /\ ref[h] \in Int
  BY DEF Counted
<1>4. \A h \in S : Uses(p, X, h) = 0
  BY NoUses
<1> QED  BY <1>2, <1>3, <1>4 DEF Counted, More

-------------------------------------------------------------------------------
(* The ends of pages.                                                      *)

LEMMA MaxEnds ==
  ASSUME NEW X, X \subseteq Cells, NEW b \in 0..(MaxPages * PageSize)
  PROVE  LET m == EndOf(b, X)
         IN  /\ m \in Nat /\ b <= m /\ (m = b \/ \E x \in X : m = PageEnd(x))
             /\ \A x \in X : PageEnd(x) <= m
<1> DEFINE S == {b} \cup {(x[3] + 1) * PageSize : x \in X}
<1>1. MaxPages * PageSize \in Nat
  <2>1. 0 * PageSize <= MaxPages * PageSize /\ MaxPages * PageSize \in Int
    BY MulMono, KvAssumption
  <2> QED  BY <2>1, KvAssumption
<1>2. \A x \in X : (x[3] + 1) * PageSize = PageEnd(x) /\ PageEnd(x) \in 0..(MaxPages * PageSize)
  BY PageEnds, Zenon DEF PageEnd
<1>3. S \subseteq 0..(MaxPages * PageSize) /\ b \in S
  BY <1>2
<1>4. \A x \in X : PageEnd(x) \in S
  BY <1>2
<1>5. \A m \in S : m = b \/ \E x \in X : m = PageEnd(x)
  BY <1>2
<1> HIDE DEF S
<1>6. Max(S) \in S /\ \A y \in S : y <= Max(S)
  BY <1>1, <1>3, MaxOfSet
<1>7. Max(S) \in Nat /\ b <= Max(S)
  <2>1. PICK B \in Nat : B = MaxPages * PageSize
    BY <1>1
  <2>2. Max(S) \in 0..B
    BY <2>1, <1>3, <1>6, Zenon
  <2>3. b <= Max(S)
    BY <1>3, <1>6, Zenon
  <2> QED  BY <2>2, <2>3
<1>8. Max(S) = b \/ \E x \in X : Max(S) = PageEnd(x)
  BY <1>5, <1>6, Zenon
<1>9. \A x \in X : PageEnd(x) <= Max(S)
  BY <1>4, <1>6, Zenon
<1> QED  BY <1>7, <1>8, <1>9, Zenon DEF S, EndOf

LEMMA LastEndBound ==
  ASSUME NEW f, NEW X, X \subseteq Cells, LastEnd(f, X)
  PROVE  f \in 0..(MaxPages * PageSize)
<1>1. MaxPages * PageSize \in Int /\ 0 <= MaxPages * PageSize
  <2>1. 0 * PageSize <= MaxPages * PageSize /\ MaxPages * PageSize \in Int
    BY MulMono, KvAssumption
  <2> QED  BY <2>1, KvAssumption
<1> QED  BY <1>1, PageEnds DEF LastEnd

\* More pages are demoted.
LEMMA LastEndMore ==
  ASSUME NEW f, NEW X, X \subseteq Cells, NEW Y, Y \subseteq Cells, LastEnd(f, Y)
  PROVE  LastEnd(EndOf(f, X), Y \cup X)
<1> DEFINE m == EndOf(f, X)
<1>1. f \in 0..(MaxPages * PageSize)
  BY LastEndBound
<1>2. /\ m \in Nat /\ f <= m /\ (m = f \/ \E x \in X : m = PageEnd(x))
      /\ \A x \in X : PageEnd(x) <= m
  BY <1>1, MaxEnds
<1> HIDE DEF m
<1>3. f \in Nat /\ \A y \in Y : PageEnd(y) <= f /\ PageEnd(y) \in Nat
  BY PageEnds DEF LastEnd
<1>4. \A y \in Y : PageEnd(y) <= m
  BY <1>2, <1>3
<1>5. m = 0 \/ \E x \in Y \cup X : m = PageEnd(x)
  BY <1>2 DEF LastEnd
<1>6. LastEnd(m, Y \cup X)
  BY <1>2, <1>4, <1>5 DEF LastEnd
<1> QED  BY <1>6 DEF m

\* The last end is that of the definition.
LEMMA LastEndIs ==
  ASSUME NEW X, X \subseteq Cells
  PROVE  LastEnd(EndOf(0, X), X) /\ \A f : LastEnd(f, X) => f = EndOf(0, X)
<1> DEFINE m == EndOf(0, X)
<1>1. MaxPages * PageSize \in Int /\ 0 <= MaxPages * PageSize
  <2>1. 0 * PageSize <= MaxPages * PageSize /\ MaxPages * PageSize \in Int
    BY MulMono, KvAssumption
  <2> QED  BY <2>1, KvAssumption
<1>0. 0 \in 0..(MaxPages * PageSize)
  BY <1>1
<1>2. /\ m \in Nat /\ (m = 0 \/ \E x \in X : m = PageEnd(x))
      /\ \A x \in X : PageEnd(x) <= m
  BY <1>0, MaxEnds, Zenon
<1> HIDE DEF m
<1>3. LastEnd(m, X)
  BY <1>2 DEF LastEnd
<1>4. ASSUME NEW f, LastEnd(f, X) PROVE f = m
  <2>1. f \in Nat /\ (f = 0 \/ \E x \in X : f = PageEnd(x)) /\ \A x \in X : PageEnd(x) <= f
    BY <1>4 DEF LastEnd
  <2>2. \A x \in X : PageEnd(x) \in Nat
    BY PageEnds
  <2>3. f <= m
    BY <1>2, <2>1, <2>2
  <2>4. m <= f
    BY <1>2, <2>1, <2>2
  <2> QED  BY <1>2, <2>1, <2>3, <2>4
<1> QED  BY <1>3, <1>4 DEF m

-------------------------------------------------------------------------------
(* Cells that change their tier.                                           *)

\* The cells X go from tier a to tier b.
Tiering(st, tt, X, a, b) ==
  /\ X \subseteq Cells /\ \A x \in Cells \ X : tt[x] = st[x]
  /\ \A x \in X : st[x].tier = a /\ tt[x].tier = b

LEMMA TierFinite ==
  ASSUME NEW s \in Ids, NEW st, NEW T
  PROVE  /\ Tier(st, s, T) \subseteq Of(s) /\ Tier(st, s, T) \subseteq Cells
         /\ IsFiniteSet(Tier(st, s, T)) /\ Cardinality(Tier(st, s, T)) \in Nat
<1>1. Tier(st, s, T) \subseteq Of(s) /\ Of(s) \subseteq Cells /\ IsFiniteSet(Of(s))
  BY FiniteCells, CellParts DEF Tier
<1>2. IsFiniteSet(Tier(st, s, T))
  BY <1>1, FS_Subset
<1> QED  BY <1>1, <1>2, FS_CardinalityType

\* Those of a sequence in the tiers T, after the change.
LEMMA TierMore ==
  ASSUME NEW st, NEW tt, NEW X, NEW a, NEW b, Tiering(st, tt, X, a, b), NEW s \in Ids, NEW T, a \notin T, b \in T
  PROVE  /\ Tier(tt, s, T) = Tier(st, s, T) \cup (X \cap Of(s))
         /\ Cardinality(Tier(tt, s, T)) = Cardinality(Tier(st, s, T)) + Cardinality(X \cap Of(s))
<1> DEFINE Y == X \cap Of(s)
<1>1. IsFiniteSet(Y) /\ IsFiniteSet(Tier(st, s, T))
  BY FiniteCells, FS_Subset, TierFinite
<1>2. /\ \A x \in Of(s) \ Y : tt[x] = st[x]
      /\ \A x \in Y : st[x].tier = a /\ tt[x].tier = b /\ x \in Of(s)
  BY CellParts DEF Tiering
<1>3. Tier(tt, s, T) = Tier(st, s, T) \cup Y /\ Tier(st, s, T) \cap Y = {}
  BY <1>2 DEF Tier
<1> HIDE DEF Y
<1>4. Cardinality(Tier(tt, s, T)) = Cardinality(Tier(st, s, T)) + Cardinality(Y)
  BY <1>1, <1>3, Plus
<1> QED  BY <1>3, <1>4 DEF Y

LEMMA TierLess ==
  ASSUME NEW st, NEW tt, NEW X, NEW a, NEW b, Tiering(st, tt, X, a, b), NEW s \in Ids, NEW T, a \in T, b \notin T
  PROVE  /\ Tier(tt, s, T) = Tier(st, s, T) \ (X \cap Of(s))
         /\ Cardinality(Tier(tt, s, T)) = Cardinality(Tier(st, s, T)) - Cardinality(X \cap Of(s))
         /\ Cardinality(X \cap Of(s)) <= Cardinality(Tier(st, s, T))
         /\ Cardinality(X \cap Of(s)) \in Nat
<1> DEFINE Y == X \cap Of(s)
<1>1. IsFiniteSet(Y) /\ IsFiniteSet(Tier(st, s, T)) /\ Cardinality(Y) \in Nat
  BY FiniteCells, FS_Subset, TierFinite, FS_CardinalityType
<1>2. /\ \A x \in Of(s) \ Y : tt[x] = st[x]
      /\ \A x \in Y : st[x].tier = a /\ tt[x].tier = b /\ x \in Of(s)
  BY CellParts DEF Tiering
<1>3. Tier(tt, s, T) = Tier(st, s, T) \ Y /\ Y \subseteq Tier(st, s, T)
  BY <1>2 DEF Tier
<1> HIDE DEF Y
<1>4. /\ Cardinality(Tier(tt, s, T)) = Cardinality(Tier(st, s, T)) - Cardinality(Y)
      /\ Cardinality(Y) <= Cardinality(Tier(st, s, T))
  BY <1>1, <1>3, Minus
<1> QED  BY <1>1, <1>3, <1>4 DEF Y

LEMMA TierSame ==
  ASSUME NEW st, NEW tt, NEW X, NEW a, NEW b, Tiering(st, tt, X, a, b), NEW s \in Ids, NEW T,
         (a \in T /\ b \in T) \/ (a \notin T /\ b \notin T)
  PROVE  Tier(tt, s, T) = Tier(st, s, T)
BY CellParts DEF Tier, Tiering

\* The counts of a sequence depend on its own cells only.
OnlyOf(st, tt, s) == \A q \in Ids \ {s} : \A x \in Of(q) : tt[x] = st[x]

LEMMA SeqSame ==
  ASSUME NEW st, NEW tt, NEW s, OnlyOf(st, tt, s), NEW q \in Ids \ {s},
         NEW d, NEW f, NEW u, NEW fr, NEW fi, SeqCounts(st, q, d, f, u, fr, fi)
  PROVE  SeqCounts(tt, q, d, f, u, fr, fi)
<1>1. \A T : Tier(tt, q, T) = Tier(st, q, T)
  BY DEF Tier, OnlyOf
<1> QED  BY <1>1, Zenon DEF SeqCounts

\* The counts of one sequence change.
LEMMA CountsChange ==
  ASSUME NEW st, NEW tt, NEW s \in Ids, OnlyOf(st, tt, s),
         NEW demoted, NEW flying, NEW used, NEW frontier, NEW file,
         CountsOk(st, demoted, flying, used, frontier, file),
         NEW d, NEW f, NEW u, NEW fr, NEW fi, SeqCounts(tt, s, d, f, u, fr, fi)
  PROVE  CountsOk(tt, Put(demoted, s, d), Put(flying, s, f), Put(used, s, u), Put(frontier, s, fr), Put(file, s, fi))
<1>1. d \in Int /\ f \in Int /\ u \in Int /\ fr \in Int /\ fi \in Int
  <2>1. \A T : Cardinality(Tier(tt, s, T)) \in Nat
    BY TierFinite
  <2>2. /\ d = Cardinality(Tier(tt, s, Lower)) /\ f = Cardinality(Tier(tt, s, {"inflight"}))
        /\ u = Cardinality(Tier(tt, s, Slotted)) /\ fr \in Nat /\ fi \in Nat
    BY DEF SeqCounts, LastEnd
  <2> QED  BY <2>1, <2>2
<1>2. /\ demoted \in [Ids -> Int] /\ flying \in [Ids -> Int] /\ used \in [Ids -> Int]
      /\ frontier \in [Ids -> Int] /\ file \in [Ids -> Int]
      /\ \A q \in Ids : SeqCounts(st, q, demoted[q], flying[q], used[q], frontier[q], file[q])
  BY DEF CountsOk
<1>3. /\ Put(demoted, s, d) \in [Ids -> Int] /\ Put(demoted, s, d)[s] = d
      /\ \A q \in Ids \ {s} : Put(demoted, s, d)[q] = demoted[q]
  BY <1>1, <1>2 DEF Put
<1>4. /\ Put(flying, s, f) \in [Ids -> Int] /\ Put(flying, s, f)[s] = f
      /\ \A q \in Ids \ {s} : Put(flying, s, f)[q] = flying[q]
  BY <1>1, <1>2 DEF Put
<1>5. /\ Put(used, s, u) \in [Ids -> Int] /\ Put(used, s, u)[s] = u
      /\ \A q \in Ids \ {s} : Put(used, s, u)[q] = used[q]
  BY <1>1, <1>2 DEF Put
<1>6. /\ Put(frontier, s, fr) \in [Ids -> Int] /\ Put(frontier, s, fr)[s] = fr
      /\ \A q \in Ids \ {s} : Put(frontier, s, fr)[q] = frontier[q]
  BY <1>1, <1>2 DEF Put
<1>7. /\ Put(file, s, fi) \in [Ids -> Int] /\ Put(file, s, fi)[s] = fi
      /\ \A q \in Ids \ {s} : Put(file, s, fi)[q] = file[q]
  BY <1>1, <1>2 DEF Put
<1>8. ASSUME NEW q \in Ids
      PROVE  SeqCounts(tt, q, Put(demoted, s, d)[q], Put(flying, s, f)[q], Put(used, s, u)[q],
                       Put(frontier, s, fr)[q], Put(file, s, fi)[q])
  <2>1. CASE q = s
    BY <2>1, <1>3, <1>4, <1>5, <1>6, <1>7
  <2>2. CASE q # s
    <3>1. SeqCounts(tt, q, demoted[q], flying[q], used[q], frontier[q], file[q])
      BY <2>2, <1>2, SeqSame
    <3> QED  BY <2>2, <3>1, <1>3, <1>4, <1>5, <1>6, <1>7
  <2> QED  BY <2>1, <2>2
<1> QED  BY <1>3, <1>4, <1>5, <1>6, <1>7, <1>8 DEF CountsOk

LEMMA PutSame ==
  ASSUME NEW f \in [Ids -> Int], NEW s \in Ids
  PROVE  Put(f, s, f[s]) = f
BY DEF Put

\* The totals when the counts of one sequence change.
LEMMA TotalsChange ==
  ASSUME NEW total, NEW demoted \in [Ids -> Int], NEW spilled, NEW file \in [Ids -> Int],
         TotalsOk(total, demoted, spilled, file), NEW s \in Ids, NEW d \in Int, NEW e \in Int,
         NEW total2, NEW spilled2, total2 = total + d - demoted[s], spilled2 = spilled + e - file[s],
         spilled2 <= SpillCap
  PROVE  TotalsOk(total2, Put(demoted, s, d), spilled2, Put(file, s, e))
<1>1. demoted[s] \in Int /\ file[s] \in Int
  OBVIOUS
<1>2. /\ Put(demoted, s, d) \in [Ids -> Int] /\ Put(demoted, s, d)[s] = d
      /\ \A q \in Ids \ {s} : Put(demoted, s, d)[q] = demoted[q]
  BY <1>1 DEF Put
<1>3. /\ Put(file, s, e) \in [Ids -> Int] /\ Put(file, s, e)[s] = e
      /\ \A q \in Ids \ {s} : Put(file, s, e)[q] = file[q]
  BY <1>1 DEF Put
<1>4. SumOver(demoted) \in Int /\ SumOver(Put(demoted, s, d)) = SumOver(demoted) + d - demoted[s]
  BY <1>2, SumChange
<1>5. SumOver(file) \in Int /\ SumOver(Put(file, s, e)) = SumOver(file) + e - file[s]
  BY <1>3, SumChange
<1> QED  BY <1>1, <1>4, <1>5 DEF TotalsOk

\* The totals are numbers.
LEMMA TotalsTyped ==
  ASSUME NEW total, NEW demoted \in [Ids -> Int], NEW spilled, NEW file \in [Ids -> Int],
         TotalsOk(total, demoted, spilled, file), NEW s \in Ids
  PROVE  total \in Int /\ spilled \in Int
BY SumChange DEF TotalsOk

-------------------------------------------------------------------------------
(* What keeps the other parts.                                             *)

\* Nothing is owned that was not owned.
NoNew(st, pg, tt, qg) == \A x \in Cells : Owned(tt, qg, x) => Owned(st, pg, x)
LEMMA OwnedKept ==
  ASSUME NEW st, NEW pg, NEW tt, NEW qg, NoNew(st, pg, tt, qg), NEW D, NEW num, NEW life,
         NumberedOk(num, st, pg, D), NEW hib, NEW seen, DormantOk(life, num, st, pg, hib, seen, D)
  PROVE  NumberedOk(num, tt, qg, D) /\ DormantOk(life, num, tt, qg, hib, seen, D)
BY DEF NoNew, NumberedOk, DormantOk

\* Hot pages stay what they are.
HotKept(st, pg, tt, qg) ==
  \A x \in Cells : st[x].tier = "hot" /\ pg[x] # Neutral => tt[x].tier = "hot" /\ qg[x] = pg[x]
LEMMA PagesPositive == (\A h \in Pages : h # Neutral) /\ (\A c \in Slots : c # 0 /\ c \in 0..ColdPages)
BY KvAssumption DEF Pages, Slots, Neutral
LEMMA PendKept ==
  ASSUME NEW st, NEW pg, NEW tt, NEW qg, HotKept(st, pg, tt, qg), NEW pend, PendOk(pend, st, pg)
  PROVE  PendOk(pend, tt, qg)
<1>1. \A i \in pend.items : i.x \in Cells /\ pg[i.x] # Neutral
  BY PagesPositive DEF PendOk, Todo
<1> QED  BY <1>1 DEF PendOk, HotKept

\* What is in flight stays what it is.
FlightKept(st, pg, tt, qg) ==
  /\ \A x \in Cells : st[x].tier = "inflight" =>
       tt[x].tier = "inflight" /\ tt[x].slot = st[x].slot /\ qg[x] = pg[x]
  /\ \A x \in Cells : tt[x].tier = "inflight" => st[x].tier = "inflight"
LEMMA FlightSame ==
  ASSUME NEW st, NEW pg, NEW tt, NEW qg, FlightKept(st, pg, tt, qg), NEW landed, NEW stream,
         FlightOk(landed, stream, st, pg)
  PROVE  FlightOk(landed, stream, tt, qg)
<1>1. ASSUME NEW A, A \subseteq Item, ItemsOk(A, st, pg) PROVE ItemsOk(A, tt, qg)
  BY <1>1 DEF FlightKept, ItemsOk, Item
<1>2. stream \in Seq(SUBSET Item) /\ \A n \in 1..Len(stream) : stream[n] \subseteq Item
  BY DEF FlightOk
<1>3. ItemsOk(landed, tt, qg) /\ \A n \in 1..Len(stream) : ItemsOk(stream[n], tt, qg)
  BY <1>1, <1>2 DEF FlightOk
<1>4. \A x \in Cells : tt[x].tier = "inflight" =>
        x \in Cargo(landed) \/ \E n \in 1..Len(stream) : x \in Cargo(stream[n])
  BY DEF FlightKept, FlightOk
<1> QED  BY <1>2, <1>3, <1>4 DEF FlightOk

-------------------------------------------------------------------------------
(* The batch is accepted.                                                  *)

\* The slots that the items get.
SlotsFor(k, items) == Place(Cargo(items), FreeSlots(k))
Group(items, f)    == {[x |-> i.x, h |-> i.h, c |-> f[i.x]] : i \in items}

LEMMA AcceptFields ==
  ASSUME NEW k, IsKv(k), NEW s, NEW items, NEW g, g = accept(k, s, items)
  PROVE  /\ IsKv(g)
         /\ Same(k, g, {"pend", "cold_ref", "st", "used", "demoted", "flying", "total", "frontier", "stream"})
         /\ g.pend = NoPend
         /\ g.cold_ref = Took(k.cold_ref, SlotsFor(k, items))
         /\ g.st = With(k.st, At("inflight", SlotsFor(k, items)))
         /\ g.used = Put(k.used, s, k.used[s] + Cardinality(Cargo(items)))
         /\ g.demoted = Put(k.demoted, s, k.demoted[s] + Cardinality(Cargo(items)))
         /\ g.flying = Put(k.flying, s, k.flying[s] + Cardinality(Cargo(items)))
         /\ g.total = k.total + Cardinality(Cargo(items))
         /\ g.frontier = Put(k.frontier, s, EndOf(k.frontier[s], Cargo(items)))
         /\ g.stream = Append(k.stream, Group(items, SlotsFor(k, items)))
BY Zenon DEF accept, IsKv, Fields, Same, Cargo, SlotsFor, Group, Put

\* The free pages and slots are finitely many; so are those who get them.
LEMMA FreeFinite ==
  ASSUME NEW k
  PROVE  /\ IsFiniteSet(FreeSlots(k)) /\ Cardinality(FreeSlots(k)) \in Nat /\ FreeSlots(k) \subseteq Slots
         /\ IsFiniteSet(FreePages(k)) /\ Cardinality(FreePages(k)) \in Nat /\ FreePages(k) \subseteq Pages
<1>1. FreeSlots(k) \subseteq Slots /\ FreePages(k) \subseteq Pages
  BY DEF FreeSlots, FreePages
<1>2. IsFiniteSet(FreeSlots(k)) /\ IsFiniteSet(FreePages(k))
  BY <1>1, FiniteCells, FS_Subset
<1> QED  BY <1>1, <1>2, FS_CardinalityType

\* Slots (pages) that are placed are free ones, one for each.
LEMMA PlaceSlots ==
  ASSUME NEW k, NEW X, X \subseteq Cells, Cardinality(X) <= Cardinality(FreeSlots(k))
  PROVE  /\ DOMAIN Place(X, FreeSlots(k)) = X
         /\ \A a, b \in X : Place(X, FreeSlots(k))[a] = Place(X, FreeSlots(k))[b] => a = b
         /\ \A x \in X : Place(X, FreeSlots(k))[x] \in Slots /\ k.cold_ref[Place(X, FreeSlots(k))[x]] = 0
<1>1. IsFiniteSet(FreeSlots(k)) /\ IsFiniteSet(X)
  BY FreeFinite, FiniteCells, FS_Subset
<1>2. /\ Place(X, FreeSlots(k)) \in [X -> FreeSlots(k)]
      /\ \A a, b \in X : Place(X, FreeSlots(k))[a] = Place(X, FreeSlots(k))[b] => a = b
  BY <1>1, PlaceWorks
<1>3. PICK f : f = Place(X, FreeSlots(k))
  OBVIOUS
<1>4. f \in [X -> FreeSlots(k)] /\ \A a, b \in X : f[a] = f[b] => a = b
  BY <1>2, <1>3
<1>5. FreeSlots(k) = {c \in Slots : k.cold_ref[c] = 0}
  BY DEF FreeSlots
<1>6. /\ DOMAIN f = X
      /\ \A x \in X : f[x] \in Slots /\ k.cold_ref[f[x]] = 0
  BY <1>4, <1>5
<1> QED  BY <1>3, <1>4, <1>6, Zenon

LEMMA PlacePages ==
  ASSUME NEW k, NEW X, X \subseteq Cells, Cardinality(X) <= Cardinality(FreePages(k))
  PROVE  /\ DOMAIN Place(X, FreePages(k)) = X
         /\ \A a, b \in X : Place(X, FreePages(k))[a] = Place(X, FreePages(k))[b] => a = b
         /\ \A x \in X : Place(X, FreePages(k))[x] \in Pages /\ k.ref[Place(X, FreePages(k))[x]] = 0
<1>1. IsFiniteSet(FreePages(k)) /\ IsFiniteSet(X)
  BY FreeFinite, FiniteCells, FS_Subset
<1>2. /\ Place(X, FreePages(k)) \in [X -> FreePages(k)]
      /\ \A a, b \in X : Place(X, FreePages(k))[a] = Place(X, FreePages(k))[b] => a = b
  BY <1>1, PlaceWorks
<1>3. PICK f : f = Place(X, FreePages(k))
  OBVIOUS
<1>4. f \in [X -> FreePages(k)] /\ \A a, b \in X : f[a] = f[b] => a = b
  BY <1>2, <1>3
<1>5. FreePages(k) = {h \in Pages : k.ref[h] = 0}
  BY DEF FreePages
<1>6. /\ DOMAIN f = X
      /\ \A x \in X : f[x] \in Pages /\ k.ref[f[x]] = 0
  BY <1>4, <1>5
<1> QED  BY <1>3, <1>4, <1>6, Zenon

\* Cells with a hot page go to the slots f.
Boarding(items, f, st, tt, pg) ==
  /\ \A i \in items : /\ i.x \in Cells /\ i.h \in Pages /\ st[i.x].tier = "hot" /\ pg[i.x] = i.h
                      /\ f[i.x] \in Slots /\ tt[i.x].tier = "inflight" /\ tt[i.x].slot = f[i.x]
  /\ \A x \in Cells \ Cargo(items) : tt[x] = st[x]

LEMMA AcceptFlight ==
  ASSUME NEW items, NEW f, NEW st, NEW tt, NEW pg, Boarding(items, f, st, tt, pg),
         NEW landed, NEW stream, FlightOk(landed, stream, st, pg)
  PROVE  FlightOk(landed, Append(stream, Group(items, f)), tt, pg)
<1> USE DEF Boarding
<1> DEFINE G == Group(items, f)
<1> USE DEF Group
<1>1. G \in SUBSET Item /\ Cargo(G) = Cargo(items)
  <2>1. G \in SUBSET Item
    BY DEF Item
  <2>2. \A y \in Cargo(G) : y \in Cargo(items)
    BY DEF Cargo
  <2>3. ASSUME NEW y \in Cargo(items) PROVE y \in Cargo(G)
    <3>1. PICK i \in items : y = i.x
      BY DEF Cargo
    <3>2. [x |-> i.x, h |-> i.h, c |-> f[i.x]] \in G
      OBVIOUS
    <3>3. [x |-> i.x, h |-> i.h, c |-> f[i.x]].x = y
      BY <3>1
    <3> QED  BY <3>2, <3>3, Zenon DEF Cargo
  <2> QED  BY <2>1, <2>2, <2>3
<1>2. ItemsOk(G, tt, pg)
  BY DEF ItemsOk
<1>3. \A i \in G : i.x \in Cargo(items) /\ i.x \in Cells
  BY DEF Cargo
<1> HIDE DEF G, Group
<1>4. \A x \in Cargo(items) : x \in Cells /\ st[x].tier = "hot"
  BY DEF Cargo
<1>5. /\ stream \in Seq(SUBSET Item) /\ landed \subseteq Item
      /\ ItemsOk(landed, st, pg) /\ \A n \in 1..Len(stream) : ItemsOk(stream[n], st, pg) /\ stream[n] \subseteq Item
  BY DEF FlightOk
<1>6. ASSUME NEW A, A \subseteq Item, ItemsOk(A, st, pg)
      PROVE  ItemsOk(A, tt, pg) /\ Apart(A, G) /\ Apart(G, A)
  <2>1. \A i \in A : i.x \in Cells /\ st[i.x].tier = "inflight" /\ i.x \notin Cargo(items)
    BY <1>4, <1>6 DEF Item, ItemsOk
  <2> QED  BY <1>3, <1>6, <2>1 DEF ItemsOk, Apart
<1> DEFINE S == Append(stream, G)
<1>7. /\ S \in Seq(SUBSET Item) /\ Len(S) = Len(stream) + 1 /\ Len(stream) \in Nat
      /\ \A n \in 1..Len(stream) : S[n] = stream[n]
      /\ S[Len(stream) + 1] = G
  BY <1>1, <1>5
<1> HIDE DEF S
<1>8. \A n \in 1..Len(S) : n \in 1..Len(stream) \/ n = Len(stream) + 1
  BY <1>7
<1>9. \A n \in 1..Len(S) : ItemsOk(S[n], tt, pg) /\ Apart(S[n], landed)
  <2> TAKE n \in 1..Len(S)
  <2>1. CASE n \in 1..Len(stream)
    BY <1>5, <1>6, <1>7, <2>1 DEF FlightOk
  <2>2. CASE n = Len(stream) + 1
    BY <1>2, <1>5, <1>6, <1>7, <2>2
  <2> QED  BY <1>8, <2>1, <2>2
<1>10. ASSUME NEW m \in 1..Len(S), NEW n \in 1..Len(S), m # n PROVE Apart(S[m], S[n])
  <2>1. CASE m \in 1..Len(stream) /\ n \in 1..Len(stream)
    BY <1>7, <1>10, <2>1 DEF FlightOk
  <2>2. CASE m \in 1..Len(stream) /\ n = Len(stream) + 1
    BY <1>5, <1>6, <1>7, <2>2
  <2>3. CASE n \in 1..Len(stream) /\ m = Len(stream) + 1
    BY <1>5, <1>6, <1>7, <2>3
  <2> QED  BY <1>8, <1>10, <2>1, <2>2, <2>3
<1>11. ASSUME NEW x \in Cells, tt[x].tier = "inflight"
       PROVE  x \in Cargo(landed) \/ \E n \in 1..Len(S) : x \in Cargo(S[n])
  <2>1. CASE x \in Cargo(items)
    <3>1. Len(stream) + 1 \in 1..Len(S)
      BY <1>7
    <3>2. x \in Cargo(S[Len(stream) + 1])
      BY <1>1, <1>7, <2>1
    <3> QED  BY <3>1, <3>2
  <2>2. CASE x \notin Cargo(items)
    <3>1. st[x].tier = "inflight"
      BY <1>11, <2>2
    <3>2. x \in Cargo(landed) \/ \E n \in 1..Len(stream) : x \in Cargo(stream[n])
      BY <3>1 DEF FlightOk
    <3>3. \A n \in 1..Len(stream) : n \in 1..Len(S)
      BY <1>7
    <3> QED  BY <3>2, <3>3, <1>7
  <2> QED  BY <2>1, <2>2
<1>12. FlightOk(landed, S, tt, pg)
  BY <1>5, <1>6, <1>7, <1>9, <1>10, <1>11 DEF FlightOk
<1> QED  BY <1>12 DEF S, G


\* The parts of an accepted batch.
LEMMA AcceptCells ==
  ASSUME NEW k, NEW D, Base(k, D), NEW items, items \subseteq k.pend.items, items # {},
         Cardinality(Cargo(items)) <= Cardinality(FreeSlots(k)), NEW s, s = k.pend.seq,
         NEW g, g = accept(k, s, items), NEW X, X = Cargo(items), NEW f, f = SlotsFor(k, items)
  PROVE  /\ s \in Ids /\ X \subseteq Of(s) /\ X \subseteq Cells
         /\ \A x \in X : k.pg[x] \in Pages /\ g.st[x].slot = f[x] /\ f[x] \in Slots
         /\ Tiering(k.st, g.st, X, "hot", "inflight") /\ DOMAIN g.st = Cells
         /\ Fresh(k.cold_ref, Slots, SlotOf(k.st), SlotOf(g.st), X, f)
         /\ Boarding(items, f, k.st, g.st, k.pg)
<1>1. PendOk(k.pend, k.st, k.pg) /\ EntriesOk(k.st, k.pg) /\ IsKv(k)
  BY DEF Base
<1>2. s \in Ids
  BY <1>1, KvAssumption DEF PendOk, Ids
<1>3. \A i \in items : /\ i.x \in Cells /\ i.h \in Pages /\ i.x[1] = s
                       /\ k.st[i.x].tier = "hot" /\ k.pg[i.x] = i.h
  BY <1>1 DEF PendOk, Todo
<1>5. \A x \in X : x \in Cells /\ x[1] = s /\ k.st[x].tier = "hot" /\ k.pg[x] \in Pages
  BY <1>3 DEF Cargo
<1>6. X \subseteq Of(s) /\ X \subseteq Cells
  BY <1>2, <1>5, CellParts
<1>7. \A x \in X : k.st[x].slot = 0
  BY <1>1, <1>5 DEF EntriesOk, Slotted
<1>9. /\ DOMAIN f = X
      /\ \A a, b \in X : f[a] = f[b] => a = b
      /\ \A x \in X : f[x] \in Slots /\ k.cold_ref[f[x]] = 0
  BY <1>6, PlaceSlots DEF SlotsFor
<1>10. g.st = With(k.st, At("inflight", f)) /\ DOMAIN k.st = Cells
  <2>1. g.st = With(k.st, At("inflight", SlotsFor(k, items)))
    BY <1>1, AcceptFields
  <2> QED  BY <2>1, <1>1 DEF EntriesOk
<1> PICK a : a = At("inflight", f)
  OBVIOUS
<1>11. DOMAIN a = X /\ \A x \in X : a[x].tier = "inflight" /\ a[x].slot = f[x]
  BY <1>9, AtIs
<1>12. /\ \A x \in X : g.st[x].tier = "inflight" /\ g.st[x].slot = f[x]
       /\ \A x \in Cells \ X : g.st[x] = k.st[x]
       /\ DOMAIN g.st = Cells
  BY <1>6, <1>10, <1>11, WithIs
<1>13. Tiering(k.st, g.st, X, "hot", "inflight")
  BY <1>5, <1>6, <1>12 DEF Tiering
<1>14. Fresh(k.cold_ref, Slots, SlotOf(k.st), SlotOf(g.st), X, f)
  <2>1. \A x \in X : SlotOf(k.st)[x] \notin Slots /\ SlotOf(g.st)[x] = f[x]
    BY <1>6, <1>7, <1>12, PagesPositive DEF SlotOf
  <2>2. \A x \in Cells \ X : SlotOf(g.st)[x] = SlotOf(k.st)[x]
    BY <1>12 DEF SlotOf
  <2> QED  BY <1>6, <1>9, <2>1, <2>2 DEF Fresh, Moves, Without
<1>15. Boarding(items, f, k.st, g.st, k.pg)
  <2>1. \A i \in items : i.x \in X
    BY DEF Cargo
  <2> QED  BY <1>3, <1>9, <1>12, <2>1 DEF Boarding
<1> QED  BY <1>2, <1>5, <1>6, <1>9, <1>12, <1>13, <1>14, <1>15

\* The counts when cells X of one sequence go from tier a to tier b: n of them.
Shifts(st, tt, X, a, b, s, n) == Tiering(st, tt, X, a, b) /\ X \subseteq Of(s) /\ n = Cardinality(X)
LEMMA ShiftOnly ==
  ASSUME NEW st, NEW tt, NEW X, NEW a, NEW b, NEW s \in Ids, NEW n, Shifts(st, tt, X, a, b, s, n)
  PROVE  OnlyOf(st, tt, s) /\ n \in Nat /\ X \cap Of(s) = X /\ X \subseteq Cells
<1>1. X \cap Of(s) = X /\ X \subseteq Cells /\ IsFiniteSet(X)
  BY FiniteCells, FS_Subset DEF Shifts, Tiering
<1>2. \A q \in Ids \ {s} : \A x \in Of(q) : x \in Cells \ X
  BY <1>1, CellParts
<1> QED  BY <1>1, <1>2, FS_CardinalityType DEF OnlyOf, Shifts, Tiering

LEMMA CountsAboard ==
  ASSUME NEW st, NEW tt, NEW X, NEW s \in Ids, NEW n, Shifts(st, tt, X, "hot", "inflight", s, n),
         NEW d, NEW f, NEW u, NEW fr, NEW fi, SeqCounts(st, s, d, f, u, fr, fi)
  PROVE  SeqCounts(tt, s, d + n, f + n, u + n, EndOf(fr, X), fi)
<1>1. n \in Nat /\ X \cap Of(s) = X /\ X \subseteq Cells /\ n = Cardinality(X)
  BY ShiftOnly DEF Shifts
<1>2. Tiering(st, tt, X, "hot", "inflight")
  BY DEF Shifts
<1>3. /\ "hot" \notin Lower /\ "inflight" \in Lower /\ "hot" \notin Slotted /\ "inflight" \in Slotted
      /\ "hot" \notin {"inflight"} /\ "inflight" \in {"inflight"}
      /\ "hot" \notin {"spilled"} /\ "inflight" \notin {"spilled"}
  BY DEF Lower, Slotted
<1>4. /\ Tier(tt, s, Lower) = Tier(st, s, Lower) \cup X
      /\ Cardinality(Tier(tt, s, Lower)) = Cardinality(Tier(st, s, Lower)) + n
  BY <1>1, <1>2, <1>3, TierMore
<1>5. Cardinality(Tier(tt, s, Slotted)) = Cardinality(Tier(st, s, Slotted)) + n
  BY <1>1, <1>2, <1>3, TierMore
<1>6. Cardinality(Tier(tt, s, {"inflight"})) = Cardinality(Tier(st, s, {"inflight"})) + n
  BY <1>1, <1>2, <1>3, TierMore
<1>7. Tier(tt, s, {"spilled"}) = Tier(st, s, {"spilled"})
  BY <1>1, <1>2, <1>3, TierSame
<1>8. LastEnd(fr, Tier(st, s, Lower)) /\ Tier(st, s, Lower) \subseteq Cells
  BY TierFinite DEF SeqCounts
<1>9. LastEnd(EndOf(fr, X), Tier(tt, s, Lower))
  BY <1>1, <1>4, <1>8, LastEndMore
<1> QED  BY <1>4, <1>5, <1>6, <1>7, <1>9 DEF SeqCounts

LEMMA AcceptKeeps ==
  ASSUME NEW k, NEW D, Base(k, D), NEW items, items \subseteq k.pend.items, items # {},
         Cardinality(Cargo(items)) <= Cardinality(FreeSlots(k)),
         NEW s, s = k.pend.seq, NEW g, g = accept(k, s, items)
  PROVE  Base(g, D)
<1>1. IsKv(k) /\ EntriesOk(k.st, k.pg)
  BY DEF Base
<1>3. PICK X : X = Cargo(items)
  OBVIOUS
<1>4. PICK f : f = SlotsFor(k, items)
  OBVIOUS
<1>5. PICK n : n = Cardinality(X)
  OBVIOUS
<1>6. /\ IsKv(g) /\ g.pend = NoPend
      /\ Same(k, g, {"pend", "cold_ref", "st", "used", "demoted", "flying", "total", "frontier", "stream"})
      /\ g.cold_ref = Took(k.cold_ref, f)
      /\ g.used = Put(k.used, s, k.used[s] + n) /\ g.demoted = Put(k.demoted, s, k.demoted[s] + n)
      /\ g.flying = Put(k.flying, s, k.flying[s] + n) /\ g.total = k.total + n
      /\ g.frontier = Put(k.frontier, s, EndOf(k.frontier[s], X))
      /\ g.stream = Append(k.stream, Group(items, f))
  BY <1>1, <1>3, <1>4, <1>5, AcceptFields
<1>7. /\ g.pg = k.pg /\ g.ref = k.ref /\ g.file = k.file /\ g.spilled_total = k.spilled_total
      /\ g.landed = k.landed /\ g.num = k.num /\ g.life = k.life /\ g.hibernated = k.hibernated /\ g.seen = k.seen
  BY <1>6 DEF Same, Fields
<1>8. /\ s \in Ids /\ X \subseteq Of(s) /\ X \subseteq Cells
      /\ \A x \in X : k.pg[x] \in Pages /\ g.st[x].slot = f[x] /\ f[x] \in Slots
      /\ Tiering(k.st, g.st, X, "hot", "inflight") /\ DOMAIN g.st = Cells
      /\ Fresh(k.cold_ref, Slots, SlotOf(k.st), SlotOf(g.st), X, f)
      /\ Boarding(items, f, k.st, g.st, k.pg)
  BY <1>3, <1>4, AcceptCells
<1> HIDE <1>3, <1>4
<1>9. /\ \A x \in X : k.st[x].tier = "hot" /\ g.st[x].tier = "inflight"
      /\ \A x \in Cells \ X : g.st[x] = k.st[x]
  BY <1>8 DEF Tiering
<1>11. Shifts(k.st, g.st, X, "hot", "inflight", s, n)
  BY <1>5, <1>8 DEF Shifts
<1>12. OnlyOf(k.st, g.st, s) /\ n \in Nat
  BY <1>8, <1>11, ShiftOnly
<1>13. EntriesOk(g.st, g.pg)
  BY <1>1, <1>7, <1>8, <1>9, PagesPositive DEF EntriesOk, Tiers, Slotted
<1>14. Counted(g.cold_ref, Slots, SlotOf(g.st))
  BY <1>6, <1>8, CountTaken DEF Base
<1>15. CountsOk(k.st, k.demoted, k.flying, k.used, k.frontier, k.file)
  BY DEF Base
<1>16. /\ k.demoted \in [Ids -> Int] /\ k.file \in [Ids -> Int]
       /\ k.demoted[s] \in Int /\ k.file[s] \in Int
       /\ SeqCounts(k.st, s, k.demoted[s], k.flying[s], k.used[s], k.frontier[s], k.file[s])
  BY <1>8, <1>15 DEF CountsOk
<1>10. Put(k.file, s, k.file[s]) = k.file
  BY <1>8, <1>16, PutSame
<1>17. CountsOk(g.st, g.demoted, g.flying, g.used, g.frontier, g.file)
  <2>2. SeqCounts(g.st, s, k.demoted[s] + n, k.flying[s] + n, k.used[s] + n, EndOf(k.frontier[s], X), k.file[s])
    BY <1>8, <1>11, <1>16, CountsAboard
  <2>4. CountsOk(g.st, g.demoted, g.flying, g.used, g.frontier, Put(k.file, s, k.file[s]))
    BY <1>6, <1>8, <1>12, <1>15, <2>2, CountsChange
  <2> QED  BY <1>7, <1>10, <2>4
<1>18. TotalsOk(g.total, g.demoted, g.spilled_total, g.file)
  <2>1. TotalsOk(k.total, k.demoted, k.spilled_total, k.file)
    BY DEF Base
  <2>2. k.spilled_total <= SpillCap /\ k.spilled_total \in Int /\ k.total \in Int
    BY <1>8, <1>16, <2>1, TotalsTyped DEF TotalsOk
  <2>3. PICK d \in Int : d = k.demoted[s] + n
    BY <1>12, <1>16
  <2>4. g.total = k.total + d - k.demoted[s] /\ k.spilled_total = k.spilled_total + k.file[s] - k.file[s]
    BY <1>6, <1>12, <1>16, <2>2, <2>3
  <2>5. TotalsOk(g.total, Put(k.demoted, s, d), k.spilled_total, Put(k.file, s, k.file[s]))
    BY <1>8, <1>16, <2>1, <2>2, <2>4, TotalsChange
  <2> QED  BY <1>6, <1>7, <1>10, <2>3, <2>5
<1>19. PendOk(g.pend, g.st, g.pg)
  BY <1>6, KvAssumption DEF PendOk, NoPend
<1>20. FlightOk(g.landed, g.stream, g.st, g.pg)
  <2>1. FlightOk(k.landed, k.stream, k.st, k.pg)
    BY DEF Base
  <2> QED  BY <1>6, <1>7, <1>8, <2>1, AcceptFlight
<1>21. NumberedOk(g.num, g.st, g.pg, D) /\ DormantOk(g.life, g.num, g.st, g.pg, g.hibernated, g.seen, D)
  <2>1. NoNew(k.st, k.pg, g.st, g.pg)
    BY <1>7, <1>8, <1>9, PagesPositive DEF NoNew, Owned
  <2> QED  BY <1>7, <2>1, OwnedKept DEF Base
<1>23. Counted(g.ref, Pages, g.pg)
  BY <1>7 DEF Base
<1> QED  BY <1>6, <1>13, <1>14, <1>17, <1>18, <1>19, <1>20, <1>21, <1>23 DEF Base
-------------------------------------------------------------------------------
(* What the operations of the manager leave alone; steps that Base does not see. *)

TierFields == {"vram", "ref", "cold", "cold_ref", "pg", "st", "cache", "frontier", "demoted", "flying",
               "used", "file", "pend", "stream", "landed", "spilled_total", "total", "spill"}
Inert == {"vram", "cold", "txt", "pass", "base", "floor", "rewinds", "cache", "spill", "fail"}
Stays(k, g) == Same(k, g, TierFields)
Good(k, D)  == Base(k, D)
NoBatch(k)  == k.pend.items = {}

LEMMA BaseInert ==
  ASSUME NEW k, NEW g, NEW D, Base(k, D), IsKv(g), Same(k, g, Inert)
  PROVE  Base(g, D)
<1>1. /\ g.ref = k.ref /\ g.cold_ref = k.cold_ref /\ g.pg = k.pg /\ g.num = k.num /\ g.life = k.life
      /\ g.st = k.st /\ g.seen = k.seen /\ g.frontier = k.frontier /\ g.demoted = k.demoted
      /\ g.flying = k.flying /\ g.used = k.used /\ g.hibernated = k.hibernated /\ g.file = k.file
      /\ g.pend = k.pend /\ g.stream = k.stream /\ g.landed = k.landed
      /\ g.spilled_total = k.spilled_total /\ g.total = k.total
  BY DEF Same, Fields, Inert
<1> QED  BY <1>1 DEF Base

LEMMA StaysWhat ==
  ASSUME NEW k, NEW g, Stays(k, g)
  PROVE  /\ g.num = k.num /\ g.life = k.life /\ g.txt = k.txt /\ g.pass = k.pass /\ g.base = k.base
         /\ g.floor = k.floor /\ g.rewinds = k.rewinds /\ g.seen = k.seen /\ g.hibernated = k.hibernated
         /\ g.fail = k.fail
BY DEF Stays, Same, Fields, TierFields
LEMMA StaysSelf ==
  ASSUME NEW k
  PROVE  Stays(k, k)
BY DEF Stays, Same
LEMMA StaysTrans ==
  ASSUME NEW a, NEW b, Stays(a, b), NEW c, Stays(b, c)
  PROVE  Stays(a, c)
BY DEF Stays, Same

-------------------------------------------------------------------------------
(* The deferred batch goes, or is forgotten.                               *)

LEMMA DropFields ==
  ASSUME NEW k, IsKv(k), NEW g, g = [k EXCEPT !.pend = NoPend]
  PROVE  IsKv(g) /\ Same(k, g, {"pend"}) /\ g.pend = NoPend
BY Zenon DEF IsKv, Fields, Same

LEMMA DropKeeps ==
  ASSUME NEW k, NEW D, Good(k, D), NEW g, g = [k EXCEPT !.pend = NoPend]
  PROVE  Good(g, D) /\ Stays(k, g) /\ NoBatch(g) /\ g.file = k.file
<1>1. IsKv(g) /\ Same(k, g, {"pend"}) /\ g.pend = NoPend
  BY DropFields DEF Good, Base
<1>2. PendOk(g.pend, g.st, g.pg) /\ NoBatch(g)
  BY <1>1, KvAssumption DEF PendOk, NoPend, NoBatch
<1>3. /\ g.ref = k.ref /\ g.cold_ref = k.cold_ref /\ g.pg = k.pg /\ g.num = k.num /\ g.life = k.life
      /\ g.st = k.st /\ g.seen = k.seen /\ g.frontier = k.frontier /\ g.demoted = k.demoted
      /\ g.flying = k.flying /\ g.used = k.used /\ g.hibernated = k.hibernated /\ g.file = k.file
      /\ g.stream = k.stream /\ g.landed = k.landed
      /\ g.spilled_total = k.spilled_total /\ g.total = k.total
  BY <1>1 DEF Same, Fields
<1>4. Stays(k, g)
  BY <1>1 DEF Stays, Same, TierFields
<1> QED  BY <1>1, <1>2, <1>3, <1>4 DEF Good, Base

\* The batch is finite, and its items are different pages.
LEMMA BatchFinite ==
  ASSUME NEW pend, NEW st, NEW pg, PendOk(pend, st, pg), NEW items, items \subseteq pend.items
  PROVE  /\ IsFiniteSet(items) /\ Cardinality(items) \in Nat
         /\ Cardinality(Cargo(items)) <= Cardinality(items)
<1> DEFINE back == [x \in Cargo(items) |-> [x |-> x, h |-> pg[x]]]
           x_of == [i \in items |-> i.x]
<1>1. \A i \in items : i.x \in Cells /\ i = [x |-> i.x, h |-> pg[i.x]]
  BY DEF PendOk, Todo
<1>2. Cargo(items) \subseteq Cells
  BY <1>1 DEF Cargo
<1>3. \A i \in items : i.x \in Cargo(items)
  BY DEF Cargo
<1>4. \A x \in Cargo(items) : back[x] \in items
  BY <1>1 DEF Cargo
<1>5. back \in Surjection(Cargo(items), items)
  <2>1. ASSUME NEW i \in items PROVE \E x \in Cargo(items) : back[x] = i
    BY <1>1, <1>3
  <2>2. back \in [Cargo(items) -> items]
    BY <1>4
  <2> QED  BY <2>1, <2>2 DEF Surjection
<1>6. x_of \in Surjection(items, Cargo(items))
  <2>1. ASSUME NEW x \in Cargo(items) PROVE \E i \in items : x_of[i] = x
    BY DEF Cargo
  <2>2. x_of \in [items -> Cargo(items)]
    BY <1>3
  <2> QED  BY <2>1, <2>2 DEF Surjection
<1> HIDE DEF back, x_of
<1>7. IsFiniteSet(Cargo(items))
  BY <1>2, FiniteCells, FS_Subset
<1>8. IsFiniteSet(items)
  BY <1>5, <1>7, FS_Surjection
<1>9. Cardinality(Cargo(items)) <= Cardinality(items)
  BY <1>6, <1>8, FS_Surjection
<1> QED  BY <1>8, <1>9, FS_CardinalityType

LEMMA MinMax ==
  ASSUME NEW a \in Int, NEW b \in Int
  PROVE  /\ MinOf(a, b) \in Int /\ MinOf(a, b) <= a /\ MinOf(a, b) <= b /\ MinOf(a, b) \in {a, b}
         /\ MaxOf(a, b) \in Int /\ MaxOf(a, b) >= a /\ MaxOf(a, b) >= b /\ MaxOf(a, b) \in {a, b}
BY DEF MinOf, MaxOf

LEMMA CapTyped ==
  ASSUME NEW k, NEW s, NEW fair_share
  PROVE  cold_cap(k, s, fair_share) \in Nat
<1> DEFINE Q == {q \in Ids : (k.demoted[q] > 0 \/ q = s) /\ k.hibernated[q] = "no"}
<1>1. IsFiniteSet(Ids)
  BY FS_Interval, KvAssumption DEF Ids
<1>2. Q \subseteq Ids
  OBVIOUS
<1> HIDE DEF Q
<1>3. PICK n : n = Cardinality(Q)
  OBVIOUS
<1>4. n \in Nat
  BY <1>1, <1>2, <1>3, FS_Subset, FS_CardinalityType
<1>5. cold_cap(k, s, fair_share) = IF fair_share /\ n > 1 THEN MaxOf(ColdPages \div n, 1) ELSE ColdPages
  BY <1>3, Zenon DEF Q, cold_cap
<1>6. n > 1 => ColdPages \div n \in Int
  BY <1>4, KvAssumption
<1> QED  BY <1>4, <1>5, <1>6, KvAssumption DEF MaxOf

LEMMA AcceptedFits ==
  ASSUME NEW k, NEW D, Base(k, D), k.pend.items # {}, NEW fair_share
  PROVE  /\ Accepted(k, fair_share) \subseteq k.pend.items
         /\ Cardinality(Cargo(Accepted(k, fair_share))) <= Cardinality(FreeSlots(k))
<1>1. PendOk(k.pend, k.st, k.pg)
  BY DEF Base
<1>2. k.pend.seq \in Ids
  BY <1>1, KvAssumption DEF PendOk, Ids
<1>3. k.used[k.pend.seq] \in Int
  BY <1>2 DEF Base, CountsOk
<1>4. PICK I : I = k.pend.items
  OBVIOUS
<1>5. IsFiniteSet(I) /\ Cardinality(I) \in Nat
  BY <1>1, <1>4, BatchFinite
<1>6. PICK key : key = [i \in I |-> i.h]
  OBVIOUS
<1>7. \A i \in I : key[i] \in Nat
  BY <1>1, <1>4, <1>6, KvAssumption DEF PendOk, Todo, Pages
<1>8. PICK share : share = MaxOf(cold_cap(k, k.pend.seq, fair_share) - k.used[k.pend.seq], 0)
  OBVIOUS
<1>9. share \in Nat
  <2>1. PICK c \in Nat : c = cold_cap(k, k.pend.seq, fair_share)
    BY CapTyped
  <2> QED  BY <1>3, <1>8, <2>1 DEF MaxOf
<1>10. PICK n : n = MinOf(Cardinality(I), MinOf(share, Cardinality(FreeSlots(k))))
  OBVIOUS
<1>11. n \in Nat /\ n <= Cardinality(I) /\ n <= Cardinality(FreeSlots(k))
  BY <1>5, <1>9, <1>10, FreeFinite DEF MinOf
<1>12. Accepted(k, fair_share) = First(n, I, key)
  BY <1>4, <1>6, <1>8, <1>10, Zenon DEF Accepted
<1>13. First(n, I, key) \subseteq I /\ Cardinality(First(n, I, key)) = n
  BY <1>5, <1>7, <1>11, FirstWorks
<1>14. PICK A : A = Accepted(k, fair_share)
  OBVIOUS
<1>15. A \subseteq k.pend.items /\ Cardinality(A) = n
  BY <1>4, <1>12, <1>13, <1>14
<1>16. Cardinality(Cargo(A)) <= Cardinality(A) /\ IsFiniteSet(A)
  BY <1>1, <1>15, BatchFinite
<1>17. Cardinality(Cargo(A)) \in Nat
  <2>1. Cargo(A) \subseteq Cells
    BY <1>1, <1>15 DEF PendOk, Todo, Cargo
  <2> QED  BY <2>1, FiniteCells, FS_Subset, FS_CardinalityType
<1> QED  BY <1>11, <1>14, <1>15, <1>16, <1>17, FreeFinite

LEMMA FlushKeeps ==
  ASSUME NEW k, NEW D, Good(k, D), NEW fair_share, NEW g, g = flush_pending(k, fair_share)
  PROVE  Good(g, D) /\ Stays(k, g) /\ NoBatch(g) /\ g.file = k.file
<1>1. CASE k.pend.items = {}
  BY <1>1, StaysSelf DEF flush_pending, NoBatch
<1>2. CASE k.pend.items # {}
  <2>0. PICK A : A = Accepted(k, fair_share)
    OBVIOUS
  <2>1. CASE A = {}
    <3>1. g = [k EXCEPT !.pend = NoPend]
      BY <1>2, <2>0, <2>1, Zenon DEF flush_pending
    <3> QED  BY <3>1, DropKeeps
  <2>2. CASE A # {}
    <3>0. PICK s : s = k.pend.seq
      OBVIOUS
    <3>1. g = accept(k, s, A)
      BY <1>2, <2>0, <2>2, <3>0, Zenon DEF flush_pending
    <3>2. A \subseteq k.pend.items /\ Cardinality(Cargo(A)) <= Cardinality(FreeSlots(k))
      BY <1>2, <2>0, AcceptedFits DEF Good
    <3>3. Base(g, D)
      BY <2>2, <3>0, <3>1, <3>2, AcceptKeeps DEF Good
    <3>4. IsKv(k)
      BY DEF Good, Base
    <3>5. /\ Same(k, g, {"pend", "cold_ref", "st", "used", "demoted", "flying", "total", "frontier", "stream"})
          /\ g.pend = NoPend
      BY <3>1, <3>4, AcceptFields
    <3>6. Stays(k, g) /\ NoBatch(g) /\ g.file = k.file
      BY <3>5 DEF Stays, Same, TierFields, NoBatch, NoPend, Fields
    <3> QED  BY <3>3, <3>6 DEF Good
  <2> QED  BY <2>1, <2>2
<1> QED  BY <1>1, <1>2
-------------------------------------------------------------------------------
(* Pages are collected.                                                    *)

Batch(pend, s, new, pg) ==
  [seq |-> s, last |-> Max({x[2] : x \in new}), items |-> pend.items \cup {[x |-> x, h |-> pg[x]] : x \in new}]

LEMMA CollectFields ==
  ASSUME NEW k, IsKv(k), NEW s, NEW layers, NEW e, NEW f, NEW new, new = Collected(k, s, layers, e, f),
         new # {}, NEW g, g = collect(k, s, layers, e, f)
  PROVE  IsKv(g) /\ Same(k, g, {"pend"}) /\ g.pend = Batch(k.pend, s, new, k.pg)
BY Zenon DEF collect, IsKv, Fields, Same, Batch

\* The pages that are collected.
Behind(k, s, layers, e, f, new) ==
  \A x \in new : /\ x \in Cells /\ x[1] = s /\ x[2] \in layers /\ x[3] < k.num[s] /\ PageEnd(x) <= e
                 /\ x[3] < f /\ k.st[x].tier = "hot" /\ k.pg[x] # Neutral
LEMMA CollectedWhat ==
  ASSUME NEW k, NEW s \in Ids, NEW layers, layers \subseteq Layers, NEW e, NEW f,
         NEW new, new = Collected(k, s, layers, e, f)
  PROVE  Behind(k, s, layers, e, f, new)
BY DEF Collected, Cells, PageEnd, Behind

LEMMA CollectKeeps ==
  ASSUME NEW k, NEW D, Good(k, D), NEW s \in Ids, k.pend.seq \in {0, s}, NEW layers, layers \subseteq Layers,
         NEW e, NEW f, NEW g, g = collect(k, s, layers, e, f)
  PROVE  Good(g, D) /\ Stays(k, g)
<1>0. PICK new : new = Collected(k, s, layers, e, f)
  OBVIOUS
<1>1. CASE new = {}
  BY <1>0, <1>1, StaysSelf DEF collect
<1>2. CASE new # {}
  <2>1. IsKv(g) /\ Same(k, g, {"pend"}) /\ g.pend = Batch(k.pend, s, new, k.pg)
    BY <1>0, <1>2, CollectFields DEF Good, Base
  <2>0. Behind(k, s, layers, e, f, new)
    BY <1>0, CollectedWhat
  <2>2. \A x \in new : x \in Cells /\ x[1] = s /\ k.st[x].tier = "hot" /\ k.pg[x] # Neutral
    BY <2>0 DEF Behind
  <2>3. /\ g.ref = k.ref /\ g.cold_ref = k.cold_ref /\ g.pg = k.pg /\ g.num = k.num /\ g.life = k.life
        /\ g.st = k.st /\ g.seen = k.seen /\ g.frontier = k.frontier /\ g.demoted = k.demoted
        /\ g.flying = k.flying /\ g.used = k.used /\ g.hibernated = k.hibernated /\ g.file = k.file
        /\ g.stream = k.stream /\ g.landed = k.landed
        /\ g.spilled_total = k.spilled_total /\ g.total = k.total
    BY <2>1 DEF Same, Fields
  <2>4. Stays(k, g)
    BY <2>1 DEF Stays, Same, TierFields
  <2>5. PendOk(k.pend, k.st, k.pg) /\ k.pg \in [Cells -> 0..VramPages]
    BY DEF Good, Base, EntriesOk
  <2>6. PendOk(g.pend, g.st, g.pg)
    <3>1. PICK I : I = {[x |-> x, h |-> k.pg[x]] : x \in new}
      OBVIOUS
    <3>2. g.pend.seq = s /\ g.pend.items = k.pend.items \cup I
      BY <2>1, <3>1 DEF Batch
    <3>3. \A x \in new : k.pg[x] \in Pages
      BY <2>2, <2>5, KvAssumption DEF Pages, Neutral
    <3>4. \A i \in I : i \in Todo /\ i.x[1] = s /\ k.st[i.x].tier = "hot" /\ k.pg[i.x] = i.h
      BY <2>2, <3>1, <3>3 DEF Todo
    <3>5. I # {}
      <4>1. PICK x \in new : TRUE
        BY <1>2
      <4> QED  BY <3>1, <4>1
    <3>6. s \in 0..NumSeqs /\ s # 0
      BY KvAssumption DEF Ids
    <3>7. \A i \in k.pend.items : i \in Todo /\ i.x[1] = s /\ k.st[i.x].tier = "hot" /\ k.pg[i.x] = i.h
      BY <2>5 DEF PendOk
    <3> QED  BY <2>3, <3>2, <3>4, <3>5, <3>6, <3>7 DEF PendOk
  <2> QED  BY <2>1, <2>3, <2>4, <2>6 DEF Good, Base
<1> QED  BY <1>1, <1>2

LEMMA CollectRangeKeeps ==
  ASSUME NEW k, NEW D, Good(k, D), NEW s \in Ids, NEW layers, layers \subseteq Layers,
         NEW e, NEW f, NEW g, g = collect_layer_range(k, s, layers, e, f)
  PROVE  Good(g, D) /\ Stays(k, g)
<1>1. PICK a : a = IF k.pend.seq \in {0, s} THEN k ELSE flush_pending(k, TRUE)
  OBVIOUS
<1>2. Good(a, D) /\ Stays(k, a) /\ a.pend.seq \in {0, s}
  <2>1. CASE k.pend.seq \in {0, s}
    BY <1>1, <2>1, StaysSelf
  <2>2. CASE k.pend.seq \notin {0, s}
    <3>1. Good(a, D) /\ Stays(k, a) /\ NoBatch(a)
      BY <1>1, <2>2, FlushKeeps
    <3> QED  BY <3>1 DEF NoBatch, Good, Base, PendOk
  <2> QED  BY <2>1, <2>2
<1>3. g = collect(a, s, layers, e, f)
  BY <1>1 DEF collect_layer_range
<1>4. Good(g, D) /\ Stays(a, g)
  BY <1>2, <1>3, CollectKeeps
<1> QED  BY <1>2, <1>4, StaysTrans

-------------------------------------------------------------------------------
(* Copies land.                                                            *)

Landed(k, items, S) == [land(k, items) EXCEPT !.stream = S]
LEMMA LandFields ==
  ASSUME NEW k, IsKv(k), NEW items, NEW S, NEW g, g = Landed(k, items, S)
  PROVE  /\ IsKv(g) /\ Same(k, g, {"landed", "cold", "stream"})
         /\ g.landed = k.landed \cup items /\ g.stream = S
BY Zenon DEF Landed, land, IsKv, Fields, Same

\* Some groups of the stream land, the others stay in it.
Landing(landed, stream, items, S) ==
  /\ S \in Seq(SUBSET Item) /\ items \subseteq Item
  /\ \A i \in items : \E n \in 1..Len(stream) : i \in stream[n]
  /\ \A n \in 1..Len(stream) : stream[n] \subseteq items \/ \E m \in 1..Len(S) : S[m] = stream[n]
  /\ \A m \in 1..Len(S) : \E n \in 1..Len(stream) : S[m] = stream[n] /\ Apart(stream[n], items)
  /\ \A l, m \in 1..Len(S) : l # m => Apart(S[l], S[m])

LEMMA FlightLands ==
  ASSUME NEW landed, NEW stream, NEW items, NEW S, Landing(landed, stream, items, S),
         NEW st, NEW pg, FlightOk(landed, stream, st, pg)
  PROVE  FlightOk(landed \cup items, S, st, pg)
<1> USE DEF Landing
<1>1. landed \cup items \subseteq Item /\ S \in Seq(SUBSET Item)
  BY DEF FlightOk
<1>2. ItemsOk(landed \cup items, st, pg)
  BY DEF FlightOk, ItemsOk
<1>3. \A m \in 1..Len(S) : ItemsOk(S[m], st, pg) /\ Apart(S[m], landed \cup items)
  BY DEF FlightOk, Apart
<1>4. ASSUME NEW x \in Cells, st[x].tier = "inflight"
      PROVE  x \in Cargo(landed \cup items) \/ \E m \in 1..Len(S) : x \in Cargo(S[m])
  <2>1. CASE x \in Cargo(landed)
    BY <2>1 DEF Cargo
  <2>2. CASE \E n \in 1..Len(stream) : x \in Cargo(stream[n])
    BY <2>2 DEF Cargo
  <2> QED  BY <1>4, <2>1, <2>2 DEF FlightOk
<1> QED  BY <1>1, <1>2, <1>3, <1>4 DEF FlightOk

LEMMA LandKeeps ==
  ASSUME NEW k, NEW D, Good(k, D), NEW items, NEW S, Landing(k.landed, k.stream, items, S),
         NEW g, g = Landed(k, items, S)
  PROVE  Good(g, D) /\ Stays(k, g) /\ g.stream = S /\ g.pend = k.pend /\ g.file = k.file
<1>1. /\ IsKv(g) /\ Same(k, g, {"landed", "cold", "stream"})
      /\ g.landed = k.landed \cup items /\ g.stream = S
  BY LandFields DEF Good, Base
<1>2. /\ g.ref = k.ref /\ g.cold_ref = k.cold_ref /\ g.pg = k.pg /\ g.num = k.num /\ g.life = k.life
      /\ g.st = k.st /\ g.seen = k.seen /\ g.frontier = k.frontier /\ g.demoted = k.demoted
      /\ g.flying = k.flying /\ g.used = k.used /\ g.hibernated = k.hibernated /\ g.file = k.file
      /\ g.pend = k.pend /\ g.spilled_total = k.spilled_total /\ g.total = k.total
  BY <1>1 DEF Same, Fields
<1>3. Stays(k, g)
  BY <1>1 DEF Stays, Same, TierFields
<1>4. FlightOk(k.landed, k.stream, k.st, k.pg)
  BY DEF Good, Base
<1>5. FlightOk(g.landed, g.stream, g.st, g.pg)
  BY <1>1, <1>2, <1>4, FlightLands
<1> QED  BY <1>1, <1>2, <1>3, <1>5 DEF Good, Base

LEMMA HeadLands ==
  ASSUME NEW k, NEW D, Base(k, D), k.stream # <<>>
  PROVE  Landing(k.landed, k.stream, Head(k.stream), Tail(k.stream))
<1>1. FlightOk(k.landed, k.stream, k.st, k.pg)
  BY DEF Base
<1>2. PICK s : s = k.stream
  OBVIOUS
<1>3. /\ s \in Seq(SUBSET Item) /\ s # <<>> /\ Len(s) \in Nat /\ Len(s) > 0
      /\ \A m, n \in 1..Len(s) : m # n => Apart(s[m], s[n])
  BY <1>1, <1>2 DEF FlightOk
<1>4. PICK t : t = Tail(s)
  OBVIOUS
<1>5. /\ t \in Seq(SUBSET Item) /\ Len(t) = Len(s) - 1 /\ \A m \in 1..Len(t) : t[m] = s[m + 1]
      /\ Head(s) = s[1] /\ s[1] \in SUBSET Item
  BY <1>3, <1>4
<1>6. \A n \in 1..Len(s) : n = 1 \/ (n - 1 \in 1..Len(t) /\ t[n - 1] = s[n])
  BY <1>3, <1>5
<1>7. 1 \in 1..Len(s) /\ \A m \in 1..Len(t) : m + 1 \in 1..Len(s) /\ m + 1 # 1
  BY <1>3, <1>5
<1>8. \A m \in 1..Len(t) : \E n \in 1..Len(s) : t[m] = s[n] /\ Apart(s[n], s[1])
  BY <1>3, <1>5, <1>7
<1>9. \A l, m \in 1..Len(t) : l # m => Apart(t[l], t[m])
  BY <1>3, <1>5, <1>7
<1>10. \A n \in 1..Len(s) : s[n] \subseteq s[1] \/ \E m \in 1..Len(t) : t[m] = s[n]
  BY <1>6
<1>11. Landing(k.landed, s, s[1], t)
  BY <1>5, <1>7, <1>8, <1>9, <1>10 DEF Landing
<1> QED  BY <1>2, <1>4, <1>5, <1>11

LEMMA AllLand ==
  ASSUME NEW k, NEW D, Base(k, D)
  PROVE  Landing(k.landed, k.stream, UNION ToSet(k.stream), <<>>)
<1>1. FlightOk(k.landed, k.stream, k.st, k.pg)
  BY DEF Base
<1>2. PICK s : s = k.stream
  OBVIOUS
<1>3. s \in Seq(SUBSET Item)
  BY <1>1, <1>2 DEF FlightOk
<1>4. PICK A : A = UNION ToSet(s)
  OBVIOUS
<1>5. ToSet(s) = {s[i] : i \in 1..Len(s)}
  BY <1>3 DEF ToSet
<1>6. /\ \A i \in A : \E n \in 1..Len(s) : i \in s[n]
      /\ \A n \in 1..Len(s) : s[n] \subseteq A
      /\ A \subseteq Item
  <2>1. \A i \in A : \E n \in 1..Len(s) : i \in s[n]
    BY <1>4, <1>5
  <2>2. \A n \in 1..Len(s) : s[n] \in ToSet(s)
    BY <1>5
  <2>3. \A n \in 1..Len(s) : s[n] \subseteq A
    BY <1>4, <2>2
  <2>4. \A n \in 1..Len(s) : s[n] \subseteq Item
    BY <1>3
  <2> QED  BY <2>1, <2>3, <2>4
<1>7. <<>> \in Seq(SUBSET Item) /\ Len(<<>>) = 0
  OBVIOUS
<1> QED  BY <1>2, <1>4, <1>6, <1>7 DEF Landing
-------------------------------------------------------------------------------
(* Copies that have landed are polled.                                     *)

Arrived(landed) == [h \in Pages |-> Cardinality({i \in landed : i.h = h})]
SlotsAt(st, X)  == [x \in X |-> st[x].slot]
Gone(X)         == [x \in X |-> Neutral]
Fewer(flying, X) == [s \in Ids |-> flying[s] - Cardinality(X \cap Of(s))]

LEMMA PollFields ==
  ASSUME NEW k, IsKv(k), NEW g, g = poll_demotions(k)
  PROVE  /\ IsKv(g) /\ Same(k, g, {"ref", "vram", "landed", "st", "pg", "flying"})
         /\ g.landed = {} /\ g.ref = Less(k.ref, Arrived(k.landed)) /\ g.vram = Kept(k.vram, k.ref, Arrived(k.landed))
         /\ g.st = With(k.st, At("cold", SlotsAt(k.st, Cargo(k.landed))))
         /\ g.pg = With(k.pg, Gone(Cargo(k.landed))) /\ g.flying = Fewer(k.flying, Cargo(k.landed))
BY Zenon DEF poll_demotions, free, IsKv, Fields, Same, Arrived, SlotsAt, Gone, Fewer, Cargo

\* The items of a page are as many as its cells.
LEMMA ItemsTally ==
  ASSUME NEW landed, landed \subseteq Item, NEW st, NEW pg, ItemsOk(landed, st, pg)
  PROVE  Tallies(Arrived(landed), Pages, pg, Cargo(landed))
<1> SUFFICES ASSUME NEW h \in Pages
             PROVE  Cardinality({i \in landed : i.h = h}) = Cardinality({x \in Cargo(landed) : pg[x] = h})
  BY DEF Tallies, Arrived, Uses
<1> DEFINE A == {i \in landed : i.h = h}
           B == {x \in Cargo(landed) : pg[x] = h}
           f == [i \in A |-> i.x]
<1>1. \A i \in landed : /\ i.x \in Cells /\ i.x \in Cargo(landed) /\ pg[i.x] = i.h
                        /\ i = [x |-> i.x, h |-> pg[i.x], c |-> st[i.x].slot]
  BY DEF Item, ItemsOk, Cargo
<1>2. \A i \in A : i.x \in B
  BY <1>1
<1>3. \A i, j \in A : i.x = j.x => i = j
  BY <1>1
<1>4. \A x \in B : \E i \in A : i.x = x
  BY <1>1 DEF Cargo
<1>5. f \in [A -> B] /\ \A i \in A : f[i] = i.x
  BY <1>2
<1>6. IsFiniteSet(B)
  <2>1. B \subseteq Cells
    BY <1>1 DEF Cargo
  <2> QED  BY <2>1, FiniteCells, FS_Subset
<1> HIDE DEF A, B, f
<1>7. f \in Injection(A, B) /\ f \in Surjection(A, B)
  BY <1>3, <1>4, <1>5 DEF Injection, Surjection, IsInjective
<1>8. Cardinality(A) = Cardinality(B)
  BY <1>6, <1>7, FS_Injection
<1> QED  BY <1>8 DEF A, B

\* Where the landed pages are afterwards.
LEMMA PollCells ==
  ASSUME NEW k, NEW D, Base(k, D), NEW g, g = poll_demotions(k), NEW X, X = Cargo(k.landed)
  PROVE  /\ Tiering(k.st, g.st, X, "inflight", "cold") /\ DOMAIN g.st = Cells /\ DOMAIN g.pg = Cells
         /\ \A x \in X : g.st[x].slot = k.st[x].slot /\ g.pg[x] = Neutral
         /\ \A x \in Cells \ X : g.pg[x] = k.pg[x]
<1>1. IsKv(k) /\ EntriesOk(k.st, k.pg) /\ FlightOk(k.landed, k.stream, k.st, k.pg)
  BY DEF Base
<1>2. \A i \in k.landed : i.x \in Cells /\ k.st[i.x].tier = "inflight"
  BY <1>1 DEF FlightOk, Item, ItemsOk
<1>3. X \subseteq Cells /\ \A x \in X : k.st[x].tier = "inflight"
  BY <1>2 DEF Cargo
<1>4. PICK a : a = At("cold", SlotsAt(k.st, X))
  OBVIOUS
<1>5. PICK b : b = Gone(X)
  OBVIOUS
<1>6. g.st = With(k.st, a) /\ g.pg = With(k.pg, b)
  BY <1>1, <1>4, <1>5, PollFields
<1>7. DOMAIN a = X /\ \A x \in X : a[x].tier = "cold" /\ a[x].slot = k.st[x].slot
  <2>1. PICK f : f = SlotsAt(k.st, X)
    OBVIOUS
  <2>2. DOMAIN f = X /\ \A x \in X : f[x] = k.st[x].slot
    BY <2>1 DEF SlotsAt
  <2>3. DOMAIN a = DOMAIN f /\ \A x \in DOMAIN f : a[x].tier = "cold" /\ a[x].slot = f[x]
    BY <1>4, <2>1, AtIs
  <2> QED  BY <2>2, <2>3
<1>8. DOMAIN b = X /\ \A x \in X : b[x] = Neutral
  BY <1>5 DEF Gone
<1>9. DOMAIN k.st = Cells /\ DOMAIN k.pg = Cells
  BY <1>1 DEF EntriesOk
<1>10. /\ DOMAIN g.st = Cells /\ \A x \in X : g.st[x] = a[x]
       /\ \A x \in Cells \ X : g.st[x] = k.st[x]
  BY <1>3, <1>6, <1>7, <1>9, WithIs
<1>11. /\ DOMAIN g.pg = Cells /\ \A x \in X : g.pg[x] = b[x]
       /\ \A x \in Cells \ X : g.pg[x] = k.pg[x]
  BY <1>3, <1>6, <1>8, <1>9, WithIs
<1> QED  BY <1>3, <1>7, <1>8, <1>10, <1>11 DEF Tiering

LEMMA CountsArrive ==
  ASSUME NEW st, NEW tt, NEW X, Tiering(st, tt, X, "inflight", "cold"), NEW demoted, NEW flying,
         NEW used, NEW frontier, NEW file, CountsOk(st, demoted, flying, used, frontier, file)
  PROVE  CountsOk(tt, demoted, Fewer(flying, X), used, frontier, file)
<1>1. /\ "inflight" \in Lower /\ "cold" \in Lower /\ "inflight" \in Slotted /\ "cold" \in Slotted
      /\ "inflight" \notin {"spilled"} /\ "cold" \notin {"spilled"}
      /\ "inflight" \in {"inflight"} /\ "cold" \notin {"inflight"}
  BY DEF Lower, Slotted
<1>2. ASSUME NEW s \in Ids
      PROVE  /\ Fewer(flying, X)[s] \in Int
             /\ SeqCounts(tt, s, demoted[s], Fewer(flying, X)[s], used[s], frontier[s], file[s])
  <2>1. SeqCounts(st, s, demoted[s], flying[s], used[s], frontier[s], file[s]) /\ flying[s] \in Int
    BY DEF CountsOk
  <2>2. Tier(tt, s, Lower) = Tier(st, s, Lower)
    BY <1>1, TierSame
  <2>3. Tier(tt, s, Slotted) = Tier(st, s, Slotted)
    BY <1>1, TierSame
  <2>4. Tier(tt, s, {"spilled"}) = Tier(st, s, {"spilled"})
    BY <1>1, TierSame
  <2>5. /\ Cardinality(Tier(tt, s, {"inflight"})) = Cardinality(Tier(st, s, {"inflight"})) - Cardinality(X \cap Of(s))
        /\ Cardinality(X \cap Of(s)) \in Nat
    BY <1>1, TierLess
  <2>6. Fewer(flying, X)[s] = flying[s] - Cardinality(X \cap Of(s))
    BY DEF Fewer
  <2>7. Fewer(flying, X)[s] = Cardinality(Tier(tt, s, {"inflight"}))
    BY <2>1, <2>5, <2>6 DEF SeqCounts
  <2> QED  BY <2>1, <2>2, <2>3, <2>4, <2>5, <2>6, <2>7 DEF SeqCounts
<1>3. Fewer(flying, X) \in [Ids -> Int]
  <2>1. DOMAIN Fewer(flying, X) = Ids /\ Fewer(flying, X) = [s \in Ids |-> Fewer(flying, X)[s]]
    BY DEF Fewer
  <2> QED  BY <1>2, <2>1
<1> QED  BY <1>2, <1>3 DEF CountsOk

\* Nobody is in flight; nobody of s is.
NoFlight(k) == \A x \in Cells : k.st[x].tier # "inflight"
Steady(k, s) == \A x \in Of(s) : k.st[x].tier # "inflight"

LEMMA PollKeeps ==
  ASSUME NEW k, NEW D, Good(k, D), NEW g, g = poll_demotions(k)
  PROVE  Good(g, D) /\ Stays(k, g) /\ g.pend = k.pend /\ g.file = k.file /\ (k.stream = <<>> => NoFlight(g))
<1> USE DEF Good
<1>1. IsKv(k) /\ EntriesOk(k.st, k.pg) /\ FlightOk(k.landed, k.stream, k.st, k.pg)
  BY DEF Base
<1>2. PICK X : X = Cargo(k.landed)
  OBVIOUS
<1>3. /\ IsKv(g) /\ Same(k, g, {"ref", "vram", "landed", "st", "pg", "flying"})
      /\ g.landed = {} /\ g.ref = Less(k.ref, Arrived(k.landed)) /\ g.flying = Fewer(k.flying, X)
  BY <1>1, <1>2, PollFields
<1>4. /\ Tiering(k.st, g.st, X, "inflight", "cold") /\ DOMAIN g.st = Cells /\ DOMAIN g.pg = Cells
      /\ \A x \in X : g.st[x].slot = k.st[x].slot /\ g.pg[x] = Neutral
      /\ \A x \in Cells \ X : g.pg[x] = k.pg[x]
  BY <1>2, PollCells
<1>5. /\ X \subseteq Cells /\ \A x \in Cells \ X : g.st[x] = k.st[x]
      /\ \A x \in X : k.st[x].tier = "inflight" /\ g.st[x].tier = "cold"
  BY <1>4 DEF Tiering
<1>6. /\ g.cold_ref = k.cold_ref /\ g.num = k.num /\ g.life = k.life /\ g.seen = k.seen
      /\ g.frontier = k.frontier /\ g.demoted = k.demoted /\ g.used = k.used
      /\ g.hibernated = k.hibernated /\ g.file = k.file /\ g.pend = k.pend /\ g.stream = k.stream
      /\ g.spilled_total = k.spilled_total /\ g.total = k.total
  BY <1>3 DEF Same, Fields
<1>7. Stays(k, g)
  BY <1>3 DEF Stays, Same, TierFields
<1>8. EntriesOk(g.st, g.pg)
  <2>1. g.pg \in [Cells -> 0..VramPages]
    <3>1. \A x \in Cells : g.pg[x] \in 0..VramPages
      BY <1>1, <1>4, KvAssumption DEF EntriesOk, Neutral
    <3>2. PICK q : q = g.pg
      OBVIOUS
    <3>3. DOMAIN q = Cells /\ \A x \in Cells : q[x] \in 0..VramPages
      BY <1>4, <3>1, <3>2
    <3>4. q = [x \in Cells |-> q[x]]
      <4>1. Tiering(k.st, g.st, X, "inflight", "cold")
        BY <1>4
      <4>2. q = With(k.pg, Gone(X))
        BY <1>1, <1>2, <3>2, PollFields
      <4> QED  BY <1>1, <4>2 DEF With, EntriesOk
    <3> QED  BY <3>2, <3>3, <3>4
  <2> QED  BY <1>1, <1>4, <1>5, <2>1 DEF EntriesOk, Tiers, Slotted
<1>9. Counted(g.ref, Pages, g.pg)
  <2>1. Tallies(Arrived(k.landed), Pages, k.pg, X)
    BY <1>1, <1>2, ItemsTally DEF FlightOk
  <2>2. Moves(k.pg, g.pg, X) /\ Without(Pages, g.pg, X)
    BY <1>4, <1>5, PagesPositive DEF Moves, Without
  <2>3. Counted(k.ref, Pages, k.pg)
    BY DEF Base
  <2> QED  BY <1>3, <2>1, <2>2, <2>3, CountLess
<1>10. Counted(g.cold_ref, Slots, SlotOf(g.st))
  <2>1. \A x \in Cells : g.st[x].slot = k.st[x].slot
    BY <1>4, <1>5
  <2>2. SlotOf(g.st) = SlotOf(k.st)
    BY <2>1 DEF SlotOf
  <2> QED  BY <1>6, <2>2 DEF Base
<1>11. CountsOk(g.st, g.demoted, g.flying, g.used, g.frontier, g.file)
  BY <1>3, <1>4, <1>6, CountsArrive DEF Base
<1>12. TotalsOk(g.total, g.demoted, g.spilled_total, g.file)
  BY <1>6 DEF Base
<1>13. PendOk(g.pend, g.st, g.pg)
  <2>1. HotKept(k.st, k.pg, g.st, g.pg)
    BY <1>4, <1>5 DEF HotKept
  <2> QED  BY <1>6, <2>1, PendKept DEF Base
<1>14. FlightOk(g.landed, g.stream, g.st, g.pg)
  <2>1. ASSUME NEW n \in 1..Len(k.stream) PROVE ItemsOk(k.stream[n], g.st, g.pg)
    <3>1. ItemsOk(k.stream[n], k.st, k.pg) /\ Apart(k.stream[n], k.landed) /\ k.stream[n] \subseteq Item
      BY <1>1 DEF FlightOk
    <3>2. \A i \in k.stream[n] : i.x \in Cells \ X
      BY <1>2, <3>1 DEF Apart, Cargo, Item
    <3> QED  BY <1>4, <1>5, <3>1, <3>2 DEF ItemsOk
  <2>2. \A x \in Cells : g.st[x].tier = "inflight" => k.st[x].tier = "inflight" /\ x \notin Cargo(k.landed)
    BY <1>2, <1>5
  <2>3. \A x \in Cells : g.st[x].tier = "inflight" => \E n \in 1..Len(k.stream) : x \in Cargo(k.stream[n])
    BY <1>1, <2>2 DEF FlightOk
  <2> QED  BY <1>1, <1>3, <1>6, <2>1, <2>3 DEF FlightOk, ItemsOk, Apart
<1>15. NumberedOk(g.num, g.st, g.pg, D) /\ DormantOk(g.life, g.num, g.st, g.pg, g.hibernated, g.seen, D)
  <2>1. NoNew(k.st, k.pg, g.st, g.pg)
    BY <1>4, <1>5 DEF NoNew, Owned
  <2> QED  BY <1>6, <2>1, OwnedKept DEF Base
<1>16. k.stream = <<>> => NoFlight(g)
  BY <1>3, <1>6, <1>14 DEF FlightOk, NoFlight, Cargo
<1> QED  BY <1>3, <1>6, <1>7, <1>8, <1>9, <1>10, <1>11, <1>12, <1>13, <1>14, <1>15, <1>16 DEF Base

LEMMA DrainKeeps ==
  ASSUME NEW k, NEW D, Good(k, D), NEW g, g = drain_demotions(k)
  PROVE  Good(g, D) /\ Stays(k, g) /\ NoBatch(g) /\ NoFlight(g) /\ g.file = k.file
<1>1. PICK a : a = flush_pending(k, TRUE)
  OBVIOUS
<1>2. Good(a, D) /\ Stays(k, a) /\ NoBatch(a) /\ a.file = k.file
  BY <1>1, FlushKeeps
<1>3. PICK b : b = land_all(a)
  OBVIOUS
<1>4. Good(b, D) /\ Stays(a, b) /\ b.stream = <<>> /\ b.pend = a.pend /\ b.file = a.file
  <2>1. b = Landed(a, UNION ToSet(a.stream), <<>>)
    BY <1>3, Zenon DEF land_all, Landed
  <2>2. Landing(a.landed, a.stream, UNION ToSet(a.stream), <<>>)
    BY <1>2, AllLand DEF Good
  <2> QED  BY <1>2, <2>1, <2>2, LandKeeps
<1>5. g = poll_demotions(b)
  BY <1>1, <1>3 DEF drain_demotions
<1>6. Good(g, D) /\ Stays(b, g) /\ g.pend = b.pend /\ NoFlight(g) /\ g.file = b.file
  BY <1>4, <1>5, PollKeeps
<1>7. Stays(k, g)
  BY <1>2, <1>4, <1>6, StaysTrans
<1> QED  BY <1>2, <1>4, <1>6, <1>7 DEF NoBatch

LEMMA SettledKeeps ==
  ASSUME NEW k, NEW D, Good(k, D), NEW s \in Ids, NEW g, g = settled(k, s)
  PROVE  Good(g, D) /\ Stays(k, g) /\ Steady(g, s) /\ g.file = k.file /\ (NoBatch(k) => NoBatch(g)) /\ (k.pend.seq # s => g.pend.seq # s)
<1>1. CASE k.flying[s] > 0
  <2>1. Good(g, D) /\ Stays(k, g) /\ NoBatch(g) /\ NoFlight(g) /\ g.file = k.file
    BY <1>1, DrainKeeps DEF settled
  <2>2. g.pend.seq # s
    BY <2>1, KvAssumption DEF NoBatch, Good, Base, PendOk, Ids
  <2> QED  BY <2>1, <2>2, CellParts DEF NoFlight, Steady
<1>2. CASE ~ (k.flying[s] > 0)
  <2>1. g = k
    BY <1>2 DEF settled
  <2>2. k.flying[s] = Cardinality(Tier(k.st, s, {"inflight"}))
    BY DEF Good, Base, CountsOk, SeqCounts
  <2>3. IsFiniteSet(Tier(k.st, s, {"inflight"})) /\ Cardinality(Tier(k.st, s, {"inflight"})) \in Nat
    BY TierFinite
  <2>4. Tier(k.st, s, {"inflight"}) = {}
    BY <1>2, <2>2, <2>3, FS_EmptySet
  <2> QED  BY <2>1, <2>4, StaysSelf DEF Steady, Tier
<1> QED  BY <1>1, <1>2
-------------------------------------------------------------------------------
(* The file of a holder.                                                   *)

Covered(ref, n) == ~ \E c \in Slots : ref[c] < n[c]
LEMMA ReleaseFields ==
  ASSUME NEW k, IsKv(k), NEW n, Covered(k.cold_ref, n), NEW g, g = release_cold_slot(k, n)
  PROVE  /\ IsKv(g) /\ Same(k, g, {"cold_ref", "cold"})
         /\ g.cold_ref = Less(k.cold_ref, n) /\ g.cold = Kept(k.cold, k.cold_ref, n)
BY Zenon DEF Covered, release_cold_slot, IsKv, Fields, Same

\* What the cells X give up is covered.
LEMMA LessCovered ==
  ASSUME NEW ref, NEW p, Counted(ref, Slots, p), NEW X, NEW q, Moves(p, q, X), Without(Slots, q, X),
         NEW n, Tallies(n, Slots, p, X)
  PROVE  Covered(ref, n) /\ Counted(Less(ref, n), Slots, q)
<1>1. Counted(Less(ref, n), Slots, q) /\ \A h \in Slots : n[h] \in Nat /\ n[h] <= ref[h]
  BY CountLess
<1>2. \A h \in Slots : ref[h] \in Int
  BY DEF Counted
<1> QED  BY <1>1, <1>2 DEF Covered

ToDisk(k, X) == [x \in X |-> [Hot EXCEPT !.tier = "spilled", !.disk = k.cold[k.st[x].slot]]]
OnDisk(k, s, X) ==
  [k EXCEPT !.file[s] = Cardinality(X), !.spilled_total = @ + Cardinality(X),
            !.used[s] = MaxOf(@ - Cardinality(X), 0), !.st = With(@, ToDisk(k, X))]

LEMMA OnDiskFields ==
  ASSUME NEW k, IsKv(k), NEW s, NEW X, NEW g, g = OnDisk(k, s, X)
  PROVE  /\ IsKv(g) /\ Same(k, g, {"file", "spilled_total", "used", "st"})
         /\ g.file = Put(k.file, s, Cardinality(X)) /\ g.spilled_total = k.spilled_total + Cardinality(X)
         /\ g.used = Put(k.used, s, MaxOf(k.used[s] - Cardinality(X), 0)) /\ g.st = With(k.st, ToDisk(k, X))
BY Zenon DEF OnDisk, IsKv, Fields, Same, Put

LEMMA ToDiskIs ==
  ASSUME NEW k, NEW X
  PROVE  DOMAIN ToDisk(k, X) = X /\ \A x \in X : ToDisk(k, X)[x].tier = "spilled" /\ ToDisk(k, X)[x].slot = 0
BY DEF ToDisk, Hot

LEMMA InTierIs ==
  ASSUME NEW k, NEW s, NEW t
  PROVE  InTier(k, s, t) = Tier(k.st, s, {t})
BY DEF InTier, Tier

\* The tiers of a steady sequence without a file.
LEMMA SteadyTiers ==
  ASSUME NEW k, NEW D, Base(k, D), NEW s \in Ids, Steady(k, s), k.file[s] = 0
  PROVE  Tier(k.st, s, {"cold"}) = Tier(k.st, s, Lower) /\ Tier(k.st, s, {"cold"}) = Tier(k.st, s, Slotted)
<1>1. Tier(k.st, s, {"spilled"}) = {}
  BY DEF Base, CountsOk, SeqCounts
<1>2. \A x \in Of(s) : k.st[x].tier # "spilled" /\ k.st[x].tier # "inflight"
  BY <1>1 DEF Tier, Steady
<1> QED  BY <1>2 DEF Tier, Lower, Slotted

LEMMA WriteKeeps ==
  ASSUME NEW k, NEW D, Good(k, D), NEW s \in Ids, Steady(k, s), k.file[s] = 0,
         NEW X, X = InTier(k, s, "cold"), X # {}, k.spilled_total + Cardinality(X) <= SpillCap,
         NEW m, m = OnDisk(k, s, X), NEW g, g = release_cold_slot(m, Copies(k, X))
  PROVE  Good(g, D) /\ Stays(k, g) /\ g.pend = k.pend /\ Tiering(k.st, g.st, X, "cold", "spilled")
<1> USE DEF Good
<1>1. IsKv(k) /\ EntriesOk(k.st, k.pg)
  BY DEF Base
<1>2. PICK n : n = Cardinality(X)
  OBVIOUS
<1>3. /\ IsKv(m) /\ Same(k, m, {"file", "spilled_total", "used", "st"})
      /\ m.file = Put(k.file, s, n) /\ m.spilled_total = k.spilled_total + n
      /\ m.used = Put(k.used, s, MaxOf(k.used[s] - n, 0)) /\ m.st = With(k.st, ToDisk(k, X))
  BY <1>1, <1>2, OnDiskFields
<1>4. /\ m.ref = k.ref /\ m.cold_ref = k.cold_ref /\ m.pg = k.pg /\ m.num = k.num /\ m.life = k.life
      /\ m.seen = k.seen /\ m.frontier = k.frontier /\ m.demoted = k.demoted
      /\ m.flying = k.flying /\ m.hibernated = k.hibernated
      /\ m.pend = k.pend /\ m.stream = k.stream /\ m.landed = k.landed /\ m.total = k.total
  BY <1>3 DEF Same, Fields
<1>5. X = Tier(k.st, s, {"cold"}) /\ X = Tier(k.st, s, Lower) /\ X = Tier(k.st, s, Slotted)
  BY SteadyTiers, InTierIs
<1>6. X \subseteq Of(s) /\ X \subseteq Cells /\ \A x \in X : k.st[x].tier = "cold"
  BY <1>5, TierFinite DEF Tier
<1>7. /\ DOMAIN m.st = Cells
      /\ \A x \in X : m.st[x].tier = "spilled" /\ m.st[x].slot = 0
      /\ \A x \in Cells \ X : m.st[x] = k.st[x]
  <2>1. PICK a : a = ToDisk(k, X)
    OBVIOUS
  <2>2. DOMAIN a = X /\ \A x \in X : a[x].tier = "spilled" /\ a[x].slot = 0
    BY <2>1, ToDiskIs
  <2>3. DOMAIN k.st = Cells /\ m.st = With(k.st, a)
    BY <1>1, <1>3, <2>1 DEF EntriesOk
  <2> QED  BY <1>6, <2>2, <2>3, WithIs
<1>8. Tiering(k.st, m.st, X, "cold", "spilled")
  BY <1>6, <1>7 DEF Tiering
<1>9. Shifts(k.st, m.st, X, "cold", "spilled", s, n)
  BY <1>2, <1>6, <1>8 DEF Shifts
<1>10. OnlyOf(k.st, m.st, s) /\ n \in Nat /\ X \cap Of(s) = X
  BY <1>9, ShiftOnly
<1>11. Tallies(Copies(k, X), Slots, SlotOf(k.st), X)
  BY <1>6, HandlesCopies
<1>12. Moves(SlotOf(k.st), SlotOf(m.st), X) /\ Without(Slots, SlotOf(m.st), X)
  BY <1>6, <1>7, PagesPositive DEF Moves, Without, SlotOf
<1>13. Covered(k.cold_ref, Copies(k, X)) /\ Counted(Less(k.cold_ref, Copies(k, X)), Slots, SlotOf(m.st))
  BY <1>11, <1>12, LessCovered DEF Base
<1>14. IsKv(g) /\ Same(m, g, {"cold_ref", "cold"}) /\ g.cold_ref = Less(k.cold_ref, Copies(k, X))
  BY <1>3, <1>4, <1>13, ReleaseFields
<1>15. /\ g.ref = k.ref /\ g.pg = k.pg /\ g.num = k.num /\ g.life = k.life /\ g.st = m.st
       /\ g.seen = k.seen /\ g.frontier = k.frontier /\ g.demoted = k.demoted
       /\ g.flying = k.flying /\ g.hibernated = k.hibernated /\ g.file = m.file /\ g.used = m.used
       /\ g.pend = k.pend /\ g.stream = k.stream /\ g.landed = k.landed /\ g.total = k.total
       /\ g.spilled_total = m.spilled_total
  BY <1>4, <1>14 DEF Same, Fields
<1>16. Stays(k, g)
  BY <1>3, <1>14 DEF Stays, Same, TierFields
<1>17. EntriesOk(g.st, g.pg)
  BY <1>1, <1>6, <1>7, <1>15, KvAssumption DEF EntriesOk, Tiers, Slotted
<1>18. CountsOk(k.st, k.demoted, k.flying, k.used, k.frontier, k.file)
  BY DEF Base
<1>19. /\ k.demoted \in [Ids -> Int] /\ k.flying \in [Ids -> Int] /\ k.frontier \in [Ids -> Int]
       /\ k.file \in [Ids -> Int] /\ k.demoted[s] \in Int
       /\ SeqCounts(k.st, s, k.demoted[s], k.flying[s], k.used[s], k.frontier[s], k.file[s])
  BY <1>18 DEF CountsOk
<1>20. CountsOk(g.st, g.demoted, g.flying, g.used, g.frontier, g.file)
  <2>1. n > 0
    <3>1. IsFiniteSet(X) /\ Cardinality(X) # 0
      BY <1>6, FiniteCells, FS_Subset, FS_EmptySet
    <3> QED  BY <1>2, <1>10, <3>1
  <2>2. k.used[s] = n
    BY <1>2, <1>5, <1>19 DEF SeqCounts
  <2>3. MaxOf(k.used[s] - n, 0) = 0
    BY <1>10, <2>2 DEF MaxOf
  <2>4. Tier(m.st, s, Lower) = Tier(k.st, s, Lower)
    BY <1>8, TierSame DEF Lower
  <2>5. Tier(m.st, s, {"inflight"}) = Tier(k.st, s, {"inflight"})
    BY <1>8, TierSame
  <2>6. Tier(m.st, s, Slotted) = {}
    <3>1. \A x \in Of(s) \ X : k.st[x].tier \notin Slotted /\ m.st[x] = k.st[x]
      BY <1>5, <1>7, CellParts DEF Tier
    <3>2. \A x \in X : m.st[x].tier \notin Slotted
      BY <1>7 DEF Slotted
    <3> QED  BY <3>1, <3>2 DEF Tier
  <2>7. Tier(m.st, s, {"spilled"}) # {}
    <3>1. PICK x \in X : TRUE
      OBVIOUS
    <3>2. x \in Tier(m.st, s, {"spilled"})
      BY <1>6, <1>7, <3>1 DEF Tier
    <3> QED  BY <3>2
  <2>8. SeqCounts(m.st, s, k.demoted[s], k.flying[s], 0, k.frontier[s], n)
    BY <1>10, <1>19, <2>1, <2>4, <2>5, <2>6, <2>7, FS_EmptySet DEF SeqCounts
  <2>9. CountsOk(m.st, Put(k.demoted, s, k.demoted[s]), Put(k.flying, s, k.flying[s]), Put(k.used, s, 0),
                 Put(k.frontier, s, k.frontier[s]), Put(k.file, s, n))
    BY <1>10, <1>18, <2>8, CountsChange
  <2> QED  BY <1>3, <1>15, <1>19, <2>3, <2>9, PutSame
<1>21. TotalsOk(g.total, g.demoted, g.spilled_total, g.file)
  <2>1. TotalsOk(k.total, k.demoted, k.spilled_total, k.file)
    BY DEF Base
  <2>2. k.spilled_total \in Int /\ k.total \in Int /\ k.file[s] = 0
    BY <1>19, <2>1, TotalsTyped
  <2>3. k.total = k.total + k.demoted[s] - k.demoted[s] /\ m.spilled_total = k.spilled_total + n - k.file[s]
    BY <1>3, <1>10, <1>19, <2>2
  <2>4. m.spilled_total <= SpillCap /\ n \in Int
    BY <1>2, <1>3, <1>10
  <2>5. TotalsOk(k.total, Put(k.demoted, s, k.demoted[s]), m.spilled_total, Put(k.file, s, n))
    BY <1>19, <2>1, <2>2, <2>3, <2>4, TotalsChange
  <2> QED  BY <1>3, <1>15, <1>19, <2>5, PutSame
<1>22. PendOk(g.pend, g.st, g.pg)
  <2>1. HotKept(k.st, k.pg, g.st, g.pg)
    BY <1>6, <1>7, <1>15 DEF HotKept
  <2> QED  BY <1>15, <2>1, PendKept DEF Base
<1>23. FlightOk(g.landed, g.stream, g.st, g.pg)
  <2>1. FlightKept(k.st, k.pg, g.st, g.pg)
    BY <1>6, <1>7, <1>15 DEF FlightKept
  <2> QED  BY <1>15, <2>1, FlightSame DEF Base
<1>24. NumberedOk(g.num, g.st, g.pg, D) /\ DormantOk(g.life, g.num, g.st, g.pg, g.hibernated, g.seen, D)
  <2>1. NoNew(k.st, k.pg, g.st, g.pg)
    BY <1>6, <1>7, <1>15 DEF NoNew, Owned
  <2> QED  BY <1>15, <2>1, OwnedKept DEF Base
<1>25. Counted(g.ref, Pages, g.pg) /\ Counted(g.cold_ref, Slots, SlotOf(g.st))
  BY <1>13, <1>14, <1>15 DEF Base
<1> QED  BY <1>8, <1>14, <1>15, <1>16, <1>17, <1>20, <1>21, <1>22, <1>23, <1>24, <1>25 DEF Base

LEMMA DisableFields ==
  ASSUME NEW k, IsKv(k), NEW v, NEW g, g = [k EXCEPT !.spill = v]
  PROVE  IsKv(g) /\ Same(k, g, {"spill"})
BY Zenon DEF IsKv, Fields, Same

LEMMA WriteFileKeeps ==
  ASSUME NEW k, NEW D, Good(k, D), NEW s \in Ids, Steady(k, s), k.file[s] = 0, NEW written,
         NEW g, g = write_file(k, s, written)
  PROVE  Good(g, D) /\ Stays(k, g) /\ g.pend = k.pend
<1>1. PICK X : X = InTier(k, s, "cold")
  OBVIOUS
<1>2. PICK n : n = Cardinality(X)
  OBVIOUS
<1>3. CASE n = 0 \/ k.spilled_total + n > SpillCap
  <2>1. g = k
    BY <1>1, <1>2, <1>3, Zenon DEF write_file
  <2> QED  BY <2>1, StaysSelf
<1>4. CASE ~ (n = 0 \/ k.spilled_total + n > SpillCap) /\ ~written
  <2>1. g = [k EXCEPT !.spill = "disabled"]
    BY <1>1, <1>2, <1>4, Zenon DEF write_file
  <2>2. IsKv(g) /\ Same(k, g, {"spill"})
    BY <2>1, DisableFields DEF Good, Base
  <2>3. Same(k, g, Inert) /\ Stays(k, g) /\ g.pend = k.pend
    BY <2>2 DEF Same, Inert, Stays, TierFields, Fields
  <2> QED  BY <2>2, <2>3, BaseInert DEF Good
<1>5. CASE ~ (n = 0 \/ k.spilled_total + n > SpillCap) /\ written
  <2>0. PICK m : m = OnDisk(k, s, X)
    OBVIOUS
  <2>1. g = release_cold_slot(m, Copies(k, X))
    BY <1>1, <1>2, <1>5, <2>0, Zenon DEF write_file, OnDisk, ToDisk
  <2>2. X # {}
    BY <1>2, <1>5, FS_EmptySet
  <2>3. k.spilled_total \in Int
    <3>1. TotalsOk(k.total, k.demoted, k.spilled_total, k.file)
      BY DEF Good, Base
    <3>2. k.demoted \in [Ids -> Int] /\ k.file \in [Ids -> Int]
      BY DEF Good, Base, CountsOk
    <3> QED  BY <3>1, <3>2, TotalsTyped
  <2>4. n \in Nat
    BY <1>1, <1>2, InTierIs, TierFinite
  <2>5. k.spilled_total + n <= SpillCap
    BY <1>5, <2>3, <2>4, KvAssumption
  <2> QED  BY <1>1, <1>2, <2>0, <2>1, <2>2, <2>5, WriteKeeps
<1> QED  BY <1>3, <1>4, <1>5

LEMMA SpillKeeps ==
  ASSUME NEW k, NEW D, Good(k, D), NEW s \in Ids, NEW written, NEW g, g = spill_seq(k, s, written)
  PROVE  Good(g, D) /\ Stays(k, g)
<1>1. CASE k.spill = "disabled" \/ k.hibernated[s] = "no" \/ k.file[s] > 0
  BY <1>1, StaysSelf DEF spill_seq
<1>2. CASE ~ (k.spill = "disabled" \/ k.hibernated[s] = "no" \/ k.file[s] > 0)
  <2>1. PICK a : a = flush_pending(k, TRUE)
    OBVIOUS
  <2>2. PICK b : b = settled(a, s)
    OBVIOUS
  <2>3. g = write_file(b, s, written)
    BY <1>2, <2>1, <2>2 DEF spill_seq
  <2>4. Good(a, D) /\ Stays(k, a) /\ Good(b, D) /\ Stays(a, b) /\ Steady(b, s)
    BY <2>1, <2>2, FlushKeeps, SettledKeeps
  <2>5. b.file[s] = 0
    <3>1. b.file = k.file
      <4>1. a.file = k.file
        BY <2>1, FlushKeeps
      <4> QED  BY <2>2, <2>4, <4>1, SettledKeeps
    <3>2. k.file[s] \in Nat
      BY DEF Good, Base, CountsOk, SeqCounts
    <3> QED  BY <1>2, <3>1, <3>2
  <2>6. Good(g, D) /\ Stays(b, g)
    BY <2>3, <2>4, <2>5, WriteFileKeeps
  <2> QED  BY <2>4, <2>6, StaysTrans
<1> QED  BY <1>1, <1>2
-------------------------------------------------------------------------------
(* The way back from the file.                                             *)

LEMMA KeysTyped ==
  \A x \in Cells : LayerMajor[x] \in Nat /\ PositionMajor[x] \in Nat
<1> TAKE x \in Cells
<1>1. x[2] \in Nat /\ x[3] \in Nat /\ MaxPages \in Nat /\ NumLayers \in Nat
  BY CellParts, KvAssumption
<1>2. x[2] * MaxPages \in Nat /\ x[3] * NumLayers \in Nat
  <2>1. 0 * MaxPages <= x[2] * MaxPages /\ x[2] * MaxPages \in Int
    BY <1>1, MulMono
  <2>2. 0 * NumLayers <= x[3] * NumLayers /\ x[3] * NumLayers \in Int
    BY <1>1, MulMono
  <2> QED  BY <1>1, <2>1, <2>2
<1>3. LayerMajor[x] = x[2] * MaxPages + x[3] /\ PositionMajor[x] = x[3] * NumLayers + x[2]
  BY DEF LayerMajor, PositionMajor
<1> QED  BY <1>1, <1>2, <1>3

\* The first n of the cells S, in either order; all of them, or some are left.
LEMMA FirstCells ==
  ASSUME NEW S, S \subseteq Cells, NEW n \in Nat, n <= Cardinality(S), NEW key, key \in {LayerMajor, PositionMajor},
         NEW X, X = First(n, S, key)
  PROVE  /\ X \subseteq S /\ IsFiniteSet(X) /\ Cardinality(X) = n /\ IsFiniteSet(S) /\ Cardinality(S) \in Nat
         /\ n = Cardinality(S) => S \ X = {}
         /\ n < Cardinality(S) => S \ X # {}
<1>1. IsFiniteSet(S) /\ Cardinality(S) \in Nat
  BY FiniteCells, FS_Subset, FS_CardinalityType
<1>2. \A a \in S : key[a] \in Nat
  BY KeysTyped
<1>3. X \subseteq S /\ IsFiniteSet(X) /\ Cardinality(X) = n
  BY <1>1, <1>2, FirstWorks
<1>4. Cardinality(S \ X) = Cardinality(S) - n /\ IsFiniteSet(S \ X)
  BY <1>1, <1>3, Minus
<1> QED  BY <1>1, <1>3, <1>4, FS_EmptySet

LEMMA ReloadFields ==
  ASSUME NEW k, IsKv(k), NEW s, NEW X, NEW g, g = reload(k, s, X)
  PROVE  /\ IsKv(g) /\ Same(k, g, {"cold_ref", "cold", "st", "used"})
         /\ g.cold_ref = Took(k.cold_ref, Place(X, FreeSlots(k)))
         /\ g.st = With(k.st, At("cold", Place(X, FreeSlots(k))))
         /\ g.used = Put(k.used, s, k.used[s] + Cardinality(X))
BY Zenon DEF reload, IsKv, Fields, Same, Put

\* The file afterwards: fi pages, and exactly if a page is left in it.
LEMMA ReloadKeeps ==
  ASSUME NEW k, NEW D, Good(k, D), NEW s \in Ids, NEW X, X \subseteq Tier(k.st, s, {"spilled"}),
         Cardinality(X) <= Cardinality(FreeSlots(k)), NEW a, a = reload(k, s, X),
         NEW g, IsKv(g), Same(a, g, {"spilled_total", "file"}), NEW fi \in Nat, g.file = Put(k.file, s, fi),
         g.spilled_total = k.spilled_total + fi - k.file[s], g.spilled_total <= SpillCap,
         (fi > 0) <=> Tier(k.st, s, {"spilled"}) \ X # {}
  PROVE  Good(g, D) /\ Stays(k, g) /\ g.pend = k.pend /\ Tiering(k.st, g.st, X, "spilled", "cold")
<1> USE DEF Good
<1>1. IsKv(k) /\ EntriesOk(k.st, k.pg)
  BY DEF Base
<1>2. PICK n : n = Cardinality(X)
  OBVIOUS
<1>3. PICK f : f = Place(X, FreeSlots(k))
  OBVIOUS
<1>4. /\ IsKv(a) /\ Same(k, a, {"cold_ref", "cold", "st", "used"})
      /\ a.cold_ref = Took(k.cold_ref, f) /\ a.st = With(k.st, At("cold", f))
      /\ a.used = Put(k.used, s, k.used[s] + n)
  BY <1>1, <1>2, <1>3, ReloadFields
<1>5. /\ g.ref = k.ref /\ g.pg = k.pg /\ g.num = k.num /\ g.life = k.life
      /\ g.seen = k.seen /\ g.frontier = k.frontier /\ g.demoted = k.demoted
      /\ g.flying = k.flying /\ g.hibernated = k.hibernated
      /\ g.pend = k.pend /\ g.stream = k.stream /\ g.landed = k.landed /\ g.total = k.total
      /\ g.cold_ref = Took(k.cold_ref, f) /\ g.st = With(k.st, At("cold", f))
      /\ g.used = Put(k.used, s, k.used[s] + n)
  BY <1>4 DEF Same, Fields
<1>6. Stays(k, g)
  BY <1>4 DEF Stays, Same, TierFields
<1>7. X \subseteq Of(s) /\ X \subseteq Cells /\ \A x \in X : k.st[x].tier = "spilled"
  BY TierFinite DEF Tier
<1>8. /\ DOMAIN f = X
      /\ \A x, y \in X : f[x] = f[y] => x = y
      /\ \A x \in X : f[x] \in Slots /\ k.cold_ref[f[x]] = 0
  BY <1>3, <1>7, PlaceSlots
<1>9. /\ DOMAIN g.st = Cells
      /\ \A x \in X : g.st[x].tier = "cold" /\ g.st[x].slot = f[x]
      /\ \A x \in Cells \ X : g.st[x] = k.st[x]
  <2>1. PICK b : b = At("cold", f)
    OBVIOUS
  <2>2. DOMAIN b = X /\ \A x \in X : b[x].tier = "cold" /\ b[x].slot = f[x]
    BY <1>8, <2>1, AtIs
  <2>3. DOMAIN k.st = Cells /\ g.st = With(k.st, b)
    BY <1>1, <1>5, <2>1 DEF EntriesOk
  <2> QED  BY <1>7, <2>2, <2>3, WithIs
<1>10. Tiering(k.st, g.st, X, "spilled", "cold")
  BY <1>7, <1>9 DEF Tiering
<1>11. Shifts(k.st, g.st, X, "spilled", "cold", s, n)
  BY <1>2, <1>7, <1>10 DEF Shifts
<1>12. OnlyOf(k.st, g.st, s) /\ n \in Nat /\ X \cap Of(s) = X
  BY <1>11, ShiftOnly
<1>13. EntriesOk(g.st, g.pg)
  BY <1>1, <1>5, <1>7, <1>8, <1>9, PagesPositive DEF EntriesOk, Tiers, Slotted
<1>14. Counted(g.cold_ref, Slots, SlotOf(g.st))
  <2>1. \A x \in X : SlotOf(k.st)[x] \notin Slots /\ SlotOf(g.st)[x] = f[x]
    BY <1>1, <1>7, <1>9, PagesPositive DEF SlotOf, EntriesOk, Slotted
  <2>2. \A x \in Cells \ X : SlotOf(g.st)[x] = SlotOf(k.st)[x]
    BY <1>9 DEF SlotOf
  <2>3. Fresh(k.cold_ref, Slots, SlotOf(k.st), SlotOf(g.st), X, f)
    BY <1>7, <1>8, <2>1, <2>2 DEF Fresh, Moves, Without
  <2> QED  BY <1>5, <2>3, CountTaken DEF Base
<1>15. CountsOk(k.st, k.demoted, k.flying, k.used, k.frontier, k.file)
  BY DEF Base
<1>16. /\ k.demoted \in [Ids -> Int] /\ k.flying \in [Ids -> Int] /\ k.frontier \in [Ids -> Int]
       /\ k.file \in [Ids -> Int] /\ k.demoted[s] \in Int
       /\ SeqCounts(k.st, s, k.demoted[s], k.flying[s], k.used[s], k.frontier[s], k.file[s])
  BY <1>15 DEF CountsOk
<1>17. CountsOk(g.st, g.demoted, g.flying, g.used, g.frontier, g.file)
  <2>1. Tier(g.st, s, Lower) = Tier(k.st, s, Lower)
    BY <1>10, TierSame DEF Lower
  <2>2. Tier(g.st, s, {"inflight"}) = Tier(k.st, s, {"inflight"})
    BY <1>10, TierSame
  <2>3. Cardinality(Tier(g.st, s, Slotted)) = Cardinality(Tier(k.st, s, Slotted)) + n
    <3>1. "spilled" \notin Slotted /\ "cold" \in Slotted
      BY DEF Slotted
    <3>2. Cardinality(Tier(g.st, s, Slotted)) = Cardinality(Tier(k.st, s, Slotted)) + Cardinality(X \cap Of(s))
      BY <1>10, <3>1, TierMore
    <3> QED  BY <1>2, <1>12, <3>2
  <2>4. Tier(g.st, s, {"spilled"}) = Tier(k.st, s, {"spilled"}) \ X
    BY <1>7, <1>9, CellParts DEF Tier
  <2>5. SeqCounts(g.st, s, k.demoted[s], k.flying[s], k.used[s] + n, k.frontier[s], fi)
    BY <1>16, <2>1, <2>2, <2>3, <2>4 DEF SeqCounts
  <2>6. CountsOk(g.st, Put(k.demoted, s, k.demoted[s]), Put(k.flying, s, k.flying[s]), Put(k.used, s, k.used[s] + n),
                 Put(k.frontier, s, k.frontier[s]), Put(k.file, s, fi))
    BY <1>12, <1>15, <2>5, CountsChange
  <2> QED  BY <1>5, <1>16, <2>6, PutSame
<1>18. TotalsOk(g.total, g.demoted, g.spilled_total, g.file)
  <2>1. TotalsOk(k.total, k.demoted, k.spilled_total, k.file)
    BY DEF Base
  <2>2. k.total \in Int
    BY <1>16, <2>1, TotalsTyped
  <2>3. k.total = k.total + k.demoted[s] - k.demoted[s]
    BY <1>16, <2>2
  <2>5. TotalsOk(k.total, Put(k.demoted, s, k.demoted[s]), g.spilled_total, Put(k.file, s, fi))
    BY <1>16, <2>1, <2>3, TotalsChange
  <2> QED  BY <1>5, <1>16, <2>5, PutSame
<1>19. PendOk(g.pend, g.st, g.pg)
  <2>1. HotKept(k.st, k.pg, g.st, g.pg)
    BY <1>5, <1>7, <1>9 DEF HotKept
  <2> QED  BY <1>5, <2>1, PendKept DEF Base
<1>20. FlightOk(g.landed, g.stream, g.st, g.pg)
  <2>1. FlightKept(k.st, k.pg, g.st, g.pg)
    BY <1>5, <1>7, <1>9 DEF FlightKept
  <2> QED  BY <1>5, <2>1, FlightSame DEF Base
<1>21. NumberedOk(g.num, g.st, g.pg, D) /\ DormantOk(g.life, g.num, g.st, g.pg, g.hibernated, g.seen, D)
  <2>1. NoNew(k.st, k.pg, g.st, g.pg)
    BY <1>5, <1>7, <1>9 DEF NoNew, Owned
  <2> QED  BY <1>5, <2>1, OwnedKept DEF Base
<1>22. Counted(g.ref, Pages, g.pg)
  BY <1>5 DEF Base
<1> QED  BY <1>5, <1>6, <1>10, <1>13, <1>14, <1>17, <1>18, <1>19, <1>20, <1>21, <1>22 DEF Base

NoFile(a, s, n) == [a EXCEPT !.spilled_total = @ - n, !.file[s] = 0]
LEMMA NoFileFields ==
  ASSUME NEW a, IsKv(a), NEW s, NEW n, NEW g, g = NoFile(a, s, n)
  PROVE  IsKv(g) /\ Same(a, g, {"spilled_total", "file"}) /\ g.file = Put(a.file, s, 0)
         /\ g.spilled_total = a.spilled_total - n
BY Zenon DEF NoFile, IsKv, Fields, Same, Put

LEMMA UnspillKeeps ==
  ASSUME NEW k, NEW D, Good(k, D), NEW s \in Ids, NEW blocks \in Nat, NEW r, r = unspill_seq(k, s, blocks)
  PROVE  Good(r.k, D) /\ Stays(k, r.k) /\ r.k.pend = k.pend /\ (r.ok => r.k.file[s] = 0)
<1>1. CASE k.file[s] = 0
  <2>1. r = Done(k)
    BY <1>1, Zenon DEF unspill_seq
  <2> QED  BY <1>1, <2>1, StaysSelf DEF Done
<1>2. CASE k.file[s] # 0
  <2>6. PICK todo : todo = InTier(k, s, "spilled")
    OBVIOUS
  <2>1. todo = Tier(k.st, s, {"spilled"})
    BY <2>6, InTierIs
  <2>2. PICK n : n = MinOf(blocks, MinOf(Cardinality(todo), Cardinality(FreeSlots(k))))
    OBVIOUS
  <2>3. PICK X : X = First(n, todo, LayerMajor)
    OBVIOUS
  <2>4. PICK a : a = reload(k, s, X)
    OBVIOUS
  <2>5. PICK b : b = NoFile(a, s, k.file[s])
    OBVIOUS
  <2>8. todo \subseteq Cells /\ Cardinality(todo) \in Nat
    BY <2>1, TierFinite
  <2>9. n \in Nat /\ n <= Cardinality(todo) /\ n <= Cardinality(FreeSlots(k))
    BY <2>2, <2>8, FreeFinite DEF MinOf
  <2>10. /\ X \subseteq todo /\ Cardinality(X) = n
         /\ n = Cardinality(todo) => todo \ X = {}
         /\ n < Cardinality(todo) => todo \ X # {}
    BY <2>3, <2>8, <2>9, FirstCells
  <2>11. IsKv(k) /\ k.file \in [Ids -> Int] /\ k.demoted \in [Ids -> Int] /\ k.file[s] \in Nat /\ k.file[s] > 0
    BY <1>2 DEF Good, Base, CountsOk, SeqCounts
  <2>12. k.spilled_total \in Int /\ k.spilled_total <= SpillCap
    <3>1. TotalsOk(k.total, k.demoted, k.spilled_total, k.file)
      BY DEF Good, Base
    <3> QED  BY <2>11, <3>1, TotalsTyped DEF TotalsOk
  <2>13. IsKv(a) /\ a.file = k.file /\ a.spilled_total = k.spilled_total
    <3>1. IsKv(a) /\ Same(k, a, {"cold_ref", "cold", "st", "used"})
      BY <2>4, <2>11, ReloadFields
    <3> QED  BY <3>1 DEF Same, Fields
  <2>14. X \subseteq Tier(k.st, s, {"spilled"}) /\ Cardinality(X) <= Cardinality(FreeSlots(k))
    BY <2>1, <2>9, <2>10
  <2>15. CASE n < Cardinality(todo)
    <3>9. r = Failed(a)
      BY <1>2, <2>2, <2>3, <2>4, <2>6, <2>15, Zenon DEF unspill_seq
    <3>1. r.k = a /\ ~r.ok
      BY <3>9 DEF Failed
    <3>0. PICK fi \in Nat : fi = k.file[s]
      BY <2>11
    <3>2. Same(a, a, {"spilled_total", "file"}) /\ a.file = Put(k.file, s, fi)
      BY <2>11, <2>13, <3>0, PutSame DEF Same
    <3>3. (fi > 0) <=> Tier(k.st, s, {"spilled"}) \ X # {}
      BY <2>1, <2>10, <2>11, <2>15, <3>0
    <3>4. a.spilled_total = k.spilled_total + fi - k.file[s] /\ a.spilled_total <= SpillCap
      BY <2>11, <2>12, <2>13, <3>0
    <3>5. Good(a, D) /\ Stays(k, a) /\ a.pend = k.pend
      BY <2>4, <2>13, <2>14, <3>2, <3>3, <3>4, ReloadKeeps
    <3> QED  BY <3>1, <3>5
  <2>16. CASE ~ (n < Cardinality(todo))
    <3>9. r = Done(b)
      BY <1>2, <2>2, <2>3, <2>4, <2>5, <2>6, <2>16, Zenon DEF unspill_seq, NoFile
    <3>1. r.k = b
      BY <3>9 DEF Done
    <3>2. IsKv(b) /\ Same(a, b, {"spilled_total", "file"}) /\ b.file = Put(k.file, s, 0)
          /\ b.spilled_total = k.spilled_total - k.file[s]
      BY <2>5, <2>13, NoFileFields
    <3>3. (0 > 0) <=> Tier(k.st, s, {"spilled"}) \ X # {}
      BY <2>1, <2>8, <2>9, <2>10, <2>16
    <3>4. b.spilled_total = k.spilled_total + 0 - k.file[s] /\ b.spilled_total <= SpillCap /\ 0 \in Nat
      BY <2>11, <2>12, <3>2, KvAssumption
    <3>5. Good(b, D) /\ Stays(k, b) /\ b.pend = k.pend
      BY <2>4, <2>14, <3>2, <3>3, <3>4, ReloadKeeps
    <3>6. b.file[s] = 0
      BY <2>11, <3>2 DEF Put
    <3> QED  BY <3>1, <3>5, <3>6
  <2> QED  BY <2>15, <2>16
<1> QED  BY <1>1, <1>2
-------------------------------------------------------------------------------
(* The way back to VRAM.                                                   *)

HotAt(X) == [x \in X |-> Hot]
ColdBytes(k, X) == [x \in X |-> k.cold[k.st[x].slot]]
Raised(k, s, X) ==
  [k EXCEPT !.ref  = Took(@, Place(X, FreePages(k))), !.vram = Filled(@, Place(X, FreePages(k)), ColdBytes(k, X)),
            !.pg = With(@, Place(X, FreePages(k))), !.st = With(@, HotAt(X)),
            !.used[s] = MaxOf(@ - Cardinality(X), 0), !.demoted[s] = @ - Cardinality(X), !.total = @ - Cardinality(X)]

LEMMA RaisedFields ==
  ASSUME NEW k, IsKv(k), NEW s, NEW X, NEW g, g = Raised(k, s, X)
  PROVE  /\ IsKv(g) /\ Same(k, g, {"ref", "vram", "pg", "st", "used", "demoted", "total"})
         /\ g.ref = Took(k.ref, Place(X, FreePages(k))) /\ g.pg = With(k.pg, Place(X, FreePages(k)))
         /\ g.vram = Filled(k.vram, Place(X, FreePages(k)), ColdBytes(k, X))
         /\ g.st = With(k.st, HotAt(X)) /\ g.used = Put(k.used, s, MaxOf(k.used[s] - Cardinality(X), 0))
         /\ g.demoted = Put(k.demoted, s, k.demoted[s] - Cardinality(X)) /\ g.total = k.total - Cardinality(X)
BY Zenon DEF Raised, IsKv, Fields, Same, Put

LEMMA PromoteIs ==
  ASSUME NEW k, NEW s, NEW X
  PROVE  promote(k, s, X) = release_cold_slot(Raised(k, s, X), Copies(k, X))
BY Zenon DEF promote, Raised, HotAt, ColdBytes

LEMMA HotAtIs ==
  ASSUME NEW X
  PROVE  DOMAIN HotAt(X) = X /\ \A x \in X : HotAt(X)[x].tier = "hot" /\ HotAt(X)[x].slot = 0
BY DEF HotAt, Hot

Uncached(cache, s, keep) == [y \in DOMAIN cache |-> IF y[1] = s /\ y[3] >= keep THEN Blank ELSE cache[y]]
Lifted(a, s, keep, f) == [a EXCEPT !.frontier[s] = f, !.cache = Uncached(@, s, keep)]
LEMMA LiftedFields ==
  ASSUME NEW a, IsKv(a), NEW s, NEW keep, NEW f, NEW g, g = Lifted(a, s, keep, f)
  PROVE  /\ IsKv(g) /\ Same(a, g, {"frontier", "cache"})
         /\ g.frontier = Put(a.frontier, s, f) /\ g.cache = Uncached(a.cache, s, keep)
BY Zenon DEF Lifted, IsKv, Fields, Same, Put

\* The pages of the cells, some of them new.
LEMMA WithTyped ==
  ASSUME NEW p, p \in [Cells -> 0..VramPages], NEW f, \A x \in DOMAIN f : f[x] \in 0..VramPages
  PROVE  With(p, f) \in [Cells -> 0..VramPages]
BY DEF With

\* The cells of s that are not hot.
LEMMA FrontierIs ==
  ASSUME NEW k, NEW s \in Ids, \A x \in Of(s) : k.st[x].tier \in Tiers
  PROVE  Frontier(k, s) = EndOf(0, Tier(k.st, s, Lower))
<1>1. Of(s) \ InTier(k, s, "hot") = Tier(k.st, s, Lower)
  BY DEF InTier, Tier, Lower, Tiers
<1> QED  BY <1>1 DEF Frontier

\* What happens to the cells X when they are raised.
LEMMA RaiseCells ==
  ASSUME NEW k, NEW D, Base(k, D), NEW s \in Ids, NEW X, X \subseteq Tier(k.st, s, {"cold"}),
         Cardinality(X) <= Cardinality(FreePages(k)), NEW f, f = Place(X, FreePages(k)),
         NEW m, m = Raised(k, s, X)
  PROVE  /\ X \subseteq Of(s) /\ Tiering(k.st, m.st, X, "cold", "hot") /\ DOMAIN m.st = Cells
         /\ \A x \in X : m.st[x].slot = 0 /\ k.pg[x] = Neutral /\ m.pg[x] = f[x] /\ f[x] \in Pages
         /\ \A x \in Cells \ X : m.pg[x] = k.pg[x]
         /\ m.pg \in [Cells -> 0..VramPages]
         /\ Fresh(k.ref, Pages, k.pg, m.pg, X, f)
<1>1. IsKv(k) /\ EntriesOk(k.st, k.pg)
  BY DEF Base
<1>2. m.pg = With(k.pg, f) /\ m.st = With(k.st, HotAt(X))
  BY <1>1, RaisedFields
<1>3. X \subseteq Of(s) /\ X \subseteq Cells /\ \A x \in X : k.st[x].tier = "cold"
  BY TierFinite DEF Tier
<1>4. /\ DOMAIN f = X
      /\ \A x, y \in X : f[x] = f[y] => x = y
      /\ \A x \in X : f[x] \in Pages /\ k.ref[f[x]] = 0
  BY <1>3, PlacePages
<1>5. DOMAIN k.st = Cells /\ k.pg \in [Cells -> 0..VramPages] /\ DOMAIN k.pg = Cells
  BY <1>1 DEF EntriesOk
<1>6. /\ DOMAIN m.st = Cells
      /\ \A x \in X : m.st[x].tier = "hot" /\ m.st[x].slot = 0
      /\ \A x \in Cells \ X : m.st[x] = k.st[x]
  <2>1. PICK b : b = HotAt(X)
    OBVIOUS
  <2>2. DOMAIN b = X /\ \A x \in X : b[x].tier = "hot" /\ b[x].slot = 0
    BY <2>1, HotAtIs
  <2>3. m.st = With(k.st, b)
    BY <1>2, <2>1
  <2> QED  BY <1>3, <1>5, <2>2, <2>3, WithIs
<1>7. /\ \A x \in X : m.pg[x] = f[x]
      /\ \A x \in Cells \ X : m.pg[x] = k.pg[x]
  BY <1>2, <1>3, <1>4, <1>5, WithIs
<1>8. m.pg \in [Cells -> 0..VramPages]
  <2>1. \A x \in DOMAIN f : f[x] \in 0..VramPages
    BY <1>4, KvAssumption DEF Pages
  <2> QED  BY <1>2, <1>5, <2>1, WithTyped
<1>9. \A x \in X : k.pg[x] = Neutral
  BY <1>1, <1>3 DEF EntriesOk
<1>10. Fresh(k.ref, Pages, k.pg, m.pg, X, f)
  BY <1>3, <1>4, <1>7, <1>9, PagesPositive DEF Fresh, Moves, Without
<1>11. Tiering(k.st, m.st, X, "cold", "hot")
  BY <1>3, <1>6 DEF Tiering
<1> QED  BY <1>3, <1>4, <1>6, <1>7, <1>8, <1>9, <1>10, <1>11

LEMMA LiftCounts ==
  ASSUME NEW st, NEW tt, NEW X, NEW s \in Ids, NEW n, Shifts(st, tt, X, "cold", "hot", s, n),
         NEW d, NEW f, NEW u, NEW fr, NEW fi, SeqCounts(st, s, d, f, u, fr, fi),
         NEW e, e = EndOf(0, Tier(tt, s, Lower))
  PROVE  SeqCounts(tt, s, d - n, f, MaxOf(u - n, 0), e, fi) /\ d \in Int
<1>1. n \in Nat /\ X \cap Of(s) = X /\ X \subseteq Cells /\ n = Cardinality(X)
  BY ShiftOnly DEF Shifts
<1>2. Tiering(st, tt, X, "cold", "hot")
  BY DEF Shifts
<1>3. /\ "cold" \in Lower /\ "hot" \notin Lower /\ "cold" \in Slotted /\ "hot" \notin Slotted
      /\ "cold" \notin {"inflight"} /\ "hot" \notin {"inflight"}
      /\ "cold" \notin {"spilled"} /\ "hot" \notin {"spilled"}
  BY DEF Lower, Slotted
<1>4. Cardinality(Tier(tt, s, Lower)) = Cardinality(Tier(st, s, Lower)) - Cardinality(X \cap Of(s))
  BY <1>2, <1>3, TierLess
<1>5. /\ Cardinality(Tier(tt, s, Slotted)) = Cardinality(Tier(st, s, Slotted)) - Cardinality(X \cap Of(s))
      /\ Cardinality(X \cap Of(s)) <= Cardinality(Tier(st, s, Slotted))
  BY <1>2, <1>3, TierLess
<1>6. Tier(tt, s, {"inflight"}) = Tier(st, s, {"inflight"})
  BY <1>2, <1>3, TierSame
<1>7. Tier(tt, s, {"spilled"}) = Tier(st, s, {"spilled"})
  BY <1>2, <1>3, TierSame
<1>8. LastEnd(e, Tier(tt, s, Lower))
  BY TierFinite, LastEndIs
<1>9. /\ d = Cardinality(Tier(st, s, Lower)) /\ u = Cardinality(Tier(st, s, Slotted))
      /\ f = Cardinality(Tier(st, s, {"inflight"}))
      /\ fi \in Nat /\ ((fi > 0) <=> Tier(st, s, {"spilled"}) # {})
  BY DEF SeqCounts
<1>10. u \in Nat /\ n <= u /\ d \in Nat
  BY <1>1, <1>5, <1>9, TierFinite
<1>11. MaxOf(u - n, 0) = u - n
  BY <1>1, <1>10 DEF MaxOf
<1>12. /\ d - n = Cardinality(Tier(tt, s, Lower)) /\ MaxOf(u - n, 0) = Cardinality(Tier(tt, s, Slotted))
       /\ f = Cardinality(Tier(tt, s, {"inflight"})) /\ ((fi > 0) <=> Tier(tt, s, {"spilled"}) # {})
  BY <1>1, <1>4, <1>5, <1>6, <1>7, <1>9, <1>11
<1> QED  BY <1>8, <1>9, <1>10, <1>12 DEF SeqCounts

LEMMA LiftedKeeps ==
  ASSUME NEW k, NEW D, Good(k, D), NEW s \in Ids, NEW X, X \subseteq Tier(k.st, s, {"cold"}),
         Cardinality(X) <= Cardinality(FreePages(k)), NEW keep,
         NEW a, a = promote(k, s, X), NEW g, g = Lifted(a, s, keep, Frontier(a, s))
  PROVE  Good(g, D) /\ Stays(k, g) /\ g.pend = k.pend /\ g.file = k.file /\ Tiering(k.st, g.st, X, "cold", "hot")
<1> USE DEF Good
<1>1. IsKv(k) /\ EntriesOk(k.st, k.pg)
  BY DEF Base
<1>2. PICK n : n = Cardinality(X)
  OBVIOUS
<1>3. PICK f : f = Place(X, FreePages(k))
  OBVIOUS
<1>4. PICK m : m = Raised(k, s, X)
  OBVIOUS
<1>5. /\ IsKv(m) /\ Same(k, m, {"ref", "vram", "pg", "st", "used", "demoted", "total"})
      /\ m.ref = Took(k.ref, f) /\ m.used = Put(k.used, s, MaxOf(k.used[s] - n, 0))
      /\ m.demoted = Put(k.demoted, s, k.demoted[s] - n) /\ m.total = k.total - n
  BY <1>1, <1>2, <1>3, <1>4, RaisedFields
<1>6. /\ X \subseteq Of(s) /\ Tiering(k.st, m.st, X, "cold", "hot") /\ DOMAIN m.st = Cells
      /\ \A x \in X : m.st[x].slot = 0 /\ k.pg[x] = Neutral /\ m.pg[x] = f[x] /\ f[x] \in Pages
      /\ \A x \in Cells \ X : m.pg[x] = k.pg[x]
      /\ m.pg \in [Cells -> 0..VramPages]
      /\ Fresh(k.ref, Pages, k.pg, m.pg, X, f)
  BY <1>3, <1>4, RaiseCells
<1> HIDE <1>3, <1>4
<1>7. /\ X \subseteq Cells /\ \A x \in Cells \ X : m.st[x] = k.st[x]
      /\ \A x \in X : k.st[x].tier = "cold" /\ m.st[x].tier = "hot"
  BY <1>6 DEF Tiering
<1>8. a = release_cold_slot(m, Copies(k, X))
  BY <1>4, PromoteIs
<1>9. m.cold_ref = k.cold_ref
  BY <1>5 DEF Same, Fields
<1>10. Tallies(Copies(k, X), Slots, SlotOf(k.st), X)
  BY <1>7, HandlesCopies
<1>11. Moves(SlotOf(k.st), SlotOf(m.st), X) /\ Without(Slots, SlotOf(m.st), X)
  BY <1>6, <1>7, PagesPositive DEF Moves, Without, SlotOf
<1>12. Covered(k.cold_ref, Copies(k, X)) /\ Counted(Less(k.cold_ref, Copies(k, X)), Slots, SlotOf(m.st))
  BY <1>10, <1>11, LessCovered DEF Base
<1>13. IsKv(a) /\ Same(m, a, {"cold_ref", "cold"}) /\ a.cold_ref = Less(k.cold_ref, Copies(k, X))
  BY <1>5, <1>8, <1>9, <1>12, ReleaseFields
<1>14. PICK e : e = Frontier(a, s)
  OBVIOUS
<1>15. IsKv(g) /\ Same(a, g, {"frontier", "cache"}) /\ g.frontier = Put(a.frontier, s, e)
  BY <1>13, <1>14, LiftedFields
<1>16. /\ g.ref = m.ref /\ g.pg = m.pg /\ g.num = k.num /\ g.life = k.life /\ g.st = m.st /\ a.st = m.st
       /\ g.seen = k.seen /\ g.demoted = m.demoted /\ a.frontier = k.frontier
       /\ g.flying = k.flying /\ g.hibernated = k.hibernated /\ g.file = k.file /\ g.used = m.used
       /\ g.pend = k.pend /\ g.stream = k.stream /\ g.landed = k.landed /\ g.total = m.total
       /\ g.spilled_total = k.spilled_total /\ g.cold_ref = a.cold_ref
  BY <1>5, <1>13, <1>15 DEF Same, Fields
<1>17. Stays(k, g)
  BY <1>5, <1>13, <1>15 DEF Stays, Same, TierFields
<1>18. Shifts(k.st, m.st, X, "cold", "hot", s, n)
  BY <1>2, <1>6 DEF Shifts
<1>19. OnlyOf(k.st, m.st, s) /\ n \in Nat
  BY <1>18, ShiftOnly
<1>20. EntriesOk(g.st, g.pg)
  BY <1>1, <1>6, <1>7, <1>16, PagesPositive, KvAssumption DEF EntriesOk, Tiers, Slotted
<1>21. CountsOk(k.st, k.demoted, k.flying, k.used, k.frontier, k.file)
  BY DEF Base
<1>22. /\ k.demoted \in [Ids -> Int] /\ k.flying \in [Ids -> Int]
       /\ k.file \in [Ids -> Int] /\ k.demoted[s] \in Int /\ k.file[s] \in Int
       /\ SeqCounts(k.st, s, k.demoted[s], k.flying[s], k.used[s], k.frontier[s], k.file[s])
  BY <1>21 DEF CountsOk
<1>23. CountsOk(g.st, g.demoted, g.flying, g.used, g.frontier, g.file)
  <2>1. e = EndOf(0, Tier(m.st, s, Lower))
    <3>1. \A x \in Of(s) : a.st[x].tier \in Tiers
      BY <1>16, <1>20, CellParts DEF EntriesOk
    <3> QED  BY <1>14, <1>16, <3>1, FrontierIs
  <2>2. SeqCounts(m.st, s, k.demoted[s] - n, k.flying[s], MaxOf(k.used[s] - n, 0), e, k.file[s])
    BY <1>18, <1>22, <2>1, LiftCounts
  <2>3. CountsOk(m.st, Put(k.demoted, s, k.demoted[s] - n), Put(k.flying, s, k.flying[s]),
                 Put(k.used, s, MaxOf(k.used[s] - n, 0)), Put(k.frontier, s, e), Put(k.file, s, k.file[s]))
    BY <1>19, <1>21, <2>2, CountsChange
  <2> QED  BY <1>5, <1>15, <1>16, <1>22, <2>3, PutSame
<1>24. TotalsOk(g.total, g.demoted, g.spilled_total, g.file)
  <2>1. TotalsOk(k.total, k.demoted, k.spilled_total, k.file)
    BY DEF Base
  <2>2. k.spilled_total \in Int /\ k.total \in Int /\ k.spilled_total <= SpillCap
    BY <1>22, <2>1, TotalsTyped DEF TotalsOk
  <2>3. PICK d \in Int : d = k.demoted[s] - n
    BY <1>19, <1>22
  <2>4. m.total = k.total + d - k.demoted[s] /\ k.spilled_total = k.spilled_total + k.file[s] - k.file[s]
    BY <1>5, <1>19, <1>22, <2>2, <2>3
  <2>5. TotalsOk(m.total, Put(k.demoted, s, d), k.spilled_total, Put(k.file, s, k.file[s]))
    BY <1>22, <2>1, <2>2, <2>4, TotalsChange
  <2> QED  BY <1>5, <1>16, <1>22, <2>3, <2>5, PutSame
<1>25. PendOk(g.pend, g.st, g.pg)
  <2>1. HotKept(k.st, k.pg, g.st, g.pg)
    BY <1>6, <1>7, <1>16 DEF HotKept
  <2> QED  BY <1>16, <2>1, PendKept DEF Base
<1>26. FlightOk(g.landed, g.stream, g.st, g.pg)
  <2>1. FlightKept(k.st, k.pg, g.st, g.pg)
    BY <1>6, <1>7, <1>16 DEF FlightKept
  <2> QED  BY <1>16, <2>1, FlightSame DEF Base
<1>27. NumberedOk(g.num, g.st, g.pg, D) /\ DormantOk(g.life, g.num, g.st, g.pg, g.hibernated, g.seen, D)
  <2>1. NoNew(k.st, k.pg, g.st, g.pg)
    BY <1>6, <1>7, <1>16 DEF NoNew, Owned
  <2> QED  BY <1>16, <2>1, OwnedKept DEF Base
<1>28. Counted(g.ref, Pages, g.pg)
  <2>1. Counted(k.ref, Pages, k.pg)
    BY DEF Base
  <2> QED  BY <1>5, <1>6, <1>16, <2>1, CountTaken
<1>29. Counted(g.cold_ref, Slots, SlotOf(g.st))
  BY <1>12, <1>13, <1>16
<1> QED  BY <1>6, <1>15, <1>16, <1>17, <1>20, <1>23, <1>24, <1>25, <1>26, <1>27, <1>28, <1>29 DEF Base

LEMMA LiftKeeps ==
  ASSUME NEW k, NEW D, Good(k, D), NEW s \in Ids, NEW keep, NEW r, r = lift(k, s, keep)
  PROVE  Good(r.k, D) /\ Stays(k, r.k) /\ r.k.pend = k.pend /\ r.k.file = k.file
<1>1. PICK jobs : jobs = {x \in InTier(k, s, "cold") : (x[3] + 1) * PageSize > keep}
  OBVIOUS
<1>2. CASE jobs = {}
  <2>1. r = Done(k)
    BY <1>1, <1>2, Zenon DEF lift
  <2> QED  BY <2>1, StaysSelf DEF Done
<1>3. CASE jobs # {}
  <2>1. PICK n : n = MinOf(Cardinality(jobs), Cardinality(FreePages(k)))
    OBVIOUS
  <2>2. PICK X : X = First(n, jobs, PositionMajor)
    OBVIOUS
  <2>3. PICK a : a = promote(k, s, X)
    OBVIOUS
  <2>4. PICK g : g = Lifted(a, s, keep, Frontier(a, s))
    OBVIOUS
  <2>5. r = [ok |-> n = Cardinality(jobs), k |-> g]
    BY <1>1, <1>3, <2>1, <2>2, <2>3, <2>4, Zenon DEF lift, Lifted, Uncached
  <2>6. jobs \subseteq Tier(k.st, s, {"cold"})
    BY <1>1, InTierIs
  <2>7. jobs \subseteq Cells /\ IsFiniteSet(jobs) /\ Cardinality(jobs) \in Nat
    BY <2>6, TierFinite, FS_Subset, FS_CardinalityType
  <2>8. n \in Nat /\ n <= Cardinality(jobs) /\ n <= Cardinality(FreePages(k))
    BY <2>1, <2>7, FreeFinite DEF MinOf
  <2>9. X \subseteq jobs /\ Cardinality(X) = n
    BY <2>2, <2>7, <2>8, FirstCells
  <2>10. X \subseteq Tier(k.st, s, {"cold"}) /\ Cardinality(X) <= Cardinality(FreePages(k))
    BY <2>6, <2>8, <2>9
  <2>11. Good(g, D) /\ Stays(k, g) /\ g.pend = k.pend /\ g.file = k.file
    BY <2>3, <2>4, <2>10, LiftedKeeps
  <2> QED  BY <2>5, <2>11
<1> QED  BY <1>2, <1>3
-------------------------------------------------------------------------------
(* The ways back together; demotion under pressure.                        *)

LEMMA RepromoteKeeps ==
  ASSUME NEW k, NEW D, Good(k, D), NEW s \in Ids, NEW keep, NEW r, r = repromote_seq(k, s, keep)
  PROVE  Good(r.k, D) /\ Stays(k, r.k)
<1>1. PICK a : a = flush_pending(k, TRUE)
  OBVIOUS
<1>2. Good(a, D) /\ Stays(k, a)
  BY <1>1, FlushKeeps
<1>3. PICK u : u = unspill_seq(a, s, SpillCap) /\ SpillCap \in Nat
  BY KvAssumption
<1>4. Good(u.k, D) /\ Stays(a, u.k)
  BY <1>2, <1>3, UnspillKeeps
<1>5. Stays(k, u.k)
  BY <1>2, <1>4, StaysTrans
<1>6. CASE ~u.ok \/ u.k.demoted[s] = 0
  <2>1. r = u
    BY <1>1, <1>3, <1>6, Zenon DEF repromote_seq, lift_read
  <2> QED  BY <1>4, <1>5, <2>1
<1>7. CASE ~ (~u.ok \/ u.k.demoted[s] = 0)
  <2>1. PICK b : b = drain_demotions(u.k)
    OBVIOUS
  <2>2. Good(b, D) /\ Stays(u.k, b)
    BY <1>4, <2>1, DrainKeeps
  <2>3. r = lift(b, s, keep)
    BY <1>1, <1>3, <1>7, <2>1, Zenon DEF repromote_seq, lift_read
  <2>4. Good(r.k, D) /\ Stays(b, r.k)
    BY <2>2, <2>3, LiftKeeps
  <2> QED  BY <1>5, <2>2, <2>4, StaysTrans
<1> QED  BY <1>6, <1>7

LEMMA RewindKeeps ==
  ASSUME NEW k, NEW D, Good(k, D), NEW s \in Ids, NEW pos, NEW r, r = repromote_for_rewind(k, s, pos)
  PROVE  Good(r.k, D) /\ Stays(k, r.k)
<1>1. PICK a : a = flush_pending(k, TRUE)
  OBVIOUS
<1>2. Good(a, D) /\ Stays(k, a)
  BY <1>1, FlushKeeps
<1>3. CASE a.frontier[s] <= pos
  <2>1. r = Done(a)
    BY <1>1, <1>3, Zenon DEF repromote_for_rewind, rewind_to
  <2> QED  BY <1>2, <2>1 DEF Done
<1>4. CASE ~ (a.frontier[s] <= pos)
  <2>1. r = repromote_seq(a, s, pos)
    BY <1>1, <1>4, Zenon DEF repromote_for_rewind, rewind_to
  <2> QED  BY <1>2, <2>1, RepromoteKeeps, StaysTrans
<1> QED  BY <1>3, <1>4

LEMMA PressureKeeps ==
  ASSUME NEW k, NEW D, Good(k, D), NEW s \in Ids, NEW r, r = pressure_demote(k, s)
  PROVE  Good(r.k, D) /\ Stays(k, r.k)
<1>1. PICK a : a = flush_pending(k, TRUE)
  OBVIOUS
<1>2. Good(a, D) /\ Stays(k, a)
  BY <1>1, FlushKeeps
<1>3. PICK e : e = a.seen[s] - Retention
  OBVIOUS
<1>4. PICK f : f = (a.seen[s] - 1) \div PageSize
  OBVIOUS
<1>5. PICK c : c = collect_layer_range(a, s, Layers, e, f)
  OBVIOUS
<1>6. Good(c, D) /\ Stays(a, c)
  BY <1>2, <1>5, CollectRangeKeeps
<1>7. PICK b : b = flush_pending(c, TRUE)
  OBVIOUS
<1>8. Good(b, D) /\ Stays(c, b)
  BY <1>6, <1>7, FlushKeeps
<1>9. CASE a.hibernated[s] = "yes" \/ a.seen[s] = 0
  <2>1. r = Failed(a)
    BY <1>1, <1>9, Zenon DEF pressure_demote, demote_window, Demoted
  <2> QED  BY <1>2, <2>1 DEF Failed
<1>10. CASE ~ (a.hibernated[s] = "yes" \/ a.seen[s] = 0)
  <2>1. r = [k |-> b, ok |-> b.total > a.total]
    BY <1>1, <1>3, <1>4, <1>5, <1>7, <1>10, Zenon DEF pressure_demote, demote_window, Demoted
  <2>2. r.k = b
    BY <2>1
  <2> QED  BY <1>2, <1>6, <1>8, <2>2, StaysTrans
<1> QED  BY <1>9, <1>10

\* The states after the sweep of the first n sequences.
LEMMA SweepExists ==
  ASSUME NEW own, NEW s, NEW N \in Nat
  PROVE  \E swept : swept = [n \in 0..N |-> SweepStep(own, s, swept, n)]
<1> DEFINE T == {m \in Nat : ~\E g : g = [n \in 0..m |-> SweepStep(own, s, g, n)]}
<1> SUFFICES ASSUME T # {} PROVE FALSE
  OBVIOUS
<1>1. PICK m \in T : \A y \in T : m <= y
  BY LeastOf
<1>2. CASE m = 0
  <2> DEFINE g == [n \in 0..0 |-> own]
  <2>1. g = [n \in 0..0 |-> SweepStep(own, s, g, n)]
    BY DEF SweepStep, Either
  <2> QED  BY <2>1, <1>2
<1>3. CASE m # 0
  <2>0. m - 1 \in Nat /\ m - 1 \notin T
    BY <1>1, <1>3
  <2>1. PICK g : g = [n \in 0..(m - 1) |-> SweepStep(own, s, g, n)]
    BY <2>0
  <2> DEFINE e == [n \in 0..m |-> IF n = m THEN SweepStep(own, s, g, m) ELSE g[n]]
  <2>2. ASSUME NEW n \in 0..m PROVE e[n] = SweepStep(own, s, e, n)
    <3>1. CASE n = m
      <4>1. e[m - 1] = g[m - 1]
        BY <2>0
      <4>2. e[n] = SweepStep(own, s, g, m)
        BY <3>1
      <4> QED  BY <3>1, <4>1, <4>2, <1>3, Zenon DEF SweepStep, Either
    <3>2. CASE n # m
      <4>1. n \in 0..(m - 1) /\ e[n] = g[n]
        BY <3>2, <2>0
      <4>2. g[n] = SweepStep(own, s, g, n)
        BY <4>1, <2>1
      <4>3. n # 0 => n - 1 \in 0..m /\ n - 1 # m
        BY <4>1, <2>0
      <4>4. n # 0 => e[n - 1] = g[n - 1]
        BY <4>3
      <4>5. SweepStep(own, s, e, n) = SweepStep(own, s, g, n)
        BY <4>4, Zenon DEF SweepStep, Either
      <4> QED  BY <4>1, <4>2, <4>5
    <3> QED  BY <3>1, <3>2
  <2>3. e = [n \in 0..m |-> SweepStep(own, s, e, n)]
    BY <2>2
  <2> QED  BY <2>3
<1> QED  BY <1>2, <1>3

Swept(own, s) == CHOOSE swept : swept = [n \in 0..NumSeqs |-> SweepStep(own, s, swept, n)]
LEMMA SweptUnfold ==
  ASSUME NEW own, NEW s
  PROVE  /\ sweep_others(own, s) = Swept(own, s)[NumSeqs]
         /\ \A n \in 0..NumSeqs : Swept(own, s)[n] = SweepStep(own, s, Swept(own, s), n)
<1>1. NumSeqs \in Nat
  BY KvAssumption
<1>2. \E swept : swept = [n \in 0..NumSeqs |-> SweepStep(own, s, swept, n)]
  BY <1>1, SweepExists, Zenon
<1>3. sweep_others(own, s) = Swept(own, s)[NumSeqs]
  BY Zenon DEF sweep_others, Swept
<1>4. Swept(own, s) = [n \in 0..NumSeqs |-> SweepStep(own, s, Swept(own, s), n)]
  BY <1>2, Zenon DEF Swept
<1> HIDE DEF Swept
<1>5. \A n \in 0..NumSeqs : Swept(own, s)[n] = SweepStep(own, s, Swept(own, s), n)
  BY <1>4, Zenon
<1> QED  BY <1>3, <1>5

LEMMA SweepKeeps ==
  ASSUME NEW own, NEW D, Good(own.k, D), NEW s \in Ids, NEW r, r = sweep_others(own, s)
  PROVE  Good(r.k, D) /\ Stays(own.k, r.k)
<1> DEFINE w == Swept(own, s)
           Fine(n) == Good(w[n].k, D) /\ Stays(own.k, w[n].k)
           T == {n \in Nat : n <= NumSeqs /\ ~ Fine(n)}
<1>0. NumSeqs \in Nat
  BY KvAssumption
<1>1. T = {}
  <2> SUFFICES ASSUME T # {} PROVE FALSE
    OBVIOUS
  <2>1. PICK n \in T : \A y \in T : n <= y
    BY LeastOf
  <2>2. n \in 0..NumSeqs /\ ~ Fine(n) /\ n \in Nat
    BY <1>0
  <2>3. w[n] = SweepStep(own, s, w, n)
    BY <2>2, SweptUnfold, Zenon
  <2>4. CASE n = 0
    <3>1. w[n] = own
      BY <2>3, <2>4 DEF SweepStep, Either
    <3> QED  BY <2>2, <3>1, StaysSelf
  <2>5. CASE n # 0
    <3>1. n - 1 \in Nat /\ n - 1 \notin T /\ n \in Ids /\ n - 1 <= NumSeqs
      BY <2>1, <2>2, <2>5, <1>0 DEF Ids
    <3>2. Fine(n - 1)
      BY <3>1
    <3> HIDE DEF w
    <3>3. CASE n = s \/ n \notin Held(own.k)
      <4>1. w[n] = w[n - 1]
        BY <2>3, <2>5, <3>3, Zenon DEF SweepStep, Either
      <4> QED  BY <2>2, <3>2, <4>1
    <3>4. CASE ~ (n = s \/ n \notin Held(own.k))
      <4>1. PICK p : p = pressure_demote(w[n - 1].k, n)
        OBVIOUS
      <4>2. w[n] = [k |-> p.k, ok |-> p.ok \/ w[n - 1].ok]
        BY <2>3, <2>5, <3>4, <4>1, Zenon DEF SweepStep, Either
      <4>3. w[n].k = p.k
        BY <4>2
      <4>4. Good(p.k, D) /\ Stays(w[n - 1].k, p.k)
        BY <3>1, <3>2, <4>1, PressureKeeps
      <4> QED  BY <2>2, <3>2, <4>3, <4>4, StaysTrans
    <3> QED  BY <3>3, <3>4
  <2> QED  BY <2>4, <2>5
<1>2. Fine(NumSeqs)
  BY <1>0, <1>1
<1> QED  BY <1>2, SweptUnfold

LEMMA ReclaimKeeps ==
  ASSUME NEW k, NEW D, Good(k, D), NEW s \in Ids, NEW g, g = tiering_pressure_reclaim(k, s)
  PROVE  Good(g, D) /\ Stays(k, g)
<1>1. PICK own : own = pressure_demote(k, s)
  OBVIOUS
<1>2. Good(own.k, D) /\ Stays(k, own.k)
  BY <1>1, PressureKeeps
<1>3. PICK r : r = IF own.ok THEN own ELSE sweep_others(own, s)
  OBVIOUS
<1>4. Good(r.k, D) /\ Stays(k, r.k)
  <2>1. CASE own.ok
    BY <1>2, <1>3, <2>1
  <2>2. CASE ~own.ok
    <3>1. r = sweep_others(own, s)
      BY <1>3, <2>2
    <3>2. Good(r.k, D) /\ Stays(own.k, r.k)
      BY <1>2, <3>1, SweepKeeps
    <3> QED  BY <1>2, <3>2, StaysTrans
  <2> QED  BY <2>1, <2>2
<1>5. CASE r.ok
  <2>1. g = drain_demotions(r.k)
    BY <1>1, <1>3, <1>5, Zenon DEF tiering_pressure_reclaim, else_others, drain_if
  <2> QED  BY <1>4, <2>1, DrainKeeps, StaysTrans
<1>6. CASE ~r.ok
  <2>1. g = r.k
    BY <1>1, <1>3, <1>6, Zenon DEF tiering_pressure_reclaim, else_others, drain_if
  <2> QED  BY <1>4, <2>1
<1> QED  BY <1>5, <1>6

-------------------------------------------------------------------------------
(* New pages.                                                              *)

Numbered(k, s) == \A x \in Of(s) : Owned(k.st, k.pg, x) => x[3] < k.num[s]
Grown(k, s, n) == {x \in Of(s) : x[3] >= k.num[s] /\ x[3] < k.num[s] + n}

LEMMA AppendFields ==
  ASSUME NEW k, IsKv(k), NEW s, NEW n, NEW g, g = append_pages(k, s, n)
  PROVE  /\ IsKv(g) /\ Same(k, g, {"ref", "pg", "num"})
         /\ g.ref = Took(k.ref, Place(Grown(k, s, n), FreePages(k)))
         /\ g.pg = With(k.pg, Place(Grown(k, s, n), FreePages(k)))
         /\ g.num = Put(k.num, s, k.num[s] + n)
BY Zenon DEF append_pages, alloc_pages, Grown, IsKv, Fields, Same, Put

LEMMA GrownFits ==
  ASSUME NEW k, NEW s \in Ids, NEW n \in Nat, k.num[s] \in Nat
  PROVE  Cardinality(Grown(k, s, n)) <= n * NumLayers
<1> DEFINE I == (k.num[s])..(k.num[s] + n - 1)
           X == Grown(k, s, n)
           g == [x \in X |-> <<x[2], x[3]>>]
<1>1. IsFiniteSet(Layers) /\ Cardinality(Layers) = NumLayers
  <2>1. 0 \in Int /\ NumLayers - 1 \in Int /\ NumLayers - 1 >= 0
    BY KvAssumption
  <2>2. IsFiniteSet(0..(NumLayers - 1)) /\ Cardinality(0..(NumLayers - 1)) = (NumLayers - 1) - 0 + 1
    BY <2>1, FS_Interval
  <2> QED  BY <2>1, <2>2, KvAssumption DEF Layers
<1>2. IsFiniteSet(I) /\ Cardinality(I) = n
  <2>1. PICK a \in Int : a = k.num[s]
    OBVIOUS
  <2>2. PICK b \in Int : b = a + n - 1
    OBVIOUS
  <2>3. IsFiniteSet(a..b) /\ Cardinality(a..b) = IF a > b THEN 0 ELSE b - a + 1
    BY FS_Interval
  <2>4. (IF a > b THEN 0 ELSE b - a + 1) = n
    BY <2>2
  <2> QED  BY <2>1, <2>2, <2>3, <2>4
<1>3. IsFiniteSet(Layers \X I) /\ Cardinality(Layers \X I) = NumLayers * n
  BY <1>1, <1>2, FS_Product
<1>4. \A x \in X : x \in Of(s) /\ x = <<s, x[2], x[3]>> /\ x[2] \in Layers /\ x[3] \in I
  BY DEF Grown, Of, Logical
<1>5. g \in [X -> Layers \X I]
  BY <1>4
<1>6. \A x, y \in X : g[x] = g[y] => x = y
  <2> TAKE x, y \in X
  <2> HAVE g[x] = g[y]
  <2>1. x[2] = y[2] /\ x[3] = y[3]
    OBVIOUS
  <2> QED  BY <2>1, <1>4
<1> HIDE DEF g
<1>7. g \in Injection(X, Layers \X I)
  BY <1>5, <1>6 DEF Injection, IsInjective
<1>8. Cardinality(X) <= Cardinality(Layers \X I)
  BY <1>3, <1>7, FS_Injection
<1>9. NumLayers * n = n * NumLayers
  BY KvAssumption
<1> QED  BY <1>3, <1>8, <1>9

LEMMA AppendKeeps ==
  ASSUME NEW k, Good(k, {}), NEW s \in Ids, NEW n \in Nat, k.num[s] + n <= MaxPages,
         n * NumLayers <= Cardinality(FreePages(k)), NEW g, g = append_pages(k, s, n)
  PROVE  Good(g, {s}) /\ Same(k, g, {"ref", "pg", "num"}) /\ Numbered(g, s) /\ g.num[s] = k.num[s] + n
<1> USE DEF Good
<1>1. /\ IsKv(k) /\ EntriesOk(k.st, k.pg) /\ NumberedOk(k.num, k.st, k.pg, {})
      /\ DormantOk(k.life, k.num, k.st, k.pg, k.hibernated, k.seen, {})
  BY DEF Base
<1>2. PICK X : X = Grown(k, s, n)
  OBVIOUS
<1>3. PICK f : f = Place(X, FreePages(k))
  OBVIOUS
<1>4. /\ IsKv(g) /\ Same(k, g, {"ref", "pg", "num"}) /\ g.ref = Took(k.ref, f)
      /\ g.pg = With(k.pg, f) /\ g.num = Put(k.num, s, k.num[s] + n)
  BY <1>1, <1>2, <1>3, AppendFields
<1>5. k.num \in [Ids -> 0..MaxPages] /\ k.num[s] \in Nat
  BY <1>1, KvAssumption DEF NumberedOk
<1>6. /\ X \subseteq Of(s) /\ X \subseteq Cells
      /\ \A x \in X : k.pg[x] = Neutral /\ k.st[x].tier = "hot" /\ x[3] < k.num[s] + n
  <2>1. X \subseteq Of(s) /\ \A x \in X : x[3] >= k.num[s] /\ x[3] < k.num[s] + n
    BY <1>2 DEF Grown
  <2>2. X \subseteq Cells /\ \A x \in X : x[1] = s /\ x[3] \in Nat
    BY <2>1, CellParts
  <2>3. \A x \in X : ~ Owned(k.st, k.pg, x)
    BY <1>1, <1>5, <2>1, <2>2 DEF NumberedOk
  <2> QED  BY <2>1, <2>2, <2>3 DEF Owned
<1>7. Cardinality(X) <= Cardinality(FreePages(k))
  <2>1. Cardinality(X) <= n * NumLayers
    BY <1>2, <1>5, GrownFits
  <2>2. IsFiniteSet(X) /\ Cardinality(X) \in Nat
    BY <1>6, FiniteCells, FS_Subset, FS_CardinalityType
  <2>3. PICK m \in Nat : m = n * NumLayers
    BY KvAssumption
  <2> QED  BY <2>1, <2>2, <2>3, FreeFinite
<1>8. /\ DOMAIN f = X
      /\ \A x, y \in X : f[x] = f[y] => x = y
      /\ \A x \in X : f[x] \in Pages /\ k.ref[f[x]] = 0
  BY <1>3, <1>6, <1>7, PlacePages
<1> HIDE <1>2, <1>3
<1>9. k.pg \in [Cells -> 0..VramPages] /\ DOMAIN k.pg = Cells
  BY <1>1 DEF EntriesOk
<1>10. /\ \A x \in X : g.pg[x] = f[x]
       /\ \A x \in Cells \ X : g.pg[x] = k.pg[x]
  BY <1>4, <1>6, <1>8, <1>9, WithIs
<1>11. g.pg \in [Cells -> 0..VramPages]
  <2>1. \A x \in DOMAIN f : f[x] \in 0..VramPages
    BY <1>8, KvAssumption DEF Pages
  <2> QED  BY <1>4, <1>9, <2>1, WithTyped
<1>12. Fresh(k.ref, Pages, k.pg, g.pg, X, f)
  BY <1>6, <1>8, <1>10, PagesPositive DEF Fresh, Moves, Without
<1>13. /\ g.cold_ref = k.cold_ref /\ g.life = k.life
       /\ g.st = k.st /\ g.seen = k.seen /\ g.frontier = k.frontier /\ g.demoted = k.demoted
       /\ g.flying = k.flying /\ g.used = k.used /\ g.hibernated = k.hibernated /\ g.file = k.file
       /\ g.pend = k.pend /\ g.stream = k.stream /\ g.landed = k.landed
       /\ g.spilled_total = k.spilled_total /\ g.total = k.total
  BY <1>4 DEF Same, Fields
<1>14. EntriesOk(g.st, g.pg)
  BY <1>1, <1>6, <1>10, <1>11, <1>13 DEF EntriesOk
<1>15. Counted(g.ref, Pages, g.pg)
  <2>1. Counted(k.ref, Pages, k.pg)
    BY DEF Base
  <2> QED  BY <1>4, <1>12, <2>1, CountTaken
<1>16. PendOk(g.pend, g.st, g.pg)
  <2>1. HotKept(k.st, k.pg, g.st, g.pg)
    BY <1>6, <1>10, <1>13 DEF HotKept
  <2> QED  BY <1>13, <2>1, PendKept DEF Base
<1>17. FlightOk(g.landed, g.stream, g.st, g.pg)
  <2>1. FlightKept(k.st, k.pg, g.st, g.pg)
    BY <1>6, <1>10, <1>13 DEF FlightKept
  <2> QED  BY <1>13, <2>1, FlightSame DEF Base
<1>18. g.num \in [Ids -> 0..MaxPages] /\ g.num[s] = k.num[s] + n /\ \A q \in Ids \ {s} : g.num[q] = k.num[q]
  BY <1>4, <1>5, KvAssumption DEF Put
<1>19. \A x \in Cells : x[1] # s => x \notin X /\ x[1] \in Ids \ {s}
  BY <1>6, CellParts
<1>20. NumberedOk(g.num, g.st, g.pg, {s})
  BY <1>1, <1>10, <1>13, <1>18, <1>19 DEF NumberedOk, Owned
<1>21. DormantOk(g.life, g.num, g.st, g.pg, g.hibernated, g.seen, {s})
  BY <1>1, <1>10, <1>13, <1>18, <1>19 DEF DormantOk, Owned
<1>22. Numbered(g, s)
  <2> SUFFICES ASSUME NEW x \in Of(s), Owned(g.st, g.pg, x) PROVE x[3] < g.num[s]
    BY DEF Numbered
  <2>1. x \in Cells /\ x[1] = s /\ x[3] \in Nat
    BY CellParts
  <2>2. CASE x \in X
    BY <1>6, <1>18, <2>2
  <2>3. CASE x \notin X
    <3>1. Owned(k.st, k.pg, x)
      BY <1>10, <1>13, <2>1, <2>3 DEF Owned
    <3>2. x[3] < k.num[s]
      BY <1>1, <2>1, <3>1 DEF NumberedOk
    <3> QED  BY <1>5, <1>18, <2>1, <3>2
  <2> QED  BY <2>2, <2>3
<1>23. /\ Counted(g.cold_ref, Slots, SlotOf(g.st))
       /\ CountsOk(g.st, g.demoted, g.flying, g.used, g.frontier, g.file)
       /\ TotalsOk(g.total, g.demoted, g.spilled_total, g.file)
  BY <1>13 DEF Base
<1> QED  BY <1>4, <1>14, <1>15, <1>16, <1>17, <1>18, <1>20, <1>21, <1>22, <1>23 DEF Base

\* The pages of s are its own, and it is held.
Adopts(life, lives, s) ==
  DOMAIN lives = Ids /\ lives[s] \in {"live", "holder"} /\ \A q \in Ids \ {s} : lives[q] = life[q]
LEMMA AdoptKeeps ==
  ASSUME NEW k, NEW s \in Ids, Good(k, {s}), Numbered(k, s), NEW g, IsKv(g),
         Same(k, g, Inert \cup {"life"}), Adopts(k.life, g.life, s)
  PROVE  Good(g, {})
<1> USE DEF Good
<1>1. /\ g.ref = k.ref /\ g.cold_ref = k.cold_ref /\ g.pg = k.pg /\ g.num = k.num
      /\ g.st = k.st /\ g.seen = k.seen /\ g.frontier = k.frontier /\ g.demoted = k.demoted
      /\ g.flying = k.flying /\ g.used = k.used /\ g.hibernated = k.hibernated /\ g.file = k.file
      /\ g.pend = k.pend /\ g.stream = k.stream /\ g.landed = k.landed
      /\ g.spilled_total = k.spilled_total /\ g.total = k.total
  BY DEF Same, Fields, Inert
<1>2. /\ NumberedOk(k.num, k.st, k.pg, {s})
      /\ DormantOk(k.life, k.num, k.st, k.pg, k.hibernated, k.seen, {s})
  BY DEF Base
<1>3. DOMAIN g.life = Ids /\ g.life[s] \in {"live", "holder"} /\ \A q \in Ids \ {s} : g.life[q] = k.life[q]
  BY DEF Adopts
<1>4. NumberedOk(g.num, g.st, g.pg, {})
  BY <1>1, <1>2, CellParts DEF NumberedOk, Numbered
<1>5. DormantOk(g.life, g.num, g.st, g.pg, g.hibernated, g.seen, {})
  BY <1>1, <1>2, <1>3, CellParts DEF DormantOk
<1> QED  BY <1>1, <1>4, <1>5 DEF Base

\* What a layer of a sequence that is held may change.
Steps == TierFields \cup {"num", "seen", "txt", "rewinds", "fail"}
LEMMA EnsureKeeps ==
  ASSUME NEW k, Good(k, {}), NEW s \in Held(k), NEW pos \in Int, NEW r, r = ensure_pages(k, s, pos)
  PROVE  Good(r.k, {}) /\ Same(k, r.k, TierFields \cup {"num"})
<1>1. PICK needed : needed = pos \div PageSize + 1
  OBVIOUS
<1>2. needed \in Int /\ s \in Ids /\ MaxPages \in Nat /\ Growth \in Nat /\ NumLayers \in Nat \ {0}
  BY <1>1, KvAssumption DEF Held
<1>3. k.num \in [Ids -> 0..MaxPages] /\ k.num[s] \in Nat /\ k.num[s] <= MaxPages
  BY <1>2 DEF Good, Base, NumberedOk
<1>4. CASE needed <= k.num[s]
  <2>1. r = Done(k)
    BY <1>1, <1>4, Zenon DEF ensure_pages, room_for, append_up_to, Has
  <2> QED  BY <2>1 DEF Done, Same
<1>5. CASE ~ (needed <= k.num[s])
  <2>1. PICK target : target = MinOf(MaxOf(needed, k.num[s] + Growth), MaxPages)
    OBVIOUS
  <2>2. target \in Int /\ target >= k.num[s] /\ target <= MaxPages
    BY <1>2, <1>3, <1>5, <2>1 DEF MinOf, MaxOf
  <2>3. PICK want : want = target - k.num[s]
    OBVIOUS
  <2>4. want \in Nat /\ k.num[s] + want <= MaxPages
    BY <1>3, <2>2, <2>3
  <2>5. PICK a : a = IF Cardinality(FreePages(k)) < want * NumLayers THEN tiering_pressure_reclaim(k, s) ELSE k
    OBVIOUS
  <2>6. Good(a, {}) /\ Stays(k, a)
    BY <1>2, <2>5, ReclaimKeeps, StaysSelf
  <2>7. PICK F \in Nat : F = Cardinality(FreePages(a))
    BY FreeFinite
  <2>8. PICK n : n = MinOf(want, F \div NumLayers)
    OBVIOUS
  <2>9. n \in Nat /\ n <= want /\ n * NumLayers <= F
    <3>1. PICK q \in Nat : q = F \div NumLayers
      BY <1>2
    <3>2. q * NumLayers <= F
      BY <1>2, <3>1
    <3>3. n \in Nat /\ n <= want /\ n <= q
      BY <2>4, <2>8, <3>1 DEF MinOf
    <3>4. n * NumLayers <= q * NumLayers /\ n * NumLayers \in Int /\ q * NumLayers \in Int
      BY <1>2, <3>3, MulMono
    <3> QED  BY <3>2, <3>3, <3>4
  <2>10. PICK b : b = append_pages(a, s, n)
    OBVIOUS
  <2>11. a.num = k.num /\ a.life = k.life
    BY <2>6, StaysWhat
  <2>12. k.num[s] + n <= MaxPages
    BY <1>2, <1>3, <2>4, <2>9
  <2>13. Good(b, {s}) /\ Same(a, b, {"ref", "pg", "num"}) /\ Numbered(b, s)
    BY <1>2, <2>6, <2>7, <2>9, <2>10, <2>11, <2>12, AppendKeeps
  <2>14. Same(k, b, TierFields \cup {"num"})
    BY <2>6, <2>13 DEF Stays, Same, TierFields, Fields
  <2>15. Good(b, {})
    <3>1. IsKv(b) /\ b.life = k.life
      BY <2>13, <2>14 DEF Good, Base, Same, Fields, TierFields
    <3>2. k.life[s] \in {"live", "holder"}
      BY DEF Held
    <3>3. Adopts(b.life, b.life, s)
      BY <2>13, <3>1, <3>2 DEF Adopts, Good, Base, DormantOk
    <3>4. Same(b, b, Inert \cup {"life"})
      BY DEF Same
    <3> QED  BY <1>2, <2>13, <3>1, <3>2, <3>3, <3>4, AdoptKeeps
  <2>16. r = [k |-> b, ok |-> needed <= b.num[s]]
    BY <1>1, <1>5, <2>1, <2>3, <2>5, <2>7, <2>8, <2>10, Zenon DEF ensure_pages, room_for, append_up_to, Has
  <2> QED  BY <2>14, <2>15, <2>16
<1> QED  BY <1>4, <1>5

-------------------------------------------------------------------------------
(* The rows of a layer.                                                    *)

Row == Layers \X Int \X Ids \X Int
Texts(txt, rewinds) == txt \in [Ids \X Layers -> Seq(Row)] /\ rewinds \in [Ids -> Nat]
\* The rows of the other sequences are what they were.
OthersTexts(txt, uxt, s) == \A q \in Ids \ {s}, l \in Layers : uxt[<<q, l>>] = txt[<<q, l>>]
\* A rewind goes back to rows that every layer has.
MayCut(txt, s, l, pos) == pos < Len(txt[<<s, l>>]) => \A m \in Layers : pos <= Len(txt[<<s, m>>])

Cut(txt, s, pos) == [y \in DOMAIN txt |-> IF y[1] = s THEN SubSeq(txt[y], 1, pos) ELSE txt[y]]
LEMMA ForgetFields ==
  ASSUME NEW k, IsKv(k), NEW s, NEW pos, NEW g, g = Forget(k, s, pos)
  PROVE  /\ IsKv(g) /\ Same(k, g, {"rewinds", "txt"})
         /\ g.rewinds = Put(k.rewinds, s, k.rewinds[s] + 1) /\ g.txt = Cut(k.txt, s, pos)
BY Zenon DEF Forget, IsKv, Fields, Same, Put, Cut

NewRows(k, s, l, pos, rows) == [i \in 1..rows |-> <<l, pos + i - 1, s, k.rewinds[s]>>]
LEMMA WriteFields ==
  ASSUME NEW k, IsKv(k), NEW s, NEW l, NEW pos, NEW rows, NEW g, g = write_rows(k, s, l, pos, rows)
  PROVE  /\ IsKv(g) /\ Same(k, g, {"vram", "txt"})
         /\ g.txt = Put(k.txt, <<s, l>>, k.txt[<<s, l>>] \o NewRows(k, s, l, pos, rows))
BY Zenon DEF write_rows, IsKv, Fields, Same, Put, NewRows

LEMMA CutTexts ==
  ASSUME NEW txt, NEW rewinds, Texts(txt, rewinds), NEW s \in Ids, NEW pos \in Nat,
         \A m \in Layers : pos <= Len(txt[<<s, m>>])
  PROVE  /\ Texts(Cut(txt, s, pos), Put(rewinds, s, rewinds[s] + 1)) /\ OthersTexts(txt, Cut(txt, s, pos), s)
         /\ \A m \in Layers : Len(Cut(txt, s, pos)[<<s, m>>]) = pos
<1>1. DOMAIN txt = Ids \X Layers /\ \A y \in Ids \X Layers : txt[y] \in Seq(Row)
  BY DEF Texts
<1>2. \A y \in Ids \X Layers : y[1] = s => SubSeq(txt[y], 1, pos) \in Seq(Row) /\ Len(SubSeq(txt[y], 1, pos)) = pos
  <2> TAKE y \in Ids \X Layers
  <2> HAVE y[1] = s
  <2>1. y = <<s, y[2]>> /\ y[2] \in Layers /\ txt[y] \in Seq(Row)
    BY <1>1
  <2>2. pos <= Len(txt[y]) /\ Len(txt[y]) \in Nat
    BY <2>1, LenProperties
  <2>3. \A i \in 1..pos : txt[y][i] \in Row
    BY <2>1, <2>2, ElementOfSeq
  <2>4. SubSeq(txt[y], 1, pos) \in Seq(Row) /\ Len(SubSeq(txt[y], 1, pos)) = IF 1 <= pos THEN pos - 1 + 1 ELSE 0
    BY <2>3, SubSeqProperties
  <2> QED  BY <2>4
<1>3. Cut(txt, s, pos) \in [Ids \X Layers -> Seq(Row)]
  BY <1>1, <1>2 DEF Cut
<1>4. Put(rewinds, s, rewinds[s] + 1) \in [Ids -> Nat]
  BY DEF Put, Texts
<1>5. OthersTexts(txt, Cut(txt, s, pos), s)
  BY <1>1 DEF OthersTexts, Cut
<1>6. ASSUME NEW m \in Layers PROVE Len(Cut(txt, s, pos)[<<s, m>>]) = pos
  <2>1. PICK y : y = <<s, m>>
    OBVIOUS
  <2>2. y \in Ids \X Layers /\ y[1] = s
    BY <2>1
  <2>3. Cut(txt, s, pos)[y] = SubSeq(txt[y], 1, pos)
    BY <1>1, <2>2 DEF Cut
  <2> QED  BY <1>2, <2>1, <2>2, <2>3
<1> QED  BY <1>3, <1>4, <1>5, <1>6 DEF Texts

Grew(txt, uxt, s, l, rows) ==
  \A m \in Layers : Len(uxt[<<s, m>>]) = Len(txt[<<s, m>>]) + (IF m = l THEN rows ELSE 0)
LEMMA MoreTexts ==
  ASSUME NEW k, Texts(k.txt, k.rewinds), NEW s \in Ids, NEW l \in Layers, NEW pos \in Int, NEW rows \in Nat,
         NEW u, u = Put(k.txt, <<s, l>>, k.txt[<<s, l>>] \o NewRows(k, s, l, pos, rows))
  PROVE  /\ Texts(u, k.rewinds) /\ OthersTexts(k.txt, u, s)
         /\ Grew(k.txt, u, s, l, rows)
<1>1. /\ k.txt \in [Ids \X Layers -> Seq(Row)] /\ k.rewinds[s] \in Int
      /\ <<s, l>> \in Ids \X Layers /\ k.txt[<<s, l>>] \in Seq(Row)
  BY DEF Texts
<1>2. NewRows(k, s, l, pos, rows) \in Seq(Row) /\ Len(NewRows(k, s, l, pos, rows)) = rows
  <2>1. \A i \in 1..rows : <<l, pos + i - 1, s, k.rewinds[s]>> \in Row
    BY <1>1 DEF Row
  <2>2. [i \in 1..rows |-> <<l, pos + i - 1, s, k.rewinds[s]>>] \in [1..rows -> Row]
    BY <2>1
  <2>3. \A t \in [1..rows -> Row] : t \in Seq(Row) /\ Len(t) = rows
    OBVIOUS
  <2> QED  BY <2>2, <2>3, Zenon DEF NewRows
<1>3. PICK t : t = k.txt[<<s, l>>] \o NewRows(k, s, l, pos, rows)
  OBVIOUS
<1>9. ASSUME NEW v \in Seq(Row), NEW w \in Seq(Row) PROVE v \o w \in Seq(Row) /\ Len(v \o w) = Len(v) + Len(w)
  BY ConcatProperties
<1>4. t \in Seq(Row) /\ Len(t) = Len(k.txt[<<s, l>>]) + rows
  BY <1>1, <1>2, <1>3, <1>9
<1>5. u = Put(k.txt, <<s, l>>, t)
  BY <1>3
<1>6. u \in [Ids \X Layers -> Seq(Row)]
  BY <1>1, <1>4, <1>5 DEF Put
<1>7. OthersTexts(k.txt, u, s)
  BY <1>1, <1>5 DEF Put, OthersTexts
<1>8. ASSUME NEW m \in Layers PROVE Len(u[<<s, m>>]) = Len(k.txt[<<s, m>>]) + (IF m = l THEN rows ELSE 0)
  <2>1. k.txt[<<s, m>>] \in Seq(Row)
    BY <1>1
  <2>2. Len(k.txt[<<s, m>>]) \in Nat
    BY <2>1, LenProperties
  <2>3. u[<<s, m>>] = IF m = l THEN t ELSE k.txt[<<s, m>>]
    BY <1>1, <1>5 DEF Put
  <2>4. CASE m = l
    BY <1>4, <2>2, <2>3, <2>4
  <2>5. CASE m # l
    BY <2>2, <2>3, <2>5
  <2> QED  BY <2>4, <2>5
<1> QED  BY <1>6, <1>7, <1>8 DEF Texts, Grew

\* The rows that a layer has left before the new ones, and with them.
Left(txt, s, l, pos, m) == IF pos < Len(txt[<<s, l>>]) THEN pos ELSE Len(txt[<<s, m>>])
Wrote(txt, uxt, s, l, pos, rows) ==
  \A m \in Layers : Len(uxt[<<s, m>>]) = Left(txt, s, l, pos, m) + (IF m = l THEN rows ELSE 0)

Rolls(k, g, s) == Texts(g.txt, g.rewinds) /\ OthersTexts(k.txt, g.txt, s)
LEMMA RowsKeep ==
  ASSUME NEW k, IsKv(k), Texts(k.txt, k.rewinds), NEW s \in Ids, NEW l \in Layers, NEW pos \in Nat,
         NEW rows \in Nat, MayCut(k.txt, s, l, pos), NEW g, g = append_rows(k, s, l, pos, rows)
  PROVE  IsKv(g) /\ Same(k, g, {"vram", "txt", "rewinds"}) /\ Rolls(k, g, s) /\ Wrote(k.txt, g.txt, s, l, pos, rows)
<1>1. CASE pos < Len(k.txt[<<s, l>>])
  <2>1. PICK a : a = Forget(k, s, pos)
    OBVIOUS
  <2>2. /\ IsKv(a) /\ Same(k, a, {"rewinds", "txt"})
        /\ a.rewinds = Put(k.rewinds, s, k.rewinds[s] + 1) /\ a.txt = Cut(k.txt, s, pos)
    BY <2>1, ForgetFields
  <2>3. Texts(a.txt, a.rewinds) /\ OthersTexts(k.txt, a.txt, s) /\ \A m \in Layers : Len(a.txt[<<s, m>>]) = pos
    BY <1>1, <2>2, CutTexts DEF MayCut
  <2>4. g = write_rows(a, s, l, pos, rows)
    BY <1>1, <2>1 DEF append_rows
  <2>5. /\ IsKv(g) /\ Same(a, g, {"vram", "txt"})
        /\ g.txt = Put(a.txt, <<s, l>>, a.txt[<<s, l>>] \o NewRows(a, s, l, pos, rows))
    BY <2>2, <2>4, WriteFields
  <2>6. /\ Texts(g.txt, a.rewinds) /\ OthersTexts(a.txt, g.txt, s)
        /\ Grew(a.txt, g.txt, s, l, rows)
    BY <2>3, <2>5, MoreTexts
  <2>7. g.rewinds = a.rewinds /\ Same(k, g, {"vram", "txt", "rewinds"})
    BY <2>2, <2>5 DEF Same, Fields
  <2>8. Wrote(k.txt, g.txt, s, l, pos, rows)
    BY <1>1, <2>3, <2>6 DEF Wrote, Left, Grew
  <2> QED  BY <2>3, <2>5, <2>6, <2>7, <2>8 DEF Rolls, OthersTexts
<1>2. CASE ~ (pos < Len(k.txt[<<s, l>>]))
  <2>1. g = write_rows(k, s, l, pos, rows)
    BY <1>2 DEF append_rows
  <2>2. /\ IsKv(g) /\ Same(k, g, {"vram", "txt"})
        /\ g.txt = Put(k.txt, <<s, l>>, k.txt[<<s, l>>] \o NewRows(k, s, l, pos, rows))
    BY <2>1, WriteFields
  <2>3. /\ Texts(g.txt, k.rewinds) /\ OthersTexts(k.txt, g.txt, s)
        /\ Grew(k.txt, g.txt, s, l, rows)
    BY <2>2, MoreTexts
  <2>4. g.rewinds = k.rewinds /\ Same(k, g, {"vram", "txt", "rewinds"})
    BY <2>2 DEF Same, Fields
  <2>5. Wrote(k.txt, g.txt, s, l, pos, rows)
    BY <1>2, <2>3 DEF Wrote, Left, Grew
  <2> QED  BY <2>2, <2>3, <2>4, <2>5 DEF Rolls
<1> QED  BY <1>1, <1>2

-------------------------------------------------------------------------------
(* An attention dispatch of one layer.                                     *)

LEMMA SeenKeeps ==
  ASSUME NEW k, Good(k, {}), NEW s \in Held(k), NEW v \in Nat, NEW g, g = [k EXCEPT !.seen[s] = v]
  PROVE  Good(g, {}) /\ Same(k, g, {"seen"})
<1>1. IsKv(g) /\ Same(k, g, {"seen"}) /\ g.seen = Put(k.seen, s, v)
  <2>1. IsKv(k)
    BY DEF Good, Base
  <2> QED  BY <2>1, Zenon DEF IsKv, Fields, Same, Put
<1>2. DormantOk(k.life, k.num, k.st, k.pg, k.hibernated, k.seen, {})
  BY DEF Good, Base
<1>3. s \in Ids /\ k.life[s] \in {"live", "holder"}
  BY DEF Held
<1>4. g.seen \in [Ids -> Nat] /\ \A q \in Ids \ {s} : g.seen[q] = k.seen[q]
  BY <1>1, <1>2, <1>3 DEF Put, DormantOk
<1>5. DormantOk(k.life, k.num, k.st, k.pg, k.hibernated, g.seen, {})
  BY <1>2, <1>3, <1>4 DEF DormantOk
<1>6. /\ g.ref = k.ref /\ g.cold_ref = k.cold_ref /\ g.pg = k.pg /\ g.num = k.num /\ g.life = k.life
      /\ g.st = k.st /\ g.frontier = k.frontier /\ g.demoted = k.demoted
      /\ g.flying = k.flying /\ g.used = k.used /\ g.hibernated = k.hibernated /\ g.file = k.file
      /\ g.pend = k.pend /\ g.stream = k.stream /\ g.landed = k.landed
      /\ g.spilled_total = k.spilled_total /\ g.total = k.total
  BY <1>1 DEF Same, Fields
<1> QED  BY <1>1, <1>5, <1>6 DEF Good, Base

LEMMA FailKeeps ==
  ASSUME NEW k, NEW D, Good(k, D), NEW v, NEW g, g = [k EXCEPT !.fail = v]
  PROVE  Good(g, D) /\ Same(k, g, {"fail"}) /\ g.fail = v
<1>1. IsKv(k)
  BY DEF Good, Base
<1>2. IsKv(g) /\ Same(k, g, {"fail"}) /\ g.fail = v
  BY <1>1, Zenon DEF IsKv, Fields, Same
<1>3. Same(k, g, Inert)
  BY <1>2 DEF Same, Inert
<1> QED  BY <1>2, <1>3, BaseInert DEF Good

LEMMA HeldTyped ==
  ASSUME NEW k, Good(k, {}), NEW s \in Held(k)
  PROVE  s \in Ids /\ k.seen[s] \in Nat /\ k.num[s] \in Nat
BY KvAssumption DEF Held, Good, Base, DormantOk, NumberedOk

\* The one check that is left to a step.
Trips(before, after) == after = before \/ after = "INV-KVT-2"
LEMMA MayWriteKeeps ==
  ASSUME NEW k, Good(k, {}), NEW s \in Held(k), NEW l, NEW pos \in Nat, NEW rows \in Nat,
         NEW g, g = may_write(k, s, l, pos, rows)
  PROVE  Good(g, {}) /\ Same(k, g, {"seen", "fail"}) /\ Trips(k.fail, g.fail)
<1>1. PICK i : i = IF rows > 1 THEN \E j \in Logical : j >= pos \div PageSize /\ k.st[<<s, l, j>>].tier # "hot"
                             ELSE k.frontier[s] > pos
  OBVIOUS
<1>2. CASE i
  <2>1. g = [k EXCEPT !.fail = "INV-KVT-2"]
    BY <1>1, <1>2, Zenon DEF may_write
  <2> QED  BY <2>1, FailKeeps DEF Same, Trips
<1>3. CASE ~i
  <2>1. PICK v : v = IF rows = 1 /\ pos + 1 < k.seen[s] THEN pos + 1 ELSE MaxOf(k.seen[s], pos + rows)
    OBVIOUS
  <2>2. v \in Nat
    BY <2>1, HeldTyped DEF MaxOf
  <2>3. g = [k EXCEPT !.seen[s] = v]
    BY <1>1, <1>3, <2>1, Zenon DEF may_write
  <2>4. Good(g, {}) /\ Same(k, g, {"seen"})
    BY <2>2, <2>3, SeenKeeps
  <2>5. g.fail = k.fail
    BY <2>4 DEF Same, Fields
  <2> QED  BY <2>4, <2>5 DEF Same, Trips
<1> QED  BY <1>2, <1>3

LEMMA HeldStays ==
  ASSUME NEW k, NEW g, g.life = k.life, NEW s \in Held(k)
  PROVE  s \in Held(g)
BY DEF Held

LEMMA BeginKeeps ==
  ASSUME NEW k, Good(k, {}), NEW s \in Held(k), NEW l, NEW pos \in Nat, NEW rows \in Nat,
         NEW g, g = begin_layer(k, s, l, pos, rows)
  PROVE  Good(g, {}) /\ Same(k, g, TierFields \cup {"seen", "fail"}) /\ Trips(k.fail, g.fail)
<1>1. PICK a : a = poll_demotions(k)
  OBVIOUS
<1>2. Good(a, {}) /\ Stays(k, a)
  BY <1>1, PollKeeps
<1>3. PICK b : b = flush_foreign(a, s, l)
  OBVIOUS
<1>4. Good(b, {}) /\ Stays(a, b)
  BY <1>2, <1>3, FlushKeeps, StaysSelf DEF flush_foreign
<1>5. g = may_write(b, s, l, pos, rows)
  BY <1>1, <1>3 DEF begin_layer
<1>6. Stays(k, b)
  BY <1>2, <1>4, StaysTrans
<1>7. s \in Held(b)
  BY <1>6, StaysWhat, HeldStays
<1>8. Good(g, {}) /\ Same(b, g, {"seen", "fail"}) /\ Trips(b.fail, g.fail)
  BY <1>4, <1>5, <1>7, MayWriteKeeps
<1>9. b.fail = k.fail
  BY <1>6, StaysWhat
<1> QED  BY <1>6, <1>8, <1>9 DEF Stays, Same, TierFields

LEMMA ReadFields ==
  ASSUME NEW k, IsKv(k), NEW s, NEW l, NEW pos, NEW g, g = read_rows(k, s, l, pos)
  PROVE  IsKv(g) /\ Same(k, g, {"cache"})
BY Zenon DEF read_rows, IsKv, Fields, Same

Worded(k) == Texts(k.txt, k.rewinds)
LEMMA AttendKeeps ==
  ASSUME NEW k, Good(k, {}), Worded(k), NEW s \in Ids, NEW l \in Layers, NEW pos \in Nat, NEW rows \in Nat,
         MayCut(k.txt, s, l, pos), NEW g, g = attend(k, s, l, pos, rows)
  PROVE  /\ Good(g, {}) /\ Same(k, g, Steps) /\ Rolls(k, g, s) /\ g.fail = k.fail
         /\ g.fail = "none" => Wrote(k.txt, g.txt, s, l, pos, rows)
<1>1. IsKv(k)
  BY DEF Good, Base
<1>2. CASE k.fail # "none"
  <2>1. g = k
    BY <1>2 DEF attend
  <2> QED  BY <1>2, <2>1 DEF Same, Rolls, Worded, OthersTexts
<1>3. CASE ~ (k.fail # "none")
  <2>1. PICK a : a = append_rows(k, s, l, pos, rows)
    OBVIOUS
  <2>2. IsKv(a) /\ Same(k, a, {"vram", "txt", "rewinds"}) /\ Rolls(k, a, s) /\ Wrote(k.txt, a.txt, s, l, pos, rows)
    BY <1>1, <2>1, RowsKeep DEF Worded
  <2>3. PICK b : b = read_rows(a, s, l, pos)
    OBVIOUS
  <2>4. IsKv(b) /\ Same(a, b, {"cache"})
    BY <2>2, <2>3, ReadFields
  <2>5. Same(k, b, {"vram", "txt", "rewinds", "cache"}) /\ b.txt = a.txt /\ b.rewinds = a.rewinds
    BY <2>2, <2>4 DEF Same, Fields
  <2>6. Same(k, b, Inert)
    BY <2>5 DEF Same, Inert
  <2>7. Good(b, {})
    BY <2>4, <2>6, BaseInert DEF Good
  <2>8. PICK p : p = pos + rows - 1
    OBVIOUS
  <2>9. PICK e : e = p + 1 - Retention
    OBVIOUS
  <2>10. PICK f : f = p \div PageSize
    OBVIOUS
  <2>11. g = collect_layer_range(b, s, {l}, e, f)
    BY <1>3, <2>1, <2>3, <2>8, <2>9, <2>10, Zenon DEF attend, after_attention
  <2>12. Good(g, {}) /\ Stays(b, g)
    BY <2>7, <2>11, CollectRangeKeeps
  <2>13. g.txt = a.txt /\ g.rewinds = a.rewinds /\ g.fail = k.fail
    <3>1. b.fail = k.fail
      BY <2>5 DEF Same, Fields
    <3> QED  BY <2>5, <2>12, <3>1, StaysWhat
  <2>14. Same(k, g, Steps)
    BY <2>5, <2>12 DEF Same, Stays, Steps, TierFields
  <2> QED  BY <2>2, <2>12, <2>13, <2>14 DEF Rolls
<1> QED  BY <1>2, <1>3

LEMMA TierStepKeeps ==
  ASSUME NEW k, Good(k, {}), Worded(k), NEW s \in Held(k), NEW l \in Layers, NEW pos \in Nat, NEW rows \in Nat,
         MayCut(k.txt, s, l, pos), NEW g, g = tier_step(k, s, l, pos, rows)
  PROVE  /\ Good(g, {}) /\ Same(k, g, Steps) /\ Rolls(k, g, s) /\ Trips(k.fail, g.fail)
         /\ g.fail = "none" => Wrote(k.txt, g.txt, s, l, pos, rows)
<1>1. PICK a : a = poll_demotions(k)
  OBVIOUS
<1>2. Good(a, {}) /\ Stays(k, a)
  BY <1>1, PollKeeps
<1>3. s \in Held(a)
  BY <1>2, StaysWhat, HeldStays
<1>4. PICK b : b = begin_layer(a, s, l, pos, rows)
  OBVIOUS
<1>5. Good(b, {}) /\ Same(a, b, TierFields \cup {"seen", "fail"}) /\ Trips(a.fail, b.fail)
  BY <1>2, <1>3, <1>4, BeginKeeps
<1>6. Same(k, b, TierFields \cup {"seen", "fail"})
  BY <1>2, <1>5 DEF Stays, Same
<1>7. b.txt = k.txt /\ b.rewinds = k.rewinds
  BY <1>6 DEF Same, Fields, TierFields
<1>8. g = attend(b, s, l, pos, rows)
  BY <1>1, <1>4 DEF tier_step
<1>9. Worded(b) /\ MayCut(b.txt, s, l, pos) /\ s \in Ids
  BY <1>7 DEF Worded, Held
<1>10. /\ Good(g, {}) /\ Same(b, g, Steps) /\ Rolls(b, g, s) /\ g.fail = b.fail
       /\ g.fail = "none" => Wrote(b.txt, g.txt, s, l, pos, rows)
  BY <1>5, <1>8, <1>9, AttendKeeps
<1>11. Same(k, g, Steps)
  BY <1>6, <1>10 DEF Same, Steps
<1>12. a.fail = k.fail
  BY <1>2, StaysWhat
<1>13. Trips(k.fail, g.fail)
  BY <1>5, <1>10, <1>12
<1> QED  BY <1>7, <1>10, <1>11, <1>13 DEF Rolls

\* A step of a layer: rows are written, or it is refused and none are.
Layered(k, r, s, l, pos, rows) ==
  /\ Good(r.k, {}) /\ Same(k, r.k, Steps) /\ Rolls(k, r.k, s) /\ Trips(k.fail, r.k.fail)
  /\ r.ok /\ r.k.fail = "none" => Wrote(k.txt, r.k.txt, s, l, pos, rows)
  /\ r.ok \/ (r.k.txt = k.txt /\ r.k.rewinds = k.rewinds)

LEMMA DenseKeeps ==
  ASSUME NEW k, Good(k, {}), Worded(k), NEW s \in Held(k), NEW l \in Layers, NEW pos \in Nat, NEW rows \in Nat,
         MayCut(k.txt, s, l, pos), NEW r, r = dense_step(k, s, l, pos, rows)
  PROVE  Layered(k, r, s, l, pos, rows)
<1>1. PICK p : p = poll_demotions(k)
  OBVIOUS
<1>2. Good(p, {}) /\ Stays(k, p) /\ s \in Ids
  BY <1>1, PollKeeps DEF Held
<1>3. PICK a : a = all_hot(p, s)
  OBVIOUS
<1>4. Good(a.k, {}) /\ Stays(p, a.k)
  <2>1. CASE p.demoted[s] > 0
    <3>1. a = repromote_seq(p, s, 0)
      BY <1>3, <2>1 DEF all_hot
    <3> QED  BY <1>2, <3>1, RepromoteKeeps
  <2>2. CASE ~ (p.demoted[s] > 0)
    <3>1. a = Done(p)
      BY <1>3, <2>2 DEF all_hot
    <3> QED  BY <1>2, <3>1, StaysSelf DEF Done
  <2> QED  BY <2>1, <2>2
<1>5. Stays(k, a.k)
  BY <1>2, <1>4, StaysTrans
<1>6. a.k.txt = k.txt /\ a.k.rewinds = k.rewinds /\ a.k.fail = k.fail
  BY <1>5, StaysWhat
<1>7. CASE a.ok
  <2>1. PICK g : g = append_rows(a.k, s, l, pos, rows)
    OBVIOUS
  <2>2. r = Done(g)
    BY <1>1, <1>3, <1>7, <2>1, Zenon DEF dense_step, dense_rows
  <2>3. IsKv(a.k) /\ Texts(a.k.txt, a.k.rewinds) /\ MayCut(a.k.txt, s, l, pos)
    BY <1>4, <1>6 DEF Good, Base, Worded
  <2>4. IsKv(g) /\ Same(a.k, g, {"vram", "txt", "rewinds"}) /\ Rolls(a.k, g, s) /\ Wrote(a.k.txt, g.txt, s, l, pos, rows)
    BY <1>2, <2>1, <2>3, RowsKeep
  <2>5. Same(a.k, g, Inert)
    BY <2>4 DEF Same, Inert
  <2>6. Good(g, {})
    BY <1>4, <2>4, <2>5, BaseInert DEF Good
  <2>7. Same(k, g, Steps)
    BY <1>5, <2>4 DEF Same, Stays, Steps, TierFields
  <2>8. r.k = g /\ r.ok
    BY <2>2 DEF Done
  <2>9. Trips(k.fail, g.fail)
    BY <1>6, <2>4 DEF Same, Fields, Trips
  <2> QED  BY <1>6, <2>4, <2>6, <2>7, <2>8, <2>9 DEF Layered, Rolls
<1>8. CASE ~ a.ok
  <2>1. r = a
    BY <1>1, <1>3, <1>8, Zenon DEF dense_step, dense_rows
  <2>2. Same(k, r.k, Steps)
    BY <1>5, <2>1 DEF Same, Stays, Steps
  <2> QED  BY <1>4, <1>6, <1>8, <2>1, <2>2 DEF Layered, Rolls, Worded, OthersTexts, Trips
<1> QED  BY <1>7, <1>8

\* The pages are there: the same, further on.
LEMMA LayeredAfter ==
  ASSUME NEW k, NEW a, Same(k, a, TierFields \cup {"num"}), NEW r, NEW s, NEW l, NEW pos, NEW rows, Layered(a, r, s, l, pos, rows)
  PROVE  Layered(k, r, s, l, pos, rows)
<1>1. a.txt = k.txt /\ a.rewinds = k.rewinds /\ a.fail = k.fail
  BY DEF Same, Fields, TierFields
<1>2. Same(k, r.k, Steps)
  BY DEF Layered, Same, Steps
<1> QED  BY <1>1, <1>2 DEF Layered, Rolls

\* A refused one.
LEMMA LayeredNot ==
  ASSUME NEW k, Worded(k), NEW r, Good(r.k, {}), Same(k, r.k, TierFields \cup {"num"}), ~r.ok, NEW s, NEW l, NEW pos, NEW rows
  PROVE  Layered(k, r, s, l, pos, rows)
<1>1. r.k.txt = k.txt /\ r.k.rewinds = k.rewinds /\ r.k.fail = k.fail
  BY DEF Same, Fields, TierFields
<1>2. Same(k, r.k, Steps)
  BY DEF Same, Steps
<1> QED  BY <1>1, <1>2 DEF Layered, Rolls, Worded, OthersTexts, Trips

LEMMA TierLayered ==
  ASSUME NEW k, Good(k, {}), Worded(k), NEW s \in Held(k), NEW l \in Layers, NEW pos \in Nat, NEW rows \in Nat,
         MayCut(k.txt, s, l, pos), NEW r, r = Done(tier_step(k, s, l, pos, rows))
  PROVE  Layered(k, r, s, l, pos, rows)
<1>1. PICK g : g = tier_step(k, s, l, pos, rows)
  OBVIOUS
<1>2. r.k = g /\ r.ok
  BY <1>1 DEF Done
<1> QED  BY <1>1, <1>2, TierStepKeeps DEF Layered

LEMMA DecodeLayered ==
  ASSUME NEW k, Good(k, {}), Worded(k), NEW s \in Held(k), NEW l \in Layers, NEW pos \in Nat,
         MayCut(k.txt, s, l, pos), NEW r, r = decode_layer(k, s, l, pos)
  PROVE  Layered(k, r, s, l, pos, 1)
<1>1. PICK a : a = IF k.demoted[s] > 0 THEN repromote_for_rewind(k, s, pos) ELSE Done(k)
  OBVIOUS
<1>2. Good(a.k, {}) /\ Stays(k, a.k)
  <2>1. s \in Ids
    BY DEF Held
  <2>2. CASE k.demoted[s] > 0
    <3>1. a = repromote_for_rewind(k, s, pos)
      BY <1>1, <2>2
    <3> QED  BY <2>1, <3>1, RewindKeeps
  <2>3. CASE ~ (k.demoted[s] > 0)
    <3>1. a = Done(k)
      BY <1>1, <2>3
    <3> QED  BY <3>1, StaysSelf DEF Done
  <2> QED  BY <2>2, <2>3
<1>3. PICK b : b = ensure_pages(a.k, s, pos)
  OBVIOUS
<1>4. s \in Held(a.k) /\ pos \in Int
  BY <1>2, StaysWhat, HeldStays
<1>5. Good(b.k, {}) /\ Same(a.k, b.k, TierFields \cup {"num"})
  BY <1>2, <1>3, <1>4, EnsureKeeps
<1>6. Same(k, b.k, TierFields \cup {"num"}) /\ Same(k, a.k, TierFields \cup {"num"})
  BY <1>2, <1>5 DEF Stays, Same
<1>7. CASE ~a.ok
  <2>1. r = a
    BY <1>1, <1>3, <1>7, Zenon DEF decode_layer, rewind_hook, hooked_row, decode_row
  <2> QED  BY <1>2, <1>6, <2>1, <1>7, LayeredNot
<1>8. CASE a.ok /\ ~b.ok
  <2>1. r = b
    BY <1>1, <1>3, <1>8, Zenon DEF decode_layer, rewind_hook, hooked_row, decode_row
  <2> QED  BY <1>5, <1>6, <1>8, <2>1, LayeredNot
<1>9. CASE a.ok /\ b.ok
  <2>1. r = Done(tier_step(b.k, s, l, pos, 1))
    BY <1>1, <1>3, <1>9, Zenon DEF decode_layer, rewind_hook, hooked_row, decode_row
  <2>2. b.k.txt = k.txt /\ b.k.rewinds = k.rewinds /\ b.k.life = k.life
    BY <1>6 DEF Same, Fields, TierFields
  <2>3. Worded(b.k) /\ s \in Held(b.k) /\ MayCut(b.k.txt, s, l, pos) /\ 1 \in Nat
    BY <2>2, HeldStays DEF Worded
  <2>4. Layered(b.k, r, s, l, pos, 1)
    BY <1>5, <2>1, <2>3, TierLayered
  <2> QED  BY <1>6, <2>4, LayeredAfter
<1> QED  BY <1>7, <1>8, <1>9

LEMMA ChunkLayered ==
  ASSUME NEW k, Good(k, {}), Worded(k), NEW s \in Held(k), NEW l \in Layers, NEW pos \in Nat,
         MayCut(k.txt, s, l, pos), NEW pass, NEW r, r = chunk_layer(k, s, l, pos, pass)
  PROVE  Layered(k, r, s, l, pos, Chunk)
<1>1. PICK p \in Int : p = pos + Chunk - 1
  BY KvAssumption
<1>2. PICK a : a = ensure_pages(k, s, p)
  OBVIOUS
<1>3. Good(a.k, {}) /\ Same(k, a.k, TierFields \cup {"num"})
  BY <1>2, EnsureKeeps
<1>4. CASE ~a.ok
  <2>1. r = a
    BY <1>1, <1>2, <1>4, Zenon DEF chunk_layer, chunk_rows
  <2> QED  BY <1>3, <1>4, <2>1, LayeredNot
<1>5. CASE a.ok
  <2>2. a.k.txt = k.txt /\ a.k.rewinds = k.rewinds /\ a.k.life = k.life
    BY <1>3 DEF Same, Fields, TierFields
  <2>3. Worded(a.k) /\ s \in Held(a.k) /\ MayCut(a.k.txt, s, l, pos) /\ Chunk \in Nat
    BY <2>2, HeldStays, KvAssumption DEF Worded
  <2>4. CASE pass = "chunk"
    <3>1. r = Done(tier_step(a.k, s, l, pos, Chunk))
      BY <1>1, <1>2, <1>5, <2>4, Zenon DEF chunk_layer, chunk_rows
    <3>2. Layered(a.k, r, s, l, pos, Chunk)
      BY <1>3, <2>3, <3>1, TierLayered
    <3> QED  BY <1>3, <3>2, LayeredAfter
  <2>5. CASE pass # "chunk"
    <3>1. r = dense_step(a.k, s, l, pos, Chunk)
      BY <1>1, <1>2, <1>5, <2>5, Zenon DEF chunk_layer, chunk_rows
    <3>2. Layered(a.k, r, s, l, pos, Chunk)
      BY <1>3, <2>3, <3>1, DenseKeeps
    <3> QED  BY <1>3, <3>2, LayeredAfter
  <2> QED  BY <2>4, <2>5
<1> QED  BY <1>4, <1>5

-------------------------------------------------------------------------------
(* The layers under way: how far they are behind the first one.            *)

TrailsBy(txt, s, u) == \A l \in Layers : \E n \in Nat : Len(txt[<<s, 0>>]) = Len(txt[<<s, l>>]) + n * u
Unit(pass) == IF pass = "none" THEN 0 ELSE IF pass = "decode" THEN 1 ELSE Chunk
Uneven(txt, s) == \E l \in Layers : Len(txt[<<s, l>>]) # Len(txt[<<s, 0>>])
Fails == {"none", "INV-KVT-2"}
PassOk(pass, life, txt, fail) ==
  /\ DOMAIN pass = Ids /\ fail \in Fails
  /\ \A s \in Ids : pass[s] # "none" => life[s] = "live"
  /\ fail = "none" => \A s \in Ids : /\ TrailsBy(txt, s, Unit(pass[s]))
                                     /\ pass[s] # "none" => Uneven(txt, s)

Inv(k) == Good(k, {}) /\ Worded(k) /\ PassOk(k.pass, k.life, k.txt, k.fail)

LEMMA Lens ==
  ASSUME NEW txt, NEW rewinds, Texts(txt, rewinds), NEW s \in Ids
  PROVE  0 \in Layers /\ \A l \in Layers : Len(txt[<<s, l>>]) \in Nat
<1>1. 0 \in Layers
  BY KvAssumption DEF Layers
<1>2. ASSUME NEW l \in Layers PROVE Len(txt[<<s, l>>]) \in Nat
  <2>1. txt[<<s, l>>] \in Seq(Row)
    BY DEF Texts
  <2> QED  BY <2>1, LenProperties
<1> QED  BY <1>1, <1>2

LEMMA UnitTyped == \A p : Unit(p) \in Nat /\ (p # "none" => Unit(p) > 0)
BY KvAssumption DEF Unit

LEMMA Steps0 ==
  ASSUME NEW a \in Int, NEW u \in Nat
  PROVE  a = a + 0 * u /\ a = a + u * 0
<1>1. 0 * u = 0 /\ u * 0 = 0
  OBVIOUS
<1> QED  BY <1>1
LEMMA StepsMore ==
  ASSUME NEW a \in Int, NEW b \in Int, NEW n \in Nat, NEW u \in Nat, a = b + n * u
  PROVE  a + u = b + (n + 1) * u
<1>1. PICK w \in Nat : w = n * u
  OBVIOUS
<1>2. (n + 1) * u = w + u
  BY <1>1
<1>3. a = b + w
  BY <1>1
<1> HIDE <1>1
<1>4. a + u = b + (w + u)
  BY <1>3
<1> QED  BY <1>2, <1>4
LEMMA StepsLess ==
  ASSUME NEW a \in Int, NEW b \in Int, NEW n \in Nat, NEW u \in Nat, a = b + n * u, b < a
  PROVE  n - 1 \in Nat /\ a = (b + u) + (n - 1) * u
<1>1. n # 0
  <2>1. 0 * u = 0
    OBVIOUS
  <2>2. n = 0 => a = b
    BY <2>1
  <2> QED  BY <2>2
<1>2. PICK j \in Nat : j = n - 1
  BY <1>1
<1>3. PICK w \in Nat : w = j * u
  OBVIOUS
<1>4. n * u = w + u
  BY <1>2, <1>3
<1>5. a = b + (w + u)
  BY <1>4
<1>6. a = (b + u) + w
  <2> HIDE <1>3, <1>4
  <2> QED  BY <1>5
<1> QED  BY <1>2, <1>3, <1>6

\* The first layer goes on.
LEMMA AdvanceFirst ==
  ASSUME NEW txt, NEW rewinds, Texts(txt, rewinds), NEW s \in Ids, NEW u \in Nat, TrailsBy(txt, s, u),
         NEW pos \in Nat, pos <= Len(txt[<<s, 0>>]), NEW uxt, Wrote(txt, uxt, s, 0, pos, u)
  PROVE  TrailsBy(uxt, s, u)
<1>1. 0 \in Layers /\ \A l \in Layers : Len(txt[<<s, l>>]) \in Nat
  BY Lens
<1> SUFFICES ASSUME NEW l \in Layers
             PROVE  \E n \in Nat : Len(uxt[<<s, 0>>]) = Len(uxt[<<s, l>>]) + n * u
  BY DEF TrailsBy
<1>2. Len(uxt[<<s, 0>>]) = Left(txt, s, 0, pos, 0) + u
  BY <1>1 DEF Wrote
<1>3. CASE l = 0
  <2>1. Len(uxt[<<s, 0>>]) \in Int
    BY <1>1, <1>2 DEF Left
  <2> QED  BY <1>3, <2>1, Steps0
<1>4. CASE l # 0
  <2>1. Len(uxt[<<s, l>>]) = Left(txt, s, 0, pos, l) + 0
    BY <1>4 DEF Wrote
  <2>2. CASE pos < Len(txt[<<s, 0>>])
    <3>1. Len(uxt[<<s, 0>>]) = pos + u /\ Len(uxt[<<s, l>>]) = pos
      BY <1>2, <2>1, <2>2 DEF Left
    <3>2. pos + u = pos + 1 * u
      OBVIOUS
    <3> QED  BY <3>1, <3>2
  <2>3. CASE ~ (pos < Len(txt[<<s, 0>>]))
    <3>1. Len(uxt[<<s, 0>>]) = Len(txt[<<s, 0>>]) + u /\ Len(uxt[<<s, l>>]) = Len(txt[<<s, l>>])
      BY <1>1, <1>2, <2>1, <2>3 DEF Left
    <3>2. PICK n \in Nat : Len(txt[<<s, 0>>]) = Len(txt[<<s, l>>]) + n * u
      BY DEF TrailsBy
    <3>3. PICK a \in Int : a = Len(txt[<<s, 0>>])
      BY <1>1
    <3>4. PICK b \in Int : b = Len(txt[<<s, l>>])
      BY <1>1
    <3>5. a = b + n * u
      BY <3>2, <3>3, <3>4
    <3>6. a + u = b + (n + 1) * u /\ n + 1 \in Nat
      BY <3>5, StepsMore
    <3>7. Len(uxt[<<s, 0>>]) = a + u /\ Len(uxt[<<s, l>>]) = b
      BY <3>1, <3>3, <3>4
    <3> QED  BY <3>6, <3>7
  <2> QED  BY <2>2, <2>3
<1> QED  BY <1>3, <1>4

\* A layer that is behind follows.
LEMMA AdvanceNext ==
  ASSUME NEW txt, NEW rewinds, Texts(txt, rewinds), NEW s \in Ids, NEW u \in Nat, TrailsBy(txt, s, u),
         NEW l \in Layers, Len(txt[<<s, l>>]) < Len(txt[<<s, 0>>]),
         NEW pos \in Nat, pos >= Len(txt[<<s, l>>]), NEW uxt, Wrote(txt, uxt, s, l, pos, u)
  PROVE  TrailsBy(uxt, s, u)
<1>1. 0 \in Layers /\ \A m \in Layers : Len(txt[<<s, m>>]) \in Nat
  BY Lens
<1>2. \A m \in Layers : Left(txt, s, l, pos, m) = Len(txt[<<s, m>>])
  BY <1>1 DEF Left
<1>3. l # 0
  BY <1>1
<1>4. Len(uxt[<<s, 0>>]) = Len(txt[<<s, 0>>])
  BY <1>1, <1>2, <1>3 DEF Wrote
<1> SUFFICES ASSUME NEW m \in Layers
             PROVE  \E n \in Nat : Len(uxt[<<s, 0>>]) = Len(uxt[<<s, m>>]) + n * u
  BY DEF TrailsBy
<1>5. PICK n \in Nat : Len(txt[<<s, 0>>]) = Len(txt[<<s, m>>]) + n * u
  BY DEF TrailsBy
<1>6. CASE m # l
  <2>1. Len(uxt[<<s, m>>]) = Len(txt[<<s, m>>]) + 0
    BY <1>2, <1>6 DEF Wrote
  <2>2. Len(uxt[<<s, m>>]) = Len(txt[<<s, m>>])
    BY <1>1, <2>1
  <2> QED  BY <1>4, <1>5, <2>2
<1>7. CASE m = l
  <2>1. Len(uxt[<<s, m>>]) = Len(txt[<<s, m>>]) + u
    BY <1>2, <1>7 DEF Wrote
  <2>2. PICK a \in Int : a = Len(txt[<<s, 0>>])
    BY <1>1
  <2>3. PICK b \in Int : b = Len(txt[<<s, m>>])
    BY <1>1
  <2>4. a = b + n * u /\ b < a
    BY <1>5, <1>7, <2>2, <2>3
  <2>5. n - 1 \in Nat /\ a = (b + u) + (n - 1) * u
    BY <2>4, StepsLess
  <2>6. Len(uxt[<<s, 0>>]) = a /\ Len(uxt[<<s, m>>]) = b + u
    BY <1>4, <2>1, <2>2, <2>3
  <2> QED  BY <2>5, <2>6
<1> QED  BY <1>6, <1>7

LEMMA Flat ==
  ASSUME NEW txt, NEW rewinds, Texts(txt, rewinds), NEW s \in Ids, TrailsBy(txt, s, 0)
  PROVE  (\A l \in Layers : Len(txt[<<s, l>>]) = Len(txt[<<s, 0>>])) /\ \A u \in Nat : TrailsBy(txt, s, u)
<1>1. 0 \in Layers /\ \A m \in Layers : Len(txt[<<s, m>>]) \in Nat
  BY Lens
<1>2. ASSUME NEW l \in Layers PROVE Len(txt[<<s, l>>]) = Len(txt[<<s, 0>>])
  <2>1. PICK n \in Nat : Len(txt[<<s, 0>>]) = Len(txt[<<s, l>>]) + n * 0
    BY DEF TrailsBy
  <2>2. PICK b \in Int : b = Len(txt[<<s, l>>])
    BY <1>1
  <2>3. b = b + n * 0
    BY Steps0
  <2> QED  BY <2>1, <2>2, <2>3
<1>3. ASSUME NEW u \in Nat, NEW l \in Layers PROVE \E n \in Nat : Len(txt[<<s, 0>>]) = Len(txt[<<s, l>>]) + n * u
  <2>1. PICK b \in Int : b = Len(txt[<<s, l>>])
    BY <1>1
  <2>2. b = b + 0 * u
    BY Steps0
  <2>3. Len(txt[<<s, 0>>]) = b
    BY <1>2, <2>1
  <2> QED  BY <2>1, <2>2, <2>3
<1> QED  BY <1>2, <1>3 DEF TrailsBy

LEMMA LaggingIs ==
  ASSUME NEW k, Worded(k), NEW s \in Ids, NEW l, l = Lagging(k, s),
         l \in Layers \/ \E m \in Layers : Len(k.txt[<<s, m>>]) < Len(k.txt[<<s, 0>>])
  PROVE  l \in Layers /\ Len(k.txt[<<s, l>>]) < Len(k.txt[<<s, 0>>])
<1> DEFINE S == {m \in Layers : Rowed(k, s, m) < Rowed(k, s, 0)} \cup {NumLayers}
<1>1. S \subseteq Nat /\ S # {} /\ NumLayers \notin Layers /\ \A m \in Layers : m < NumLayers /\ m \in Nat
  BY KvAssumption DEF Layers
<1>2. PICK x \in S : \A y \in S : x <= y
  BY <1>1, LeastOf
<1>3. Min(S) = CHOOSE z \in S : \A y \in S : z <= y
  BY Zenon DEF Min
<1>4. l = Min(S)
  BY Zenon DEF Lagging
<1>5. l \in S /\ \A y \in S : l <= y
  BY <1>2, <1>3, <1>4, Zenon
<1>6. l \in Layers => Len(k.txt[<<s, l>>]) < Len(k.txt[<<s, 0>>])
  BY <1>1, <1>5 DEF Rowed
<1>7. ASSUME NEW m \in Layers, Len(k.txt[<<s, m>>]) < Len(k.txt[<<s, 0>>]) PROVE l \in Layers
  <2>1. m \in S
    BY <1>7 DEF Rowed
  <2>2. l <= m /\ l \in Nat /\ m \in Nat /\ m < NumLayers /\ NumLayers \in Nat
    BY <1>1, <1>5, <2>1, KvAssumption
  <2> QED  BY <1>5, <2>2
<1> QED  BY <1>6, <1>7

Passed(k, s, v, w) == [k EXCEPT !.pass[s] = v, !.base[s] = w]
LEMMA TakenFields ==
  ASSUME NEW k, IsKv(k), NEW s, NEW v, NEW w, NEW g, g = Passed(k, s, v, w)
  PROVE  IsKv(g) /\ Same(k, g, {"pass", "base"}) /\ g.pass = Put(k.pass, s, v)
BY Zenon DEF Passed, IsKv, Fields, Same, Put

LEMMA PassSet ==
  ASSUME NEW k, Inv(k), k.fail = "none", NEW s \in Ids, k.life[s] = "live",
         NEW g, Good(g, {}), Same(k, g, Steps), Rolls(k, g, s), g.fail \in Fails, NEW v, NEW w,
         TrailsBy(g.txt, s, Unit(v)), v # "none" => Uneven(g.txt, s),
         NEW e, e = Passed(g, s, v, w)
  PROVE  Inv(e)
<1>1. IsKv(g)
  BY DEF Good, Base
<1>2. IsKv(e) /\ Same(g, e, {"pass", "base"}) /\ e.pass = Put(g.pass, s, v)
  BY <1>1, TakenFields
<1>3. Same(g, e, Inert)
  BY <1>2 DEF Same, Inert
<1>4. Good(e, {})
  BY <1>2, <1>3, BaseInert DEF Good
<1>5. e.txt = g.txt /\ e.rewinds = g.rewinds /\ e.life = k.life /\ e.fail = g.fail /\ g.pass = k.pass
  BY <1>2 DEF Same, Fields, Steps, TierFields
<1>6. Worded(e)
  BY <1>5 DEF Worded, Rolls
<1>7. DOMAIN k.pass = Ids /\ \A q \in Ids : k.pass[q] # "none" => k.life[q] = "live"
  BY DEF Inv, PassOk
<1>8. \A q \in Ids : /\ TrailsBy(k.txt, q, Unit(k.pass[q]))
                     /\ k.pass[q] # "none" => Uneven(k.txt, q)
  BY DEF Inv, PassOk
<1>9. DOMAIN e.pass = Ids /\ e.pass[s] = v /\ \A q \in Ids \ {s} : e.pass[q] = k.pass[q]
  BY <1>2, <1>5, <1>7 DEF Put
<1>10. ASSUME NEW q \in Ids
       PROVE  TrailsBy(e.txt, q, Unit(e.pass[q])) /\ (e.pass[q] # "none" => Uneven(e.txt, q))
  <2>1. CASE q = s
    BY <1>5, <1>9, <2>1
  <2>2. CASE q # s
    <3>1. \A l \in Layers : e.txt[<<q, l>>] = k.txt[<<q, l>>]
      BY <1>5, <2>2 DEF Rolls, OthersTexts
    <3>2. 0 \in Layers
      BY KvAssumption DEF Layers
    <3>3. e.pass[q] = k.pass[q]
      BY <1>9, <2>2
    <3>4. TrailsBy(e.txt, q, Unit(e.pass[q]))
      BY <1>8, <3>1, <3>2, <3>3 DEF TrailsBy
    <3>5. e.pass[q] # "none" => Uneven(e.txt, q)
      BY <1>8, <3>1, <3>2, <3>3 DEF Uneven
    <3> QED  BY <3>4, <3>5
  <2> QED  BY <2>1, <2>2
<1>11. PassOk(e.pass, e.life, e.txt, e.fail)
  BY <1>5, <1>7, <1>9, <1>10 DEF PassOk
<1> QED  BY <1>4, <1>6, <1>11 DEF Inv

\* A step that leaves the rows alone, or fails.
LEMMA PassKept ==
  ASSUME NEW k, Inv(k), NEW g, Good(g, {}), Worded(g), g.pass = k.pass, g.life = k.life, g.fail \in Fails,
         g.fail # "none" \/ (g.txt = k.txt /\ k.fail = "none")
  PROVE  Inv(g)
BY DEF Inv, PassOk

LEMMA TakenKeeps ==
  ASSUME NEW k, Inv(k), k.fail = "none", NEW s \in Ids, k.life[s] = "live",
         NEW r, NEW l, NEW pos, NEW rows, Layered(k, r, s, l, pos, rows),
         NEW v, v # "none", Wrote(k.txt, r.k.txt, s, l, pos, rows) => TrailsBy(r.k.txt, s, Unit(v)),
         NEW w, NEW g, g = Taken(r, s, v, w)
  PROVE  Inv(g)
<1>1. /\ Good(r.k, {}) /\ Same(k, r.k, Steps) /\ Rolls(k, r.k, s) /\ r.k.fail \in Fails
      /\ r.ok /\ r.k.fail = "none" => Wrote(k.txt, r.k.txt, s, l, pos, rows)
      /\ r.ok \/ (r.k.txt = k.txt /\ r.k.rewinds = k.rewinds)
  BY DEF Layered, Trips, Fails
<1>2. CASE ~r.ok \/ r.k.fail # "none"
  <2>1. g = r.k
    BY <1>2 DEF Taken
  <2>2. r.k.pass = k.pass /\ r.k.life = k.life
    BY <1>1 DEF Same, Fields, Steps, TierFields
  <2>3. Worded(r.k)
    BY <1>1 DEF Rolls, Worded
  <2> QED  BY <1>1, <1>2, <2>1, <2>2, <2>3, PassKept
<1>3. CASE r.ok /\ r.k.fail = "none"
  <2>1. TrailsBy(r.k.txt, s, Unit(v))
    BY <1>1, <1>3
  <2>2. CASE \A m \in Layers : Rowed(r.k, s, m) = Rowed(r.k, s, 0)
    <3>1. g = Passed(r.k, s, "none", 0)
      BY <1>3, <2>2, Zenon DEF Taken, Passed
    <3>2. TrailsBy(r.k.txt, s, Unit("none"))
      <4>1. Texts(r.k.txt, r.k.rewinds)
        BY <1>1 DEF Rolls
      <4>2. 0 \in Layers /\ \A m \in Layers : Len(r.k.txt[<<s, m>>]) \in Nat
        BY <4>1, Lens
      <4>3. \A m \in Layers : Len(r.k.txt[<<s, 0>>]) = Len(r.k.txt[<<s, m>>]) + 0 * 0
        BY <2>2, <4>2 DEF Rowed
      <4>4. Unit("none") = 0
        BY DEF Unit
      <4>5. ASSUME NEW m \in Layers
            PROVE  \E n \in Nat : Len(r.k.txt[<<s, 0>>]) = Len(r.k.txt[<<s, m>>]) + n * 0
        <5>1. Len(r.k.txt[<<s, 0>>]) = Len(r.k.txt[<<s, m>>]) + 0 * 0 /\ 0 \in Nat
          BY <4>3
        <5> QED  BY <5>1
      <4>6. TrailsBy(r.k.txt, s, 0)
        BY <4>5 DEF TrailsBy
      <4> QED  BY <4>4, <4>6
    <3> QED  BY <1>1, <3>1, <3>2, PassSet
  <2>3. CASE ~ \A m \in Layers : Rowed(r.k, s, m) = Rowed(r.k, s, 0)
    <3>1. g = Passed(r.k, s, v, w)
      BY <1>3, <2>3, Zenon DEF Taken, Passed
    <3>2. Uneven(r.k.txt, s)
      BY <2>3 DEF Rowed, Uneven
    <3> QED  BY <1>1, <2>1, <3>1, <3>2, PassSet
  <2> QED  BY <2>2, <2>3
<1> QED  BY <1>2, <1>3

-------------------------------------------------------------------------------
(* The attention steps.                                                    *)

LEMMA InvParts ==
  ASSUME NEW k, Inv(k), k.fail = "none", NEW s \in Ids
  PROVE  /\ Good(k, {}) /\ Worded(k) /\ Texts(k.txt, k.rewinds)
         /\ TrailsBy(k.txt, s, Unit(k.pass[s]))
         /\ k.pass[s] # "none" => k.life[s] = "live" /\ Uneven(k.txt, s)
         /\ k.life[s] \in {"live", "holder"} => s \in Held(k)
BY DEF Inv, PassOk, Worded, Held

\* A layer is behind the first if the layers are uneven.
LEMMA Behindhand ==
  ASSUME NEW txt, NEW rewinds, Texts(txt, rewinds), NEW s \in Ids, NEW u \in Nat, TrailsBy(txt, s, u), Uneven(txt, s)
  PROVE  \E m \in Layers : Len(txt[<<s, m>>]) < Len(txt[<<s, 0>>])
<1>1. 0 \in Layers /\ \A m \in Layers : Len(txt[<<s, m>>]) \in Nat
  BY Lens
<1>2. PICK m \in Layers : Len(txt[<<s, m>>]) # Len(txt[<<s, 0>>])
  BY DEF Uneven
<1>3. PICK n \in Nat : Len(txt[<<s, 0>>]) = Len(txt[<<s, m>>]) + n * u
  BY DEF TrailsBy
<1>4. PICK w \in Nat : w = n * u
  OBVIOUS
<1>5. PICK a \in Nat : a = Len(txt[<<s, 0>>])
  BY <1>1
<1>6. PICK b \in Nat : b = Len(txt[<<s, m>>])
  BY <1>1
<1>7. a = b + w /\ a # b
  BY <1>2, <1>3, <1>4, <1>5, <1>6
<1>8. b < a
  BY <1>7
<1> QED  BY <1>5, <1>6, <1>8

LEMMA DecodeKeeps ==
  ASSUME Inv(kv), kv.fail = "none", NEW s \in Ids, decode(s)
  PROVE  Inv(kv')
<1>1. /\ Good(kv, {}) /\ Worded(kv) /\ Texts(kv.txt, kv.rewinds)
      /\ TrailsBy(kv.txt, s, Unit(kv.pass[s]))
      /\ kv.pass[s] # "none" => kv.life[s] = "live" /\ Uneven(kv.txt, s)
      /\ kv.life[s] \in {"live", "holder"} => s \in Held(kv)
  BY InvParts
<1>2. 0 \in Layers /\ \A l \in Layers : Len(kv.txt[<<s, l>>]) \in Nat
  BY <1>1, Lens
<1>3. Unit("decode") = 1 /\ Unit("none") = 0 /\ 1 \in Nat
  BY DEF Unit
<1>4. CASE /\ Idle(kv, s)
           /\ \E pos \in {Rowed(kv, s, 0)} \cup Rewinds(s) :
                pos < MaxPages * PageSize /\ kv' = Taken(decode_layer(kv, s, 0, pos), s, "decode", 0)
  <2>1. PICK pos \in {Rowed(kv, s, 0)} \cup Rewinds(s) : kv' = Taken(decode_layer(kv, s, 0, pos), s, "decode", 0)
    BY <1>4
  <2>2. kv.life[s] = "live" /\ kv.pass[s] = "none" /\ s \in Held(kv)
    BY <1>1, <1>4 DEF Idle
  <2>3. pos \in Nat /\ pos <= Len(kv.txt[<<s, 0>>])
    <3>1. CASE pos = Rowed(kv, s, 0)
      BY <1>2, <3>1 DEF Rowed
    <3>2. CASE pos \in Rewinds(s)
      <4>1. pos \in RewindTo /\ pos \in kv.floor[s]..(Rowed(kv, s, 0) - 1)
        BY <3>2 DEF Rewinds
      <4>2. pos \in Nat /\ pos <= Rowed(kv, s, 0) - 1
        BY <4>1, KvAssumption
      <4> QED  BY <1>2, <4>2 DEF Rowed
    <3> QED  BY <2>1, <3>1, <3>2
  <2>4. (\A l \in Layers : Len(kv.txt[<<s, l>>]) = Len(kv.txt[<<s, 0>>])) /\ TrailsBy(kv.txt, s, 1)
    BY <1>1, <1>3, <2>2, Flat
  <2>5. MayCut(kv.txt, s, 0, pos)
    BY <2>3, <2>4 DEF MayCut
  <2>6. PICK r : r = decode_layer(kv, s, 0, pos)
    OBVIOUS
  <2>7. Layered(kv, r, s, 0, pos, 1)
    BY <1>1, <1>2, <2>2, <2>3, <2>5, <2>6, DecodeLayered
  <2>8. Wrote(kv.txt, r.k.txt, s, 0, pos, 1) => TrailsBy(r.k.txt, s, 1)
    BY <1>1, <1>3, <2>3, <2>4, AdvanceFirst
  <2>9. "decode" # "none"
    OBVIOUS
  <2> QED  BY <1>3, <2>1, <2>2, <2>6, <2>7, <2>8, <2>9, TakenKeeps
<1>5. CASE /\ kv.pass[s] = "decode"
           /\ kv' = Taken(decode_layer(kv, s, Lagging(kv, s), Rowed(kv, s, 0) - 1), s, "decode", 0)
  <2>1. kv.life[s] = "live" /\ s \in Held(kv) /\ TrailsBy(kv.txt, s, 1) /\ Uneven(kv.txt, s)
    BY <1>1, <1>3, <1>5
  <2>2. PICK l : l = Lagging(kv, s)
    OBVIOUS
  <2>3. \E m \in Layers : Len(kv.txt[<<s, m>>]) < Len(kv.txt[<<s, 0>>])
    BY <1>1, <1>3, <2>1, Behindhand
  <2>4. l \in Layers /\ Len(kv.txt[<<s, l>>]) < Len(kv.txt[<<s, 0>>])
    BY <1>1, <2>2, <2>3, LaggingIs
  <2>5. PICK pos : pos = Rowed(kv, s, 0) - 1
    OBVIOUS
  <2>6. pos \in Nat /\ pos >= Len(kv.txt[<<s, l>>])
    BY <1>2, <2>4, <2>5 DEF Rowed
  <2>7. MayCut(kv.txt, s, l, pos)
    BY <1>2, <2>4, <2>6 DEF MayCut
  <2>8. PICK r : r = decode_layer(kv, s, l, pos)
    OBVIOUS
  <2>9. Layered(kv, r, s, l, pos, 1)
    BY <1>1, <2>1, <2>4, <2>6, <2>7, <2>8, DecodeLayered
  <2>10. Wrote(kv.txt, r.k.txt, s, l, pos, 1) => TrailsBy(r.k.txt, s, 1)
    BY <1>1, <1>3, <2>1, <2>4, <2>6, AdvanceNext
  <2>11. "decode" # "none" /\ kv' = Taken(r, s, "decode", 0)
    BY <1>5, <2>2, <2>5, <2>8
  <2> QED  BY <1>3, <2>1, <2>9, <2>10, <2>11, TakenKeeps
<1> QED  BY <1>4, <1>5 DEF decode

LEMMA PrefillKeeps ==
  ASSUME Inv(kv), kv.fail = "none", NEW s \in Ids, NEW pass \in {"chunk", "dense"}, prefill(s, pass)
  PROVE  Inv(kv')
<1>1. /\ Good(kv, {}) /\ Worded(kv) /\ Texts(kv.txt, kv.rewinds)
      /\ TrailsBy(kv.txt, s, Unit(kv.pass[s]))
      /\ kv.pass[s] # "none" => kv.life[s] = "live" /\ Uneven(kv.txt, s)
      /\ kv.life[s] \in {"live", "holder"} => s \in Held(kv)
  BY InvParts
<1>2. 0 \in Layers /\ \A l \in Layers : Len(kv.txt[<<s, l>>]) \in Nat
  BY <1>1, Lens
<1>3. Unit(pass) = Chunk /\ Unit("none") = 0 /\ Chunk \in Nat /\ pass # "none"
  BY KvAssumption DEF Unit
<1>4. PICK l \in Layers :
        /\ \/ l = 0 /\ NextChunk(s, pass)
           \/ l > 0 /\ kv.pass[s] = pass /\ l = Lagging(kv, s)
        /\ LET pos  == Rowed(kv, s, l)
               base == IF Idle(kv, s) THEN pos ELSE kv.base[s]
           IN kv' = Taken(chunk_layer(kv, s, l, pos, pass), s, pass, base)
  BY Zenon DEF prefill
<1>5. PICK pos : pos = Rowed(kv, s, l)
  OBVIOUS
<1>6. PICK w : w = IF Idle(kv, s) THEN pos ELSE kv.base[s]
  OBVIOUS
<1>7. PICK r : r = chunk_layer(kv, s, l, pos, pass)
  OBVIOUS
<1>8. kv' = Taken(r, s, pass, w)
  BY <1>4, <1>5, <1>6, <1>7, Zenon
<1>9. pos \in Nat /\ pos = Len(kv.txt[<<s, l>>]) /\ MayCut(kv.txt, s, l, pos)
  BY <1>2, <1>5 DEF Rowed, MayCut
<1>10. CASE l = 0 /\ NextChunk(s, pass)
  <2>1. Idle(kv, s) \/ (pass = "chunk" /\ kv.pass[s] = "chunk")
    BY <1>10 DEF NextChunk
  <2>2. kv.life[s] = "live" /\ s \in Held(kv)
    BY <1>1, <2>1 DEF Idle
  <2>3. TrailsBy(kv.txt, s, Chunk)
    <3>1. CASE Idle(kv, s)
      BY <1>1, <1>3, <3>1, Flat DEF Idle
    <3>2. CASE kv.pass[s] = pass
      BY <1>1, <1>3, <3>2
    <3> QED  BY <2>1, <3>1, <3>2
  <2>4. Layered(kv, r, s, 0, pos, Chunk)
    BY <1>1, <1>2, <1>7, <1>9, <1>10, <2>2, ChunkLayered
  <2>5. Wrote(kv.txt, r.k.txt, s, 0, pos, Chunk) => TrailsBy(r.k.txt, s, Chunk)
    BY <1>1, <1>3, <1>9, <1>10, <2>3, AdvanceFirst
  <2> QED  BY <1>3, <1>8, <2>2, <2>4, <2>5, TakenKeeps
<1>11. CASE l > 0 /\ kv.pass[s] = pass /\ l = Lagging(kv, s)
  <2>1. kv.life[s] = "live" /\ s \in Held(kv) /\ TrailsBy(kv.txt, s, Chunk)
    BY <1>1, <1>3, <1>11
  <2>2. Len(kv.txt[<<s, l>>]) < Len(kv.txt[<<s, 0>>])
    BY <1>1, <1>11, LaggingIs
  <2>3. Layered(kv, r, s, l, pos, Chunk)
    BY <1>1, <1>7, <1>9, <2>1, ChunkLayered
  <2>4. Wrote(kv.txt, r.k.txt, s, l, pos, Chunk) => TrailsBy(r.k.txt, s, Chunk)
    <3>1. pos >= Len(kv.txt[<<s, l>>])
      BY <1>9
    <3> QED  BY <1>1, <1>3, <1>9, <2>1, <2>2, <3>1, AdvanceNext
  <2> QED  BY <1>3, <1>8, <2>1, <2>3, <2>4, TakenKeeps
<1> QED  BY <1>4, <1>10, <1>11

-------------------------------------------------------------------------------
(* A sequence is freed.                                                    *)

NotPending(k, s) == k.pend.seq # s
LEMMA DiscardKeeps ==
  ASSUME NEW k, NEW D, Good(k, D), NEW s \in Ids, NEW g, g = discard_pending(k, s)
  PROVE  Good(g, D) /\ Stays(k, g) /\ NotPending(g, s)
<1>1. CASE k.pend.seq = s
  <2>1. g = [k EXCEPT !.pend = NoPend]
    BY <1>1 DEF discard_pending
  <2>2. Good(g, D) /\ Stays(k, g) /\ NoBatch(g)
    BY <2>1, DropKeeps
  <2>3. g.pend.seq = 0
    BY <2>2 DEF Good, Base, PendOk, NoBatch
  <2> QED  BY <2>2, <2>3, KvAssumption DEF Ids, NotPending
<1>2. CASE k.pend.seq # s
  <2>1. g = k
    BY <1>2 DEF discard_pending
  <2> QED  BY <1>2, <2>1, StaysSelf DEF NotPending
<1> QED  BY <1>1, <1>2

Uncache(cache, s) == [y \in DOMAIN cache |-> IF y[1] = s THEN Blank ELSE cache[y]]
Cleared(k, m, s) ==
  [m EXCEPT !.st = With(@, HotAt(Of(s))), !.cache = Uncache(@, s),
            !.total = @ - k.demoted[s], !.spilled_total = @ - k.file[s],
            !.seen[s] = 0, !.frontier[s] = 0, !.demoted[s] = 0, !.flying[s] = 0, !.used[s] = 0,
            !.hibernated[s] = "no", !.file[s] = 0]
Reduced(a, b) == a - b
ClearFields == {"st", "cache", "total", "spilled_total", "seen", "frontier", "demoted", "flying",
                "used", "hibernated", "file"}
ClearsTo(k, m, s, g) == IsKv(m) /\ g = Cleared(k, m, s)
LEMMA ClearedFields ==
  ASSUME NEW k, NEW m, NEW s, NEW g, ClearsTo(k, m, s, g)
  PROVE  /\ IsKv(g) /\ Same(m, g, ClearFields)
         /\ g.st = With(m.st, HotAt(Of(s))) /\ g.total = Reduced(m.total, k.demoted[s])
         /\ g.spilled_total = Reduced(m.spilled_total, k.file[s]) /\ g.seen = Put(m.seen, s, 0)
         /\ g.frontier = Put(m.frontier, s, 0) /\ g.demoted = Put(m.demoted, s, 0)
         /\ g.flying = Put(m.flying, s, 0) /\ g.used = Put(m.used, s, 0)
         /\ g.hibernated = Put(m.hibernated, s, "no") /\ g.file = Put(m.file, s, 0)
BY Zenon DEF ClearsTo, Cleared, Reduced, ClearFields, IsKv, Fields, Same, Put
LEMMA ReleaseIs ==
  ASSUME NEW k, NEW s
  PROVE  release_seq(k, s) = Cleared(k, release_cold_slot(k, Copies(k, Of(s))), s)
BY Zenon DEF release_seq, Cleared, HotAt, Uncache

\* All pages of s are hot: nothing is counted.
LEMMA HotCounts ==
  ASSUME NEW tt, NEW s \in Ids, \A x \in Of(s) : tt[x].tier = "hot"
  PROVE  SeqCounts(tt, s, 0, 0, 0, 0, 0)
<1>1. /\ Tier(tt, s, Lower) = {} /\ Tier(tt, s, {"inflight"}) = {} /\ Tier(tt, s, Slotted) = {}
      /\ Tier(tt, s, {"spilled"}) = {}
  BY DEF Tier, Lower, Slotted
<1>2. Cardinality({}) = 0
  BY FS_EmptySet
<1>3. LastEnd(0, {})
  BY DEF LastEnd
<1> QED  BY <1>1, <1>2, <1>3 DEF SeqCounts

AllHot(k, s) == \A x \in Of(s) : k.st[x].tier = "hot" /\ k.st[x].slot = 0
\* What releasing and freeing may change.
Releases == TierFields \cup {"seen", "hibernated", "num"}
Bare(k, s) == AllHot(k, s) /\ NotPending(k, s) /\ k.seen[s] = 0 /\ k.hibernated[s] = "no"
\* The other sequences keep what they have.
Alone(k, g, s) ==
  /\ g.pend = k.pend /\ \A x \in Cells \ Of(s) : g.st[x] = k.st[x]
  /\ \A q \in Ids \ {s} : g.seen[q] = k.seen[q] /\ g.num[q] = k.num[q]
LEMMA ReleaseKeeps ==
  ASSUME NEW k, NEW D, Good(k, D), NEW s \in Ids, Steady(k, s), NotPending(k, s),
         NEW g, g = release_seq(k, s)
  PROVE  Good(g, D) /\ Same(k, g, Releases) /\ Bare(g, s) /\ Alone(k, g, s)
<1> USE DEF Good
<1>1. IsKv(k) /\ EntriesOk(k.st, k.pg)
  BY DEF Base
<1>2. PICK m : m = release_cold_slot(k, Copies(k, Of(s)))
  OBVIOUS
<1>3. PICK tt : tt = With(k.st, HotAt(Of(s)))
  OBVIOUS
<1>4. Of(s) \subseteq Cells /\ DOMAIN k.st = Cells
  BY <1>1, CellParts DEF EntriesOk
<1>5. /\ DOMAIN tt = Cells
      /\ \A x \in Of(s) : tt[x].tier = "hot" /\ tt[x].slot = 0
      /\ \A x \in Cells \ Of(s) : tt[x] = k.st[x]
  <2>1. PICK b : b = HotAt(Of(s))
    OBVIOUS
  <2>2. DOMAIN b = Of(s) /\ \A x \in Of(s) : b[x].tier = "hot" /\ b[x].slot = 0
    BY <2>1, HotAtIs
  <2>3. tt = With(k.st, b)
    BY <1>3, <2>1
  <2> QED  BY <1>4, <2>2, <2>3, WithIs
<1>6. Tallies(Copies(k, Of(s)), Slots, SlotOf(k.st), Of(s))
  BY <1>4, HandlesCopies
<1>7. Moves(SlotOf(k.st), SlotOf(tt), Of(s)) /\ Without(Slots, SlotOf(tt), Of(s))
  BY <1>4, <1>5, PagesPositive DEF Moves, Without, SlotOf
<1>8. Covered(k.cold_ref, Copies(k, Of(s))) /\ Counted(Less(k.cold_ref, Copies(k, Of(s))), Slots, SlotOf(tt))
  BY <1>6, <1>7, LessCovered DEF Base
<1>9. IsKv(m) /\ Same(k, m, {"cold_ref", "cold"}) /\ m.cold_ref = Less(k.cold_ref, Copies(k, Of(s)))
  BY <1>1, <1>2, <1>8, ReleaseFields
<1>10. ClearsTo(k, m, s, g)
  BY <1>2, <1>9, ReleaseIs DEF ClearsTo
<1>11. /\ IsKv(g) /\ Same(m, g, ClearFields)
       /\ g.st = With(m.st, HotAt(Of(s))) /\ g.total = Reduced(m.total, k.demoted[s])
       /\ g.spilled_total = Reduced(m.spilled_total, k.file[s]) /\ g.seen = Put(m.seen, s, 0)
       /\ g.frontier = Put(m.frontier, s, 0) /\ g.demoted = Put(m.demoted, s, 0)
       /\ g.flying = Put(m.flying, s, 0) /\ g.used = Put(m.used, s, 0)
       /\ g.hibernated = Put(m.hibernated, s, "no") /\ g.file = Put(m.file, s, 0)
  BY <1>10, ClearedFields
<1>12. /\ m.st = k.st /\ m.total = k.total /\ m.spilled_total = k.spilled_total /\ m.seen = k.seen
       /\ m.frontier = k.frontier /\ m.demoted = k.demoted /\ m.flying = k.flying /\ m.used = k.used
       /\ m.hibernated = k.hibernated /\ m.file = k.file
       /\ g.ref = k.ref /\ g.pg = k.pg /\ g.num = k.num /\ g.life = k.life
       /\ g.pend = k.pend /\ g.stream = k.stream /\ g.landed = k.landed /\ g.cold_ref = m.cold_ref
  BY <1>9, <1>11 DEF Same, Fields, ClearFields
<1>13. g.st = tt
  BY <1>3, <1>11, <1>12
<1>14. Same(k, g, Releases)
  BY <1>9, <1>11 DEF Same, Releases, TierFields, ClearFields
<1>15. EntriesOk(g.st, g.pg)
  BY <1>1, <1>4, <1>5, <1>12, <1>13, KvAssumption DEF EntriesOk, Tiers, Slotted
<1>16. CountsOk(k.st, k.demoted, k.flying, k.used, k.frontier, k.file)
  BY DEF Base
<1>17. CountsOk(g.st, g.demoted, g.flying, g.used, g.frontier, g.file)
  <2>1. SeqCounts(tt, s, 0, 0, 0, 0, 0)
    BY <1>5, HotCounts
  <2>2. OnlyOf(k.st, tt, s)
    BY <1>4, <1>5, CellParts DEF OnlyOf
  <2>3. CountsOk(tt, Put(k.demoted, s, 0), Put(k.flying, s, 0), Put(k.used, s, 0), Put(k.frontier, s, 0), Put(k.file, s, 0))
    BY <1>16, <2>1, <2>2, CountsChange
  <2> QED  BY <1>11, <1>12, <1>13, <2>3
<1>18. TotalsOk(g.total, g.demoted, g.spilled_total, g.file)
  <2>1. TotalsOk(k.total, k.demoted, k.spilled_total, k.file)
    BY DEF Base
  <2>2. k.demoted \in [Ids -> Int] /\ k.file \in [Ids -> Int] /\ k.demoted[s] \in Int /\ k.file[s] \in Nat
    BY <1>16 DEF CountsOk, SeqCounts
  <2>3. k.spilled_total \in Int /\ k.total \in Int /\ k.spilled_total <= SpillCap
    BY <2>1, <2>2, TotalsTyped DEF TotalsOk
  <2>4. PICK d \in Int : d = 0
    OBVIOUS
  <2>5. g.total = k.total + d - k.demoted[s] /\ g.spilled_total = k.spilled_total + d - k.file[s]
    BY <1>11, <1>12, <2>2, <2>3, <2>4 DEF Reduced
  <2>6. g.spilled_total <= SpillCap
    BY <2>2, <2>3, <2>4, <2>5, KvAssumption
  <2>7. TotalsOk(g.total, Put(k.demoted, s, d), g.spilled_total, Put(k.file, s, d))
    BY <2>1, <2>2, <2>5, <2>6, TotalsChange
  <2> QED  BY <1>11, <1>12, <2>4, <2>7
<1>19. PendOk(g.pend, g.st, g.pg)
  <2>1. HotKept(k.st, k.pg, g.st, g.pg)
    BY <1>5, <1>12, <1>13 DEF HotKept
  <2> QED  BY <1>12, <2>1, PendKept DEF Base
<1>20. FlightOk(g.landed, g.stream, g.st, g.pg)
  <2>1. FlightKept(k.st, k.pg, g.st, g.pg)
    BY <1>5, <1>12, <1>13 DEF FlightKept, Steady
  <2> QED  BY <1>12, <2>1, FlightSame DEF Base
<1>21. NumberedOk(g.num, g.st, g.pg, D) /\ DormantOk(g.life, g.num, g.st, g.pg, k.hibernated, k.seen, D)
  <2>1. NoNew(k.st, k.pg, g.st, g.pg)
    BY <1>5, <1>12, <1>13 DEF NoNew, Owned
  <2> QED  BY <1>12, <2>1, OwnedKept DEF Base
<1>22. /\ DOMAIN g.hibernated = Ids /\ g.seen \in [Ids -> Nat] /\ g.seen[s] = 0 /\ g.hibernated[s] = "no"
       /\ \A q \in Ids \ {s} : g.seen[q] = k.seen[q] /\ g.hibernated[q] = k.hibernated[q]
  BY <1>11, <1>12, <1>21 DEF Put, DormantOk
<1>23. DormantOk(g.life, g.num, g.st, g.pg, g.hibernated, g.seen, D)
  BY <1>21, <1>22 DEF DormantOk
<1>24. Bare(g, s)
  BY <1>5, <1>12, <1>13, <1>22 DEF Bare, AllHot, NotPending
<1>25. Counted(g.ref, Pages, g.pg) /\ Counted(g.cold_ref, Slots, SlotOf(g.st))
  BY <1>8, <1>9, <1>12, <1>13 DEF Base
<1>26. Alone(k, g, s)
  BY <1>5, <1>12, <1>13, <1>22 DEF Alone
<1> QED  BY <1>11, <1>14, <1>15, <1>17, <1>18, <1>19, <1>20, <1>21, <1>23, <1>24, <1>25, <1>26 DEF Base

LEMMA FreeFields ==
  ASSUME NEW k, IsKv(k), NEW s, NEW g, g = free_handles(k, s)
  PROVE  /\ IsKv(g) /\ Same(k, g, {"ref", "vram", "pg", "num"})
         /\ g.ref = Less(k.ref, Handles(k, Of(s))) /\ g.pg = With(k.pg, Gone(Of(s))) /\ g.num = Put(k.num, s, 0)
BY Zenon DEF free_handles, free, IsKv, Fields, Same, Put, Gone

LEMMA GoneIs ==
  ASSUME NEW X
  PROVE  DOMAIN Gone(X) = X /\ \A x \in X : Gone(X)[x] = Neutral
BY DEF Gone

\* s has nothing any more.
Void(k, s) == /\ \A x \in Of(s) : ~ Owned(k.st, k.pg, x)
              /\ k.num[s] = 0 /\ k.seen[s] = 0 /\ k.hibernated[s] = "no"
LEMMA FreeKeeps ==
  ASSUME NEW k, NEW D, Good(k, D), NEW s \in Ids, Bare(k, s), NEW g, g = free_handles(k, s)
  PROVE  Good(g, D) /\ Same(k, g, Releases) /\ Void(g, s) /\ Alone(k, g, s)
<1> USE DEF Good
<1>1. IsKv(k) /\ EntriesOk(k.st, k.pg)
  BY DEF Base
<1>2. /\ IsKv(g) /\ Same(k, g, {"ref", "vram", "pg", "num"})
      /\ g.ref = Less(k.ref, Handles(k, Of(s))) /\ g.pg = With(k.pg, Gone(Of(s))) /\ g.num = Put(k.num, s, 0)
  BY <1>1, FreeFields
<1>3. Of(s) \subseteq Cells /\ k.pg \in [Cells -> 0..VramPages] /\ DOMAIN k.pg = Cells
  BY <1>1, CellParts DEF EntriesOk
<1>4. /\ \A x \in Of(s) : g.pg[x] = Neutral
      /\ \A x \in Cells \ Of(s) : g.pg[x] = k.pg[x]
      /\ g.pg \in [Cells -> 0..VramPages]
  <2>1. PICK b : b = Gone(Of(s))
    OBVIOUS
  <2>2. DOMAIN b = Of(s) /\ \A x \in Of(s) : b[x] = Neutral
    BY <2>1, GoneIs
  <2>3. g.pg = With(k.pg, b)
    BY <1>2, <2>1
  <2>4. \A x \in DOMAIN b : b[x] \in 0..VramPages
    BY <2>2, KvAssumption DEF Neutral
  <2>5. g.pg \in [Cells -> 0..VramPages]
    BY <1>3, <2>3, <2>4, WithTyped
  <2> QED  BY <1>3, <2>2, <2>3, <2>5, WithIs
<1>5. /\ g.cold_ref = k.cold_ref /\ g.life = k.life
      /\ g.st = k.st /\ g.seen = k.seen /\ g.frontier = k.frontier /\ g.demoted = k.demoted
      /\ g.flying = k.flying /\ g.used = k.used /\ g.hibernated = k.hibernated /\ g.file = k.file
      /\ g.pend = k.pend /\ g.stream = k.stream /\ g.landed = k.landed
      /\ g.spilled_total = k.spilled_total /\ g.total = k.total
  BY <1>2 DEF Same, Fields
<1>6. Same(k, g, Releases)
  BY <1>2 DEF Same, Releases, TierFields
<1>7. EntriesOk(g.st, g.pg)
  BY <1>1, <1>3, <1>4, <1>5 DEF EntriesOk
<1>8. Counted(g.ref, Pages, g.pg)
  <2>1. Tallies(Handles(k, Of(s)), Pages, k.pg, Of(s))
    BY <1>3, HandlesCopies
  <2>2. Moves(k.pg, g.pg, Of(s)) /\ Without(Pages, g.pg, Of(s))
    BY <1>3, <1>4, PagesPositive DEF Moves, Without
  <2>3. Counted(k.ref, Pages, k.pg)
    BY DEF Base
  <2> QED  BY <1>2, <2>1, <2>2, <2>3, CountLess
<1>9. PendOk(g.pend, g.st, g.pg)
  <2>1. PendOk(k.pend, k.st, k.pg) /\ k.pend.seq # s
    BY DEF Base, Bare, NotPending
  <2>2. \A i \in k.pend.items : i.x \in Cells \ Of(s)
    BY <2>1, CellParts DEF PendOk, Todo
  <2> QED  BY <1>4, <1>5, <2>1, <2>2 DEF PendOk
<1>10. FlightOk(g.landed, g.stream, g.st, g.pg)
  <2>1. FlightKept(k.st, k.pg, g.st, g.pg)
    BY <1>4, <1>5 DEF FlightKept, Bare, AllHot
  <2> QED  BY <1>5, <2>1, FlightSame DEF Base
<1>11. \A x \in Of(s) : ~ Owned(g.st, g.pg, x)
  BY <1>4, <1>5 DEF Owned, Bare, AllHot
<1>12. NoNew(k.st, k.pg, g.st, g.pg)
  BY <1>4, <1>5, <1>11 DEF NoNew, Owned
<1>13. NumberedOk(k.num, g.st, g.pg, D) /\ DormantOk(g.life, k.num, g.st, g.pg, g.hibernated, g.seen, D)
  BY <1>5, <1>12, OwnedKept DEF Base
<1>14. /\ g.num \in [Ids -> 0..MaxPages] /\ g.num[s] = 0
       /\ \A q \in Ids \ {s} : g.num[q] = k.num[q]
  BY <1>2, <1>13, KvAssumption DEF NumberedOk, Put
<1>15. NumberedOk(g.num, g.st, g.pg, D)
  BY <1>11, <1>13, <1>14, CellParts DEF NumberedOk
<1>16. DormantOk(g.life, g.num, g.st, g.pg, g.hibernated, g.seen, D)
  BY <1>13, <1>14 DEF DormantOk
<1>17. Void(g, s)
  BY <1>5, <1>11, <1>14 DEF Void, Bare
<1>18. /\ Counted(g.cold_ref, Slots, SlotOf(g.st))
       /\ CountsOk(g.st, g.demoted, g.flying, g.used, g.frontier, g.file)
       /\ TotalsOk(g.total, g.demoted, g.spilled_total, g.file)
  BY <1>5 DEF Base
<1>19. Alone(k, g, s)
  BY <1>5, <1>14 DEF Alone
<1> QED  BY <1>2, <1>6, <1>7, <1>8, <1>9, <1>10, <1>15, <1>16, <1>17, <1>18, <1>19 DEF Base

Emptied(txt, s) == [y \in DOMAIN txt |-> IF y[1] = s THEN <<>> ELSE txt[y]]
LEMMA ErasedFields ==
  ASSUME NEW k, IsKv(k), NEW s, NEW life, NEW g, g = Erased(k, s, life)
  PROVE  /\ IsKv(g) /\ Same(k, g, {"life", "pass", "base", "floor", "rewinds", "txt"})
         /\ g.life = Put(k.life, s, life) /\ g.pass = Put(k.pass, s, "none") /\ g.rewinds = Put(k.rewinds, s, 0)
         /\ g.txt = Emptied(k.txt, s) /\ g.base = Put(k.base, s, 0)
BY Zenon DEF Erased, IsKv, Fields, Same, Put, Emptied

LEMMA ErasedKeeps ==
  ASSUME NEW k, NEW s \in Ids, NEW D \in SUBSET {s}, Good(k, D), Void(k, s), NEW life,
         NEW g, g = Erased(k, s, life)
  PROVE  Good(g, {})
<1> USE DEF Good
<1>1. IsKv(k)
  BY DEF Base
<1>2. /\ IsKv(g) /\ Same(k, g, {"life", "pass", "base", "floor", "rewinds", "txt"})
      /\ g.life = Put(k.life, s, life)
  BY <1>1, ErasedFields
<1>3. /\ g.ref = k.ref /\ g.cold_ref = k.cold_ref /\ g.pg = k.pg /\ g.num = k.num
      /\ g.st = k.st /\ g.seen = k.seen /\ g.frontier = k.frontier /\ g.demoted = k.demoted
      /\ g.flying = k.flying /\ g.used = k.used /\ g.hibernated = k.hibernated /\ g.file = k.file
      /\ g.pend = k.pend /\ g.stream = k.stream /\ g.landed = k.landed
      /\ g.spilled_total = k.spilled_total /\ g.total = k.total
  BY <1>2 DEF Same, Fields
<1>4. /\ NumberedOk(k.num, k.st, k.pg, D)
      /\ DormantOk(k.life, k.num, k.st, k.pg, k.hibernated, k.seen, D)
  BY DEF Base
<1>5. DOMAIN g.life = Ids /\ \A q \in Ids \ {s} : g.life[q] = k.life[q]
  BY <1>2, <1>4 DEF Put, DormantOk
<1>6. \A x \in Cells : Owned(k.st, k.pg, x) => x[1] \in Ids \ {s} /\ x[1] \notin D
  BY CellParts DEF Void
<1>7. NumberedOk(g.num, g.st, g.pg, {})
  BY <1>3, <1>4, <1>6 DEF NumberedOk
<1>8. DormantOk(g.life, g.num, g.st, g.pg, g.hibernated, g.seen, {})
  BY <1>3, <1>4, <1>5, <1>6 DEF DormantOk, Void
<1> QED  BY <1>2, <1>3, <1>7, <1>8 DEF Base

\* The sequence ends: its pages and slots are free, its rows forgotten.
Forgotten(k, g, s, life) ==
  /\ g.life = Put(k.life, s, life) /\ g.pass = Put(k.pass, s, "none") /\ g.rewinds = Put(k.rewinds, s, 0)
  /\ g.txt = Emptied(k.txt, s) /\ g.fail = k.fail
LEMMA EndedKeeps ==
  ASSUME NEW k, NEW s \in Ids, NEW D \in SUBSET {s}, Good(k, D), NEW life,
         NEW g, g = Ended(k, s, life)
  PROVE  Good(g, {}) /\ Forgotten(k, g, s, life)
<1>1. PICK a : a = discard_pending(k, s)
  OBVIOUS
<1>2. Good(a, D) /\ Stays(k, a) /\ NotPending(a, s)
  BY <1>1, DiscardKeeps
<1>3. PICK b : b = settled(a, s)
  OBVIOUS
<1>4. Good(b, D) /\ Stays(a, b) /\ Steady(b, s) /\ NotPending(b, s)
  BY <1>2, <1>3, SettledKeeps DEF NotPending
<1>5. PICK c : c = release_seq(b, s)
  OBVIOUS
<1>6. Good(c, D) /\ Same(b, c, Releases) /\ Bare(c, s)
  BY <1>4, <1>5, ReleaseKeeps
<1>7. PICK d : d = free_handles(c, s)
  OBVIOUS
<1>8. Good(d, D) /\ Same(c, d, Releases) /\ Void(d, s)
  BY <1>6, <1>7, FreeKeeps
<1>9. g = Erased(d, s, life)
  BY <1>1, <1>3, <1>5, <1>7, Zenon DEF Ended, on_seq_free
<1>10. Good(g, {})
  BY <1>8, <1>9, ErasedKeeps
<1>11. d.life = k.life /\ d.pass = k.pass /\ d.rewinds = k.rewinds /\ d.txt = k.txt /\ d.fail = k.fail
  BY <1>2, <1>4, <1>6, <1>8 DEF Same, Stays, Fields, TierFields, Releases
<1>12. IsKv(d)
  BY <1>8 DEF Good, Base
<1>13. /\ g.life = Put(d.life, s, life) /\ g.pass = Put(d.pass, s, "none") /\ g.rewinds = Put(d.rewinds, s, 0)
       /\ g.txt = Emptied(d.txt, s) /\ g.fail = d.fail
  BY <1>9, <1>12, ErasedFields DEF Same, Fields
<1> QED  BY <1>10, <1>11, <1>13 DEF Forgotten

\* The other sequences are in order.
Others(k, s) ==
  /\ DOMAIN k.pass = Ids /\ DOMAIN k.life = Ids
  /\ \A q \in Ids \ {s} : /\ k.pass[q] # "none" => k.life[q] = "live" /\ Uneven(k.txt, q)
                          /\ TrailsBy(k.txt, q, Unit(k.pass[q]))
LEMMA ForgottenInv ==
  ASSUME NEW k, NEW s \in Ids, Worded(k), Others(k, s), k.fail = "none", NEW life,
         NEW g, Good(g, {}), Forgotten(k, g, s, life)
  PROVE  Inv(g)
<1>1. k.txt \in [Ids \X Layers -> Seq(Row)] /\ k.rewinds \in [Ids -> Nat]
  BY DEF Worded, Texts
<1>2. <<>> \in Seq(Row) /\ Len(<<>>) = 0
  OBVIOUS
<1>3. /\ g.txt \in [Ids \X Layers -> Seq(Row)]
      /\ \A l \in Layers : g.txt[<<s, l>>] = <<>>
      /\ \A q \in Ids \ {s}, l \in Layers : g.txt[<<q, l>>] = k.txt[<<q, l>>]
  BY <1>1, <1>2 DEF Forgotten, Emptied
<1>4. g.rewinds \in [Ids -> Nat]
  BY <1>1 DEF Forgotten, Put
<1>5. /\ DOMAIN g.pass = Ids /\ g.pass[s] = "none" /\ \A q \in Ids \ {s} : g.pass[q] = k.pass[q]
      /\ \A q \in Ids \ {s} : g.life[q] = k.life[q]
  BY DEF Forgotten, Others, Put
<1>6. 0 \in Layers
  BY KvAssumption DEF Layers
<1>7. ASSUME NEW q \in Ids
      PROVE  /\ g.pass[q] # "none" => g.life[q] = "live" /\ Uneven(g.txt, q)
             /\ TrailsBy(g.txt, q, Unit(g.pass[q]))
  <2>1. CASE q = s
    <3>1. \A l \in Layers : Len(g.txt[<<s, l>>]) = 0
      BY <1>2, <1>3
    <3>2. Unit("none") = 0 /\ 0 = 0 + 0 * 0
      BY DEF Unit
    <3>3. TrailsBy(g.txt, q, Unit(g.pass[q]))
      BY <1>5, <1>6, <2>1, <3>1, <3>2 DEF TrailsBy
    <3> QED  BY <1>5, <2>1, <3>3
  <2>2. CASE q # s
    <3>1. \A l \in Layers : g.txt[<<q, l>>] = k.txt[<<q, l>>]
      BY <1>3, <2>2
    <3>2. /\ k.pass[q] # "none" => k.life[q] = "live" /\ Uneven(k.txt, q)
          /\ TrailsBy(k.txt, q, Unit(k.pass[q])) /\ g.pass[q] = k.pass[q] /\ g.life[q] = k.life[q]
      BY <1>5, <2>2 DEF Others
    <3>3. TrailsBy(g.txt, q, Unit(g.pass[q]))
      BY <1>6, <3>1, <3>2 DEF TrailsBy
    <3>4. Uneven(k.txt, q) => Uneven(g.txt, q)
      BY <1>6, <3>1 DEF Uneven
    <3> QED  BY <3>2, <3>3, <3>4
  <2> QED  BY <2>1, <2>2
<1>8. PassOk(g.pass, g.life, g.txt, g.fail)
  BY <1>5, <1>7 DEF PassOk, Forgotten, Fails
<1> QED  BY <1>3, <1>4, <1>8 DEF Inv, Worded, Texts

LEMMA OthersInv ==
  ASSUME NEW k, Inv(k), k.fail = "none", NEW s
  PROVE  Others(k, s)
BY DEF Inv, PassOk, Others, Good, Base, DormantOk

LEMMA FreedKeeps ==
  ASSUME Inv(kv), kv.fail = "none", NEW s \in Ids, seq_free(s)
  PROVE  Inv(kv')
<1>1. PICK g : g = kv'
  OBVIOUS
<1>2. g = Ended(kv, s, "freed") /\ {} \in SUBSET {s} /\ Good(kv, {}) /\ Worded(kv)
  BY <1>1 DEF seq_free, Inv
<1>3. Good(g, {}) /\ Forgotten(kv, g, s, "freed")
  BY <1>2, EndedKeeps
<1>4. Others(kv, s)
  BY OthersInv
<1>5. Inv(g)
  BY <1>2, <1>3, <1>4, ForgottenInv
<1> QED  BY <1>1, <1>5

-------------------------------------------------------------------------------
(* A fork: the child takes over the cold slots.                            *)

Twin(x, src) == <<src, x[2], x[3]>>
LEMMA TwinIs ==
  ASSUME NEW src \in Ids, NEW dst \in Ids, NEW x \in Of(dst)
  PROVE  /\ Twin(x, src) \in Of(src) /\ Twin(x, src) \in Cells /\ Twin(x, src)[3] = x[3] /\ Twin(x, src)[1] = src
         /\ PageEnd(Twin(x, src)) = PageEnd(x) /\ Twin(Twin(x, src), dst) = x
<1>1. x = <<dst, x[2], x[3]>> /\ x[2] \in Layers /\ x[3] \in Logical
  BY DEF Of
<1>2. Twin(x, src) \in Of(src) /\ Twin(x, src)[3] = x[3] /\ Twin(x, src)[1] = src /\ Twin(x, src)[2] = x[2]
  BY <1>1 DEF Of, Twin
<1>3. Twin(x, src) \in Cells
  BY <1>2, CellParts
<1> QED  BY <1>1, <1>2, <1>3 DEF PageEnd, Twin

Handed(k, src, dst, prefix) ==
  [x \in Of(dst) |-> IF prefix > 0 /\ x[3] >= Whole(prefix) THEN Hot ELSE k.st[Twin(x, src)]]
HandedCold(k, src, dst, prefix) == {x \in Of(dst) : Inherited(k, src, dst, prefix)[x].tier = "cold"}
HandedSeen(k, src, prefix) == IF prefix > 0 THEN MinOf(k.seen[src], prefix) ELSE k.seen[src]
HandedEnd(k, src, dst, prefix) ==
  IF prefix > 0 THEN EndOf(0, HandedCold(k, src, dst, prefix)) ELSE k.frontier[src]

LEMMA InheritedIs ==
  ASSUME NEW k, NEW src, NEW dst, NEW prefix
  PROVE  Inherited(k, src, dst, prefix) = With(k.st, Handed(k, src, dst, prefix))
BY Zenon DEF Inherited, Handed, Twin

Heirs == {"st", "demoted", "used", "total", "seen", "frontier"}
LEMMA InheritFields ==
  ASSUME NEW k, IsKv(k), NEW src, NEW dst, NEW prefix, NEW g, g = inherit(k, src, dst, prefix)
  PROVE  /\ IsKv(g) /\ Same(k, g, Heirs) /\ g.st = Inherited(k, src, dst, prefix)
         /\ g.demoted = Put(k.demoted, dst, Cardinality(HandedCold(k, src, dst, prefix)))
         /\ g.used = Put(k.used, dst, Cardinality(HandedCold(k, src, dst, prefix)))
         /\ g.total = k.total + Cardinality(HandedCold(k, src, dst, prefix))
         /\ g.seen = Put(k.seen, dst, HandedSeen(k, src, prefix))
         /\ g.frontier = Put(k.frontier, dst, HandedEnd(k, src, dst, prefix))
BY Zenon DEF inherit, IsKv, Fields, Same, Put, Heirs, HandedCold, HandedSeen, HandedEnd

Taking(a, dst) == [a EXCEPT !.cold_ref = More(@, Copies(a, Of(dst)))]
LEMMA TakingFields ==
  ASSUME NEW a, IsKv(a), NEW dst, NEW g, g = Taking(a, dst)
  PROVE  IsKv(g) /\ Same(a, g, {"cold_ref"}) /\ g.cold_ref = More(a.cold_ref, Copies(a, Of(dst)))
BY Zenon DEF Taking, IsKv, Fields, Same

\* The parent is ready: nothing of it is in flight or in a file.  The child has nothing yet.
Ready(k, src) == Steady(k, src) /\ k.file[src] = 0 /\ NoBatch(k)
Newborn(k, s) == \A x \in Of(s) : ~ Owned(k.st, k.pg, x)
\* What the child has of its parent: no pages, and cold ones of the first pages only.
HeirOk(k, src, dst, prefix) ==
  \A x \in Of(dst) : /\ k.st[x].tier \in {"hot", "cold"}
                     /\ k.st[x].tier = "cold" => /\ k.st[Twin(x, src)].tier = "cold"
                                                 /\ prefix > 0 => x[3] < Whole(prefix)

LEMMA HandedCells ==
  ASSUME NEW k, Good(k, {}), NEW src \in Ids, NEW dst \in Ids, src # dst, Ready(k, src), NEW prefix \in Nat,
         NEW tt, tt = Inherited(k, src, dst, prefix)
  PROVE  /\ DOMAIN tt = Cells
         /\ \A x \in Cells \ Of(dst) : tt[x] = k.st[x]
         /\ \A x \in Of(dst) : /\ tt[x].tier \in {"hot", "cold"} /\ tt[x].slot \in 0..ColdPages
                               /\ (tt[x].slot # 0) <=> (tt[x].tier = "cold")
                               /\ tt[x].tier = "cold" => /\ k.st[Twin(x, src)].tier = "cold"
                                                         /\ prefix > 0 => x[3] < Whole(prefix)
                               /\ prefix = 0 => tt[x] = k.st[Twin(x, src)]
<1>1. EntriesOk(k.st, k.pg) /\ DOMAIN k.st = Cells /\ Of(dst) \subseteq Cells
  BY CellParts DEF Good, Base, EntriesOk
<1>2. PICK b : b = Handed(k, src, dst, prefix)
  OBVIOUS
<1>3. tt = With(k.st, b) /\ DOMAIN b = Of(dst)
  BY <1>2, InheritedIs DEF Handed
<1>4. /\ DOMAIN tt = Cells /\ \A x \in Of(dst) : tt[x] = b[x]
      /\ \A x \in Cells \ Of(dst) : tt[x] = k.st[x]
  BY <1>1, <1>3, WithIs
<1>5. Tier(k.st, src, {"spilled"}) = {}
  BY DEF Good, Base, CountsOk, SeqCounts, Ready
<1>6. \A y \in Of(src) : k.st[y].tier # "spilled" /\ k.st[y].tier # "inflight"
  BY <1>5 DEF Tier, Ready, Steady
<1>7. \A y \in Of(src) : /\ k.st[y].tier \in {"hot", "cold"} /\ k.st[y].slot \in 0..ColdPages
                         /\ (k.st[y].slot # 0) <=> (k.st[y].tier = "cold")
  BY <1>1, <1>6, CellParts DEF EntriesOk, Tiers, Slotted
<1>8. Whole(prefix) \in Int
  BY KvAssumption DEF Whole
<1>9. ASSUME NEW x \in Of(dst)
      PROVE  /\ tt[x].tier \in {"hot", "cold"} /\ tt[x].slot \in 0..ColdPages
             /\ (tt[x].slot # 0) <=> (tt[x].tier = "cold")
             /\ tt[x].tier = "cold" => /\ k.st[Twin(x, src)].tier = "cold"
                                       /\ prefix > 0 => x[3] < Whole(prefix)
             /\ prefix = 0 => tt[x] = k.st[Twin(x, src)]
  <2>1. PICK y : y = Twin(x, src)
    OBVIOUS
  <2>2. y \in Of(src) /\ x[3] \in Nat
    BY <2>1, TwinIs, CellParts
  <2>3. CASE prefix > 0 /\ x[3] >= Whole(prefix)
    <3>1. tt[x] = Hot
      BY <1>2, <1>4, <2>3 DEF Handed
    <3>2. tt[x].tier = "hot" /\ tt[x].slot = 0
      BY <3>1 DEF Hot
    <3> QED  BY <2>3, <3>2, KvAssumption
  <2>4. CASE ~ (prefix > 0 /\ x[3] >= Whole(prefix))
    <3>1. tt[x] = k.st[y]
      BY <1>2, <1>4, <2>1, <2>4 DEF Handed
    <3> QED  BY <1>7, <1>8, <2>1, <2>2, <2>4, <3>1
  <2> QED  BY <2>3, <2>4
<1> QED  BY <1>4, <1>9

\* The counts of the child.
LEMMA HeirCounts ==
  ASSUME NEW k, Good(k, {}), NEW src \in Ids, NEW dst \in Ids, src # dst, Ready(k, src), Newborn(k, dst),
         NEW prefix \in Nat, NEW tt, tt = Inherited(k, src, dst, prefix), NEW n,
         n = Cardinality(HandedCold(k, src, dst, prefix)), NEW e, e = HandedEnd(k, src, dst, prefix)
  PROVE  SeqCounts(tt, dst, n, k.flying[dst], n, e, k.file[dst]) /\ n \in Nat /\ k.demoted[dst] = 0
<1>1. \A x \in Of(dst) : /\ tt[x].tier \in {"hot", "cold"}
                         /\ tt[x].tier = "cold" => k.st[Twin(x, src)].tier = "cold"
                         /\ prefix = 0 => tt[x] = k.st[Twin(x, src)]
  BY HandedCells
<1>2. PICK X : X = HandedCold(k, src, dst, prefix)
  OBVIOUS
<1>3. X = Tier(tt, dst, Lower) /\ X = Tier(tt, dst, Slotted)
  BY <1>1, <1>2 DEF HandedCold, Tier, Lower, Slotted
<1>4. Tier(tt, dst, {"inflight"}) = {} /\ Tier(tt, dst, {"spilled"}) = {}
  BY <1>1 DEF Tier
<1>5. \A x \in Of(dst) : k.st[x].tier = "hot"
  BY DEF Newborn, Owned
<1>6. Tier(k.st, dst, {"inflight"}) = {} /\ Tier(k.st, dst, {"spilled"}) = {} /\ Tier(k.st, dst, Lower) = {}
  BY <1>5 DEF Tier, Lower
<1>7. SeqCounts(k.st, dst, k.demoted[dst], k.flying[dst], k.used[dst], k.frontier[dst], k.file[dst])
  BY DEF Good, Base, CountsOk
<1>8. /\ k.flying[dst] = Cardinality({}) /\ k.demoted[dst] = Cardinality({}) /\ k.file[dst] \in Nat
      /\ ~ (k.file[dst] > 0)
  BY <1>6, <1>7 DEF SeqCounts
<1>9. LastEnd(e, X)
  <2>1. CASE prefix > 0
    <3>1. e = EndOf(0, X)
      BY <1>2, <2>1 DEF HandedEnd
    <3> QED  BY <1>3, <3>1, TierFinite, LastEndIs
  <2>2. CASE ~ (prefix > 0)
    <3>1. e = k.frontier[src]
      BY <2>2 DEF HandedEnd
    <3>2. LastEnd(e, Tier(k.st, src, Lower))
      BY <3>1 DEF Good, Base, CountsOk, SeqCounts
    <3>3. \A x \in Of(dst) : tt[x] = k.st[Twin(x, src)]
      BY <1>1, <2>2
    <3>4. \A x \in X : Twin(x, src) \in Tier(k.st, src, Lower) /\ PageEnd(Twin(x, src)) = PageEnd(x)
      BY <1>3, <3>3, TwinIs DEF Tier
    <3>5. ASSUME NEW y \in Tier(k.st, src, Lower) PROVE Twin(y, dst) \in X /\ PageEnd(Twin(y, dst)) = PageEnd(y)
      <4>1. y \in Of(src) /\ k.st[y].tier \in Lower
        BY DEF Tier
      <4>2. /\ Twin(y, dst) \in Of(dst) /\ PageEnd(Twin(y, dst)) = PageEnd(y) /\ Twin(Twin(y, dst), src) = y
        BY <4>1, TwinIs
      <4>3. tt[Twin(y, dst)] = k.st[y]
        BY <3>3, <4>2
      <4> QED  BY <1>3, <4>1, <4>2, <4>3 DEF Tier
    <3> QED  BY <3>2, <3>4, <3>5 DEF LastEnd
  <2> QED  BY <2>1, <2>2
<1>10. Cardinality(X) \in Nat /\ Cardinality({}) = 0
  BY <1>3, TierFinite, FS_EmptySet
<1> QED  BY <1>2, <1>3, <1>4, <1>8, <1>9, <1>10 DEF SeqCounts

LEMMA HeirKeeps ==
  ASSUME NEW k, Good(k, {}), NEW src \in Ids, NEW dst \in Ids, src # dst, Ready(k, src), Newborn(k, dst),
         NEW prefix \in Nat, NEW a, a = inherit(k, src, dst, prefix), NEW g, g = Taking(a, dst)
  PROVE  Good(g, {dst}) /\ Same(k, g, Heirs \cup {"cold_ref"}) /\ HeirOk(g, src, dst, prefix)
<1> USE DEF Good
<1>1. IsKv(k) /\ EntriesOk(k.st, k.pg)
  BY DEF Base
<1>2. PICK tt : tt = Inherited(k, src, dst, prefix)
  OBVIOUS
<1>3. PICK n : n = Cardinality(HandedCold(k, src, dst, prefix))
  OBVIOUS
<1>4. PICK e : e = HandedEnd(k, src, dst, prefix)
  OBVIOUS
<1>5. PICK v : v = HandedSeen(k, src, prefix)
  OBVIOUS
<1>6. /\ IsKv(a) /\ Same(k, a, Heirs) /\ a.st = tt
      /\ a.demoted = Put(k.demoted, dst, n) /\ a.used = Put(k.used, dst, n) /\ a.total = k.total + n
      /\ a.seen = Put(k.seen, dst, v) /\ a.frontier = Put(k.frontier, dst, e)
  BY <1>1, <1>2, <1>3, <1>4, <1>5, InheritFields
<1>7. IsKv(g) /\ Same(a, g, {"cold_ref"}) /\ g.cold_ref = More(a.cold_ref, Copies(a, Of(dst)))
  BY <1>6, TakingFields
<1>8. /\ DOMAIN tt = Cells
      /\ \A x \in Cells \ Of(dst) : tt[x] = k.st[x]
      /\ \A x \in Of(dst) : /\ tt[x].tier \in {"hot", "cold"} /\ tt[x].slot \in 0..ColdPages
                            /\ (tt[x].slot # 0) <=> (tt[x].tier = "cold")
                            /\ tt[x].tier = "cold" => /\ k.st[Twin(x, src)].tier = "cold"
                                                      /\ prefix > 0 => x[3] < Whole(prefix)
  BY <1>2, HandedCells
<1>9. SeqCounts(tt, dst, n, k.flying[dst], n, e, k.file[dst]) /\ n \in Nat /\ k.demoted[dst] = 0
  BY <1>2, <1>3, <1>4, HeirCounts
<1>10. v \in Nat
  <2>1. k.seen[src] \in Nat
    BY DEF Base, DormantOk
  <2> QED  BY <1>5, <2>1 DEF HandedSeen, MinOf
<1> HIDE <1>2, <1>3, <1>4, <1>5
<1>11. /\ a.cold_ref = k.cold_ref /\ g.ref = k.ref /\ g.pg = k.pg /\ g.num = k.num /\ g.life = k.life
       /\ g.flying = k.flying /\ g.hibernated = k.hibernated /\ g.file = k.file
       /\ g.pend = k.pend /\ g.stream = k.stream /\ g.landed = k.landed
       /\ g.spilled_total = k.spilled_total
       /\ g.st = tt /\ g.demoted = a.demoted /\ g.used = a.used /\ g.total = a.total
       /\ g.seen = a.seen /\ g.frontier = a.frontier
  BY <1>6, <1>7 DEF Same, Fields, Heirs
<1>12. Same(k, g, Heirs \cup {"cold_ref"})
  BY <1>6, <1>7 DEF Same, Heirs
<1>13. \A x \in Of(dst) : k.st[x].tier = "hot" /\ k.pg[x] = Neutral /\ x \in Cells
  BY CellParts DEF Newborn, Owned
<1>14. \A x \in Of(dst) : k.st[x].slot = 0
  BY <1>1, <1>13 DEF EntriesOk, Slotted
<1>15. EntriesOk(g.st, g.pg)
  BY <1>1, <1>8, <1>11, <1>13 DEF EntriesOk, Tiers, Slotted
<1>16. Counted(g.cold_ref, Slots, SlotOf(g.st))
  <2>1. Tallies(Copies(a, Of(dst)), Slots, SlotOf(a.st), Of(dst))
    BY <1>13, HandlesCopies
  <2>2. Moves(SlotOf(k.st), SlotOf(tt), Of(dst)) /\ Without(Slots, SlotOf(k.st), Of(dst))
    BY <1>8, <1>13, <1>14, PagesPositive DEF Moves, Without, SlotOf
  <2>3. Counted(k.cold_ref, Slots, SlotOf(k.st)) /\ a.st = tt
    BY <1>6 DEF Base
  <2>4. Counted(More(k.cold_ref, Copies(a, Of(dst))), Slots, SlotOf(tt))
    BY <2>1, <2>2, <2>3, CountMore
  <2> QED  BY <1>7, <1>11, <2>4
<1>17. CountsOk(k.st, k.demoted, k.flying, k.used, k.frontier, k.file)
  BY DEF Base
<1>18. /\ k.demoted \in [Ids -> Int] /\ k.flying \in [Ids -> Int] /\ k.file \in [Ids -> Int] /\ k.file[dst] \in Int
  BY <1>17 DEF CountsOk
<1>19. CountsOk(g.st, g.demoted, g.flying, g.used, g.frontier, g.file)
  <2>1. OnlyOf(k.st, tt, dst)
    BY <1>8, CellParts DEF OnlyOf
  <2>2. CountsOk(tt, Put(k.demoted, dst, n), Put(k.flying, dst, k.flying[dst]), Put(k.used, dst, n),
                 Put(k.frontier, dst, e), Put(k.file, dst, k.file[dst]))
    BY <1>9, <1>17, <2>1, CountsChange
  <2> QED  BY <1>6, <1>11, <1>18, <2>2, PutSame
<1>20. TotalsOk(g.total, g.demoted, g.spilled_total, g.file)
  <2>1. TotalsOk(k.total, k.demoted, k.spilled_total, k.file)
    BY DEF Base
  <2>2. k.spilled_total \in Int /\ k.total \in Int /\ k.spilled_total <= SpillCap
    BY <1>18, <2>1, TotalsTyped DEF TotalsOk
  <2>3. PICK d \in Int : d = n
    BY <1>9
  <2>4. a.total = k.total + d - k.demoted[dst] /\ k.spilled_total = k.spilled_total + k.file[dst] - k.file[dst]
    BY <1>6, <1>9, <1>18, <2>2, <2>3
  <2>5. TotalsOk(a.total, Put(k.demoted, dst, d), k.spilled_total, Put(k.file, dst, k.file[dst]))
    BY <1>18, <2>1, <2>2, <2>4, TotalsChange
  <2> QED  BY <1>6, <1>11, <1>18, <2>3, <2>5, PutSame
<1>21. PendOk(g.pend, g.st, g.pg)
  <2>1. HotKept(k.st, k.pg, g.st, g.pg)
    BY <1>8, <1>11, <1>13 DEF HotKept
  <2> QED  BY <1>11, <2>1, PendKept DEF Base
<1>22. FlightOk(g.landed, g.stream, g.st, g.pg)
  <2>1. FlightKept(k.st, k.pg, g.st, g.pg)
    BY <1>8, <1>11, <1>13 DEF FlightKept
  <2> QED  BY <1>11, <2>1, FlightSame DEF Base
<1>23. /\ NumberedOk(k.num, k.st, k.pg, {})
       /\ DormantOk(k.life, k.num, k.st, k.pg, k.hibernated, k.seen, {})
  BY DEF Base
<1>24. \A x \in Cells : x[1] # dst => x \notin Of(dst)
  BY CellParts
<1>25. g.seen \in [Ids -> Nat] /\ \A q \in Ids \ {dst} : g.seen[q] = k.seen[q]
  BY <1>6, <1>10, <1>11, <1>23 DEF Put, DormantOk
<1>26. NumberedOk(g.num, g.st, g.pg, {dst})
  BY <1>8, <1>11, <1>23, <1>24 DEF NumberedOk, Owned
<1>27. DormantOk(g.life, g.num, g.st, g.pg, g.hibernated, g.seen, {dst})
  BY <1>8, <1>11, <1>23, <1>24, <1>25 DEF DormantOk, Owned
<1>28. HeirOk(g, src, dst, prefix)
  <2>1. \A x \in Of(dst) : Twin(x, src) \in Cells \ Of(dst)
    BY TwinIs, CellParts
  <2> QED  BY <1>8, <1>11, <2>1 DEF HeirOk
<1>29. Counted(g.ref, Pages, g.pg)
  BY <1>11 DEF Base
<1> QED  BY <1>7, <1>12, <1>15, <1>16, <1>19, <1>20, <1>21, <1>22, <1>26, <1>27, <1>28, <1>29 DEF Base

\* Anyone may be the child under way.
LEMMA Widen ==
  ASSUME NEW k, Good(k, {}), NEW D
  PROVE  Good(k, D)
BY DEF Good, Base, NumberedOk, DormantOk

\* The child after on_seq_fork: it is steady, without pages, and there is no batch.
Child1(k, src, dst, prefix) ==
  /\ Good(k, {dst}) /\ HeirOk(k, src, dst, prefix) /\ NoBatch(k)
  /\ \A x \in Of(dst) : k.pg[x] = Neutral
  /\ \A x \in Of(src) : Owned(k.st, k.pg, x) => x[3] < k.num[src]
Forks == TierFields \cup {"seen"}
LEMMA ShareKeeps ==
  ASSUME NEW k, Good(k, {}), NEW src \in Ids, NEW dst \in Ids, src # dst, Ready(k, src), Newborn(k, dst),
         NEW prefix \in Nat, NEW g, g = share_slots(k, src, dst, prefix)
  PROVE  Child1(g, src, dst, prefix) /\ Same(k, g, Forks)
<1>1. PICK a : a = inherit(k, src, dst, prefix)
  OBVIOUS
<1>2. ~ (k.file[src] > 0)
  BY DEF Ready
<1>3. NoBatch(k) /\ (\A x \in Of(dst) : k.pg[x] = Neutral /\ k.st[x].tier = "hot")
  BY DEF Ready, Newborn, Owned
<1>4. \A x \in Of(src) : Owned(k.st, k.pg, x) => x[3] < k.num[src]
  BY CellParts DEF Good, Base, NumberedOk
<1>5. CASE a.demoted[dst] = 0
  <2>1. g = k
    BY <1>1, <1>2, <1>5, Zenon DEF share_slots
  <2>2. Good(k, {dst})
    BY Widen
  <2>3. HeirOk(k, src, dst, prefix)
    BY <1>3 DEF HeirOk
  <2> QED  BY <1>3, <1>4, <2>1, <2>2, <2>3 DEF Child1, Same
<1>6. CASE a.demoted[dst] # 0
  <2>1. g = Taking(a, dst)
    BY <1>1, <1>2, <1>6, Zenon DEF share_slots, Taking
  <2>2. Good(g, {dst}) /\ Same(k, g, Heirs \cup {"cold_ref"}) /\ HeirOk(g, src, dst, prefix)
    BY <1>1, <2>1, HeirKeeps
  <2>3. g.pg = k.pg /\ g.pend = k.pend
    BY <2>2 DEF Same, Fields, Heirs
  <2>4. \A x \in Of(src) : Owned(g.st, g.pg, x) => x[3] < g.num[src]
    BY <2>2, CellParts DEF Good, Base, NumberedOk
  <2>5. Same(k, g, Forks)
    BY <2>2 DEF Same, Forks, Heirs, TierFields
  <2> QED  BY <1>3, <2>2, <2>3, <2>4, <2>5 DEF Child1, NoBatch
<1> QED  BY <1>5, <1>6

LEMMA OnForkKeeps ==
  ASSUME NEW k, Good(k, {}), NEW src \in Ids, NEW dst \in Ids, src # dst, k.file[src] = 0,
         k.life[dst] \notin {"live", "holder"}, NEW prefix \in Nat, NEW g, g = on_seq_fork(k, src, dst, prefix)
  PROVE  Child1(g, src, dst, prefix) /\ Same(k, g, Forks)
<1>1. PICK a : a = flush_pending(k, TRUE)
  OBVIOUS
<1>2. Good(a, {}) /\ Stays(k, a) /\ NoBatch(a) /\ a.file = k.file
  BY <1>1, FlushKeeps
<1>3. PICK b : b = settled(a, src)
  OBVIOUS
<1>4. Good(b, {}) /\ Stays(a, b) /\ Steady(b, src) /\ b.file = a.file /\ NoBatch(b)
  BY <1>2, <1>3, SettledKeeps
<1>5. Stays(k, b)
  BY <1>2, <1>4, StaysTrans
<1>6. Ready(b, src)
  BY <1>2, <1>4 DEF Ready
<1>7. Newborn(b, dst)
  <2>1. b.life = k.life
    BY <1>5, StaysWhat
  <2> QED  BY <1>4, <2>1, CellParts DEF Newborn, Good, Base, DormantOk
<1>8. g = share_slots(b, src, dst, prefix)
  BY <1>1, <1>3 DEF on_seq_fork
<1>9. Child1(g, src, dst, prefix) /\ Same(b, g, Forks)
  BY <1>4, <1>6, <1>7, <1>8, ShareKeeps
<1> QED  BY <1>5, <1>9 DEF Stays, Same, Forks

-------------------------------------------------------------------------------
(* The pages of the child.                                                 *)

LEMMA PendNone ==
  ASSUME NEW pend, pend.items = {}, NEW st, NEW pg, PendOk(pend, st, pg), NEW tt, NEW qg
  PROVE  PendOk(pend, tt, qg)
BY DEF PendOk

Lent(k, src, dst, n) == [x \in {y \in Of(dst) : y[3] < n} |-> k.pg[Twin(x, src)]]
Lending(k, src, dst, n) == [k EXCEPT !.num[dst] = n, !.pg = With(@, Lent(k, src, dst, n))]
LEMMA LendingFields ==
  ASSUME NEW k, IsKv(k), NEW src, NEW dst, NEW n, NEW g, g = Lending(k, src, dst, n)
  PROVE  /\ IsKv(g) /\ Same(k, g, {"pg", "num"}) /\ g.num = Put(k.num, dst, n)
         /\ g.pg = With(k.pg, Lent(k, src, dst, n))
BY Zenon DEF Lending, IsKv, Fields, Same, Put
Referred(a, dst) == [a EXCEPT !.ref = More(@, Handles(a, Of(dst)))]
LEMMA ReferredFields ==
  ASSUME NEW a, IsKv(a), NEW dst, NEW g, g = Referred(a, dst)
  PROVE  IsKv(g) /\ Same(a, g, {"ref"}) /\ g.ref = More(a.ref, Handles(a, Of(dst)))
BY Zenon DEF Referred, IsKv, Fields, Same
LEMMA AddRefIs ==
  ASSUME NEW k, NEW src, NEW dst, NEW n
  PROVE  add_ref(k, src, dst, n) = Referred(Lending(k, src, dst, n), dst)
BY Zenon DEF add_ref, Referred, Lending, Lent, Twin

\* The child with pages: it is steady, they are its own, and there is no batch.
Child2(k, dst) ==
  /\ Good(k, {dst}) /\ Numbered(k, dst) /\ NoBatch(k)
  /\ \A x \in Of(dst) : k.st[x].tier \in {"hot", "cold"}

LEMMA AddRefKeeps ==
  ASSUME NEW k, NEW src \in Ids, NEW dst \in Ids, src # dst, NEW prefix \in Nat, Child1(k, src, dst, prefix),
         NEW n \in Nat, n <= k.num[src], \A x \in Of(dst) : k.st[x].tier = "cold" => x[3] < n,
         NEW g, g = add_ref(k, src, dst, n)
  PROVE  Child2(g, dst) /\ Same(k, g, {"ref", "pg", "num"}) /\ g.num = Put(k.num, dst, n)
<1> USE DEF Good
<1>1. Base(k, {dst}) /\ IsKv(k) /\ EntriesOk(k.st, k.pg)
  BY DEF Base, Child1
<1>2. PICK a : a = Lending(k, src, dst, n)
  OBVIOUS
<1>3. PICK b : b = Lent(k, src, dst, n)
  OBVIOUS
<1>4. IsKv(a) /\ Same(k, a, {"pg", "num"}) /\ a.num = Put(k.num, dst, n) /\ a.pg = With(k.pg, b)
  BY <1>1, <1>2, <1>3, LendingFields
<1>5. IsKv(g) /\ Same(a, g, {"ref"}) /\ g.ref = More(a.ref, Handles(a, Of(dst)))
  BY <1>2, <1>4, AddRefIs, ReferredFields
<1>6. Same(k, g, {"ref", "pg", "num"})
  BY <1>4, <1>5 DEF Same
<1>7. /\ a.ref = k.ref /\ g.pg = a.pg /\ g.num = a.num
      /\ g.cold_ref = k.cold_ref /\ g.life = k.life
      /\ g.st = k.st /\ g.seen = k.seen /\ g.frontier = k.frontier /\ g.demoted = k.demoted
      /\ g.flying = k.flying /\ g.used = k.used /\ g.hibernated = k.hibernated /\ g.file = k.file
      /\ g.pend = k.pend /\ g.stream = k.stream /\ g.landed = k.landed
      /\ g.spilled_total = k.spilled_total /\ g.total = k.total
  BY <1>4, <1>5 DEF Same, Fields
<1>8. /\ DOMAIN k.st = Cells /\ k.pg \in [Cells -> 0..VramPages] /\ DOMAIN k.pg = Cells
      /\ \A x \in Of(dst) : x \in Cells /\ k.pg[x] = Neutral
  BY <1>1, CellParts DEF EntriesOk, Child1
<1>9. /\ DOMAIN b = {y \in Of(dst) : y[3] < n} /\ DOMAIN b \subseteq Of(dst) /\ DOMAIN b \subseteq Cells
      /\ \A x \in DOMAIN b : b[x] = k.pg[Twin(x, src)] /\ x[3] < n
  BY <1>3, <1>8 DEF Lent
<1> HIDE <1>2, <1>3
<1>10. /\ \A x \in DOMAIN b : a.pg[x] = b[x]
       /\ \A x \in Cells \ DOMAIN b : a.pg[x] = k.pg[x]
  BY <1>4, <1>8, <1>9, WithIs
<1>11. a.pg \in [Cells -> 0..VramPages]
  <2>1. \A x \in DOMAIN b : b[x] \in 0..VramPages
    BY <1>8, <1>9, TwinIs
  <2> QED  BY <1>4, <1>8, <2>1, WithTyped
<1>12. \A x \in Of(dst) : /\ k.st[x].tier \in {"hot", "cold"} /\ (k.st[x].tier = "cold" => a.pg[x] = Neutral)
  <2> SUFFICES ASSUME NEW x \in Of(dst)
               PROVE  k.st[x].tier \in {"hot", "cold"} /\ (k.st[x].tier = "cold" => a.pg[x] = Neutral)
    OBVIOUS
  <2>1. k.st[x].tier \in {"hot", "cold"} /\ (k.st[x].tier = "cold" => k.st[Twin(x, src)].tier = "cold")
    BY DEF Child1, HeirOk
  <2>2. Twin(x, src) \in Cells
    BY TwinIs
  <2>3. k.st[x].tier = "cold" => k.pg[Twin(x, src)] = Neutral
    BY <1>1, <2>1, <2>2 DEF EntriesOk
  <2> QED  BY <1>8, <1>9, <1>10, <2>1, <2>3
<1>13. EntriesOk(g.st, g.pg)
  BY <1>1, <1>7, <1>9, <1>10, <1>11, <1>12 DEF EntriesOk
<1>14. Counted(g.ref, Pages, g.pg)
  <2>1. Tallies(Handles(a, Of(dst)), Pages, a.pg, Of(dst))
    BY <1>8, HandlesCopies
  <2>2. Moves(k.pg, a.pg, Of(dst)) /\ Without(Pages, k.pg, Of(dst))
    BY <1>8, <1>9, <1>10, PagesPositive DEF Moves, Without
  <2>3. Counted(k.ref, Pages, k.pg)
    BY <1>1 DEF Base
  <2>4. Counted(More(k.ref, Handles(a, Of(dst))), Pages, a.pg)
    BY <2>1, <2>2, <2>3, CountMore
  <2> QED  BY <1>5, <1>7, <2>4
<1>15. PendOk(g.pend, g.st, g.pg) /\ NoBatch(g)
  <2>1. k.pend.items = {} /\ PendOk(k.pend, k.st, k.pg)
    BY <1>1 DEF Base, Child1, NoBatch
  <2> QED  BY <1>7, <2>1, PendNone DEF NoBatch
<1>16. FlightOk(g.landed, g.stream, g.st, g.pg)
  <2>1. FlightKept(k.st, k.pg, g.st, g.pg)
    BY <1>7, <1>9, <1>10, <1>12 DEF FlightKept
  <2> QED  BY <1>1, <1>7, <2>1, FlightSame DEF Base
<1>17. k.num \in [Ids -> 0..MaxPages] /\ k.num[src] \in 0..MaxPages
  BY <1>1 DEF Base, NumberedOk
<1>18. g.num \in [Ids -> 0..MaxPages] /\ g.num[dst] = n /\ \A q \in Ids \ {dst} : g.num[q] = k.num[q]
  BY <1>4, <1>7, <1>17, KvAssumption DEF Put
<1>19. \A x \in Cells : x[1] # dst => x \notin DOMAIN b /\ x[1] \in Ids \ {dst}
  BY <1>9, CellParts
<1>20. /\ NumberedOk(k.num, k.st, k.pg, {dst})
       /\ DormantOk(k.life, k.num, k.st, k.pg, k.hibernated, k.seen, {dst})
  BY <1>1 DEF Base
<1>21. NumberedOk(g.num, g.st, g.pg, {dst})
  BY <1>7, <1>10, <1>18, <1>19, <1>20 DEF NumberedOk, Owned
<1>22. DormantOk(g.life, g.num, g.st, g.pg, g.hibernated, g.seen, {dst})
  BY <1>7, <1>10, <1>18, <1>19, <1>20 DEF DormantOk, Owned
<1>23. Numbered(g, dst)
  <2> SUFFICES ASSUME NEW x \in Of(dst), Owned(g.st, g.pg, x) PROVE x[3] < n
    BY <1>18 DEF Numbered
  <2>1. CASE x \in DOMAIN b
    BY <1>9, <2>1
  <2>2. CASE x \notin DOMAIN b
    BY <1>7, <1>8, <1>10, <1>12, <2>2 DEF Owned
  <2> QED  BY <2>1, <2>2
<1>24. /\ Counted(g.cold_ref, Slots, SlotOf(g.st))
       /\ CountsOk(g.st, g.demoted, g.flying, g.used, g.frontier, g.file)
       /\ TotalsOk(g.total, g.demoted, g.spilled_total, g.file)
  BY <1>1, <1>7 DEF Base
<1>25. \A x \in Of(dst) : g.st[x].tier \in {"hot", "cold"}
  BY <1>7, <1>12
<1>26. Child2(g, dst)
  BY <1>5, <1>13, <1>14, <1>15, <1>16, <1>21, <1>22, <1>23, <1>24, <1>25 DEF Base, Child2
<1> QED  BY <1>4, <1>6, <1>7, <1>26

\* Some of its pages become its own.
SplitBytes(k, X) == [x \in X |-> k.vram[k.pg[x]]]
LEMMA SplitFields ==
  ASSUME NEW k, IsKv(k), NEW X, NEW g, g = split(k, X)
  PROVE  /\ IsKv(g) /\ Same(k, g, {"ref", "vram", "pg"})
         /\ g.ref = Took(Less(k.ref, Handles(k, X)), Place(X, FreePages(k)))
         /\ g.pg = With(k.pg, Place(X, FreePages(k)))
BY Zenon DEF split, free, IsKv, Fields, Same

LEMMA SplitKeeps ==
  ASSUME NEW k, NEW dst \in Ids, Child2(k, dst), NEW X, X \subseteq Shared(k, dst),
         Cardinality(X) <= Cardinality(FreePages(k)), NEW g, g = split(k, X)
  PROVE  Child2(g, dst) /\ Same(k, g, {"ref", "vram", "pg"})
<1> USE DEF Good
<1>1. Base(k, {dst}) /\ IsKv(k) /\ EntriesOk(k.st, k.pg)
  BY DEF Base, Child2
<1>2. PICK f : f = Place(X, FreePages(k))
  OBVIOUS
<1>3. /\ IsKv(g) /\ Same(k, g, {"ref", "vram", "pg"})
      /\ g.ref = Took(Less(k.ref, Handles(k, X)), f) /\ g.pg = With(k.pg, f)
  BY <1>1, <1>2, SplitFields
<1>4. /\ g.num = k.num
      /\ g.cold_ref = k.cold_ref /\ g.life = k.life
      /\ g.st = k.st /\ g.seen = k.seen /\ g.frontier = k.frontier /\ g.demoted = k.demoted
      /\ g.flying = k.flying /\ g.used = k.used /\ g.hibernated = k.hibernated /\ g.file = k.file
      /\ g.pend = k.pend /\ g.stream = k.stream /\ g.landed = k.landed
      /\ g.spilled_total = k.spilled_total /\ g.total = k.total
  BY <1>3 DEF Same, Fields
<1>5. X \subseteq Of(dst) /\ X \subseteq Cells /\ \A x \in X : k.pg[x] # Neutral /\ x \in Cells
  BY CellParts DEF Shared
<1>6. /\ DOMAIN f = X
      /\ \A x, y \in X : f[x] = f[y] => x = y
      /\ \A x \in X : f[x] \in Pages /\ k.ref[f[x]] = 0
  BY <1>2, <1>5, PlacePages
<1> HIDE <1>2
<1>7. k.pg \in [Cells -> 0..VramPages] /\ DOMAIN k.pg = Cells
  BY <1>1 DEF EntriesOk
<1>8. /\ \A x \in X : g.pg[x] = f[x]
      /\ \A x \in Cells \ X : g.pg[x] = k.pg[x]
  BY <1>3, <1>5, <1>6, <1>7, WithIs
<1>9. g.pg \in [Cells -> 0..VramPages]
  <2>1. \A x \in DOMAIN f : f[x] \in 0..VramPages
    BY <1>6, KvAssumption DEF Pages
  <2> QED  BY <1>3, <1>7, <2>1, WithTyped
<1>10. \A x \in X : k.st[x].tier = "hot" /\ g.pg[x] # Neutral
  BY <1>1, <1>5, <1>6, <1>8, PagesPositive DEF EntriesOk, Child2
<1>11. EntriesOk(g.st, g.pg)
  BY <1>1, <1>4, <1>8, <1>9, <1>10 DEF EntriesOk
<1>12. Counted(g.ref, Pages, g.pg)
  <2>1. PICK q : q = With(k.pg, Gone(X))
    OBVIOUS
  <2>2. (\A x \in X : q[x] = Neutral) /\ (\A x \in Cells \ X : q[x] = k.pg[x])
    BY <1>5, <1>7, <2>1, GoneIs, WithIs
  <2>3. PICK n : n = Handles(k, X)
    OBVIOUS
  <2>4. Tallies(n, Pages, k.pg, X)
    BY <1>5, <2>3, HandlesCopies
  <2>5. Moves(k.pg, q, X) /\ Without(Pages, q, X)
    BY <1>5, <2>2, PagesPositive DEF Moves, Without
  <2>6. Counted(k.ref, Pages, k.pg)
    BY <1>1 DEF Base
  <2>7. Counted(Less(k.ref, n), Pages, q) /\ \A h \in Pages : n[h] \in Nat /\ n[h] <= k.ref[h]
    BY <2>4, <2>5, <2>6, CountLess
  <2>8. \A x \in X : Less(k.ref, n)[f[x]] = 0
    <3> TAKE x \in X
    <3>1. f[x] \in Pages /\ k.ref[f[x]] = 0 /\ DOMAIN k.ref = Pages
      BY <1>6, <2>6 DEF Counted
    <3>2. n[f[x]] \in Nat /\ n[f[x]] <= k.ref[f[x]]
      BY <2>7, <3>1
    <3>3. n[f[x]] = 0
      BY <3>1, <3>2
    <3>4. Less(k.ref, n)[f[x]] = k.ref[f[x]] - n[f[x]]
      BY <3>1 DEF Less
    <3> QED  BY <3>1, <3>3, <3>4
  <2>9. PICK m : m = Less(k.ref, n)
    OBVIOUS
  <2>10. Fresh(m, Pages, q, g.pg, X, f)
    BY <1>5, <1>6, <1>8, <2>2, <2>5, <2>8, <2>9 DEF Fresh, Moves
  <2>11. Counted(Took(m, f), Pages, g.pg)
    BY <2>7, <2>9, <2>10, CountTaken
  <2> QED  BY <1>3, <2>3, <2>9, <2>11
<1>13. PendOk(g.pend, g.st, g.pg) /\ NoBatch(g)
  <2>1. k.pend.items = {} /\ PendOk(k.pend, k.st, k.pg)
    BY <1>1 DEF Base, Child2, NoBatch
  <2> QED  BY <1>4, <2>1, PendNone DEF NoBatch
<1>14. FlightOk(g.landed, g.stream, g.st, g.pg)
  <2>1. FlightKept(k.st, k.pg, g.st, g.pg)
    BY <1>4, <1>8, <1>10 DEF FlightKept
  <2> QED  BY <1>1, <1>4, <2>1, FlightSame DEF Base
<1>15. NoNew(k.st, k.pg, g.st, g.pg)
  BY <1>4, <1>5, <1>8 DEF NoNew, Owned
<1>16. NumberedOk(g.num, g.st, g.pg, {dst}) /\ DormantOk(g.life, g.num, g.st, g.pg, g.hibernated, g.seen, {dst})
  BY <1>1, <1>4, <1>15, OwnedKept DEF Base
<1>17. Numbered(g, dst)
  BY <1>4, <1>15, CellParts DEF Numbered, NoNew, Child2
<1>18. /\ Counted(g.cold_ref, Slots, SlotOf(g.st))
       /\ CountsOk(g.st, g.demoted, g.flying, g.used, g.frontier, g.file)
       /\ TotalsOk(g.total, g.demoted, g.spilled_total, g.file)
  BY <1>1, <1>4 DEF Base
<1>19. \A x \in Of(dst) : g.st[x].tier \in {"hot", "cold"}
  BY <1>4 DEF Child2
<1> QED  BY <1>3, <1>11, <1>12, <1>13, <1>14, <1>16, <1>17, <1>18, <1>19 DEF Base, Child2

LEMMA CowKeeps ==
  ASSUME NEW k, NEW dst \in Ids, Child2(k, dst), NEW r, r = cow_copy(k, dst)
  PROVE  Child2(r.k, dst) /\ Same(k, r.k, {"ref", "vram", "pg"})
<1>1. PICK S : S = Shared(k, dst)
  OBVIOUS
<1>2. S \subseteq Cells
  BY <1>1, CellParts DEF Shared
<1>3. Cardinality(S) \in Nat /\ Cardinality(FreePages(k)) \in Nat
  BY <1>2, FiniteCells, FS_Subset, FS_CardinalityType, FreeFinite
<1>4. PICK n : n = MinOf(Cardinality(S), Cardinality(FreePages(k)))
  OBVIOUS
<1>5. n \in Nat /\ n <= Cardinality(S) /\ n <= Cardinality(FreePages(k))
  BY <1>3, <1>4 DEF MinOf
<1>6. PICK X : X = First(n, S, LayerMajor)
  OBVIOUS
<1>7. X \subseteq S /\ Cardinality(X) = n
  BY <1>2, <1>5, <1>6, FirstCells
<1>8. PICK g : g = split(k, X)
  OBVIOUS
<1>9. r = [k |-> g, ok |-> n = Cardinality(S)]
  BY <1>1, <1>4, <1>6, <1>8, Zenon DEF cow_copy
<1>10. Child2(g, dst) /\ Same(k, g, {"ref", "vram", "pg"})
  BY <1>1, <1>5, <1>7, <1>8, SplitKeeps
<1> QED  BY <1>9, <1>10

\* The pages that the child gets.
Gets(k, src, prefix, n) == n \in Nat /\ (n = k.num[src] \/ (prefix > 0 /\ n = Whole(prefix)))
LEMMA ForkPagesKeeps ==
  ASSUME NEW k, NEW src \in Ids, NEW dst \in Ids, src # dst, NEW prefix \in Nat, Child1(k, src, dst, prefix),
         NEW frozen, NEW r, r = fork_pages(k, src, dst, frozen, prefix)
  PROVE  /\ Child2(r.k, dst) /\ Same(k, r.k, {"ref", "vram", "pg", "num"})
         /\ \E n : Gets(k, src, prefix, n) /\ r.k.num = Put(k.num, dst, n)
<1>1. PICK want : want = IF prefix > 0 THEN Whole(prefix) ELSE k.num[src]
  OBVIOUS
<1>2. k.num[src] \in 0..MaxPages /\ k.num[src] \in Nat
  BY KvAssumption DEF Child1, Good, Base, NumberedOk
<1>3. Whole(prefix) \in Nat
  <2>1. prefix + PageSize - 1 \in Nat /\ PageSize \in Nat \ {0}
    BY KvAssumption
  <2>2. \A a \in Nat : a \div PageSize \in Nat
    BY <2>1
  <2> QED  BY <2>1, <2>2 DEF Whole
<1>4. PICK take : take = MinOf(want, k.num[src])
  OBVIOUS
<1>5. take \in Nat /\ take <= k.num[src] /\ (take = k.num[src] \/ (prefix > 0 /\ take = Whole(prefix)))
  BY <1>1, <1>2, <1>3, <1>4 DEF MinOf
<1>6. \A x \in Of(dst) : k.st[x].tier = "cold" => x[3] < take
  <2> SUFFICES ASSUME NEW x \in Of(dst), k.st[x].tier = "cold" PROVE x[3] < take
    OBVIOUS
  <2>1. k.st[Twin(x, src)].tier = "cold" /\ (prefix > 0 => x[3] < Whole(prefix))
    BY DEF Child1, HeirOk
  <2>2. Twin(x, src) \in Of(src) /\ Twin(x, src)[3] = x[3]
    BY TwinIs
  <2>3. x[3] < k.num[src]
    BY <2>1, <2>2 DEF Child1, Owned
  <2> QED  BY <1>5, <2>1, <2>3
<1>7. PICK a : a = add_ref(k, src, dst, take)
  OBVIOUS
<1>8. Child2(a, dst) /\ Same(k, a, {"ref", "pg", "num"}) /\ a.num = Put(k.num, dst, take)
  BY <1>5, <1>6, <1>7, AddRefKeeps
<1>9. PICK c : c = cow_copy(a, dst)
  OBVIOUS
<1>10. Child2(c.k, dst) /\ Same(a, c.k, {"ref", "vram", "pg"})
  BY <1>8, <1>9, CowKeeps
<1>11. r = c \/ r = Done(a)
  BY <1>1, <1>4, <1>7, <1>9, Zenon DEF fork_pages
<1>12. Gets(k, src, prefix, take)
  BY <1>5 DEF Gets
<1>13. CASE r = c
  <2>1. r.k.num = a.num
    BY <1>10, <1>13 DEF Same, Fields
  <2> QED  BY <1>8, <1>10, <1>12, <1>13, <2>1 DEF Same
<1>14. CASE r = Done(a)
  <2>1. r.k = a
    BY <1>14 DEF Done
  <2> QED  BY <1>8, <1>12, <2>1 DEF Same
<1> QED  BY <1>11, <1>13, <1>14

-------------------------------------------------------------------------------
(* The birth of the child, and its failure.                                *)

Lives(frozen) == IF frozen THEN "holder" ELSE "live"
Knows(k, src, prefix) == IF prefix > 0 THEN prefix ELSE Rowed(k, src, 0)
Copied(txt, src, dst, n) ==
  [y \in DOMAIN txt |-> IF y[1] = dst THEN SubSeq(txt[<<src, y[2]>>], 1, n) ELSE txt[y]]
LEMMA ChildFields ==
  ASSUME NEW k, IsKv(k), NEW src, NEW dst, NEW frozen, NEW prefix, NEW g, g = Child(k, src, dst, frozen, prefix)
  PROVE  /\ IsKv(g) /\ Same(k, g, {"life", "floor", "txt"}) /\ g.life = Put(k.life, dst, Lives(frozen))
         /\ g.txt = Copied(k.txt, src, dst, Knows(k, src, prefix))
BY Zenon DEF Child, IsKv, Fields, Same, Put, Lives, Copied, Knows

LEMMA CopiedTexts ==
  ASSUME NEW txt, NEW rewinds, Texts(txt, rewinds), NEW src \in Ids, NEW dst \in Ids, NEW n \in Nat,
         \A m \in Layers : n <= Len(txt[<<src, m>>])
  PROVE  /\ Texts(Copied(txt, src, dst, n), rewinds) /\ OthersTexts(txt, Copied(txt, src, dst, n), dst)
         /\ \A m \in Layers : Len(Copied(txt, src, dst, n)[<<dst, m>>]) = n
<1>1. DOMAIN txt = Ids \X Layers /\ \A y \in Ids \X Layers : txt[y] \in Seq(Row)
  BY DEF Texts
<1>2. ASSUME NEW m \in Layers
      PROVE  SubSeq(txt[<<src, m>>], 1, n) \in Seq(Row) /\ Len(SubSeq(txt[<<src, m>>], 1, n)) = n
  <2>1. PICK t : t = txt[<<src, m>>]
    OBVIOUS
  <2>2. t \in Seq(Row) /\ n <= Len(t) /\ Len(t) \in Nat
    BY <1>1, <2>1, LenProperties
  <2>3. \A i \in 1..n : t[i] \in Row
    BY <2>2, ElementOfSeq
  <2>4. SubSeq(t, 1, n) \in Seq(Row) /\ Len(SubSeq(t, 1, n)) = IF 1 <= n THEN n - 1 + 1 ELSE 0
    BY <2>3, SubSeqProperties
  <2> QED  BY <2>1, <2>4
<1>3. \A y \in Ids \X Layers : y[2] \in Layers
  OBVIOUS
<1>4. Copied(txt, src, dst, n) \in [Ids \X Layers -> Seq(Row)]
  BY <1>1, <1>2, <1>3 DEF Copied
<1>5. OthersTexts(txt, Copied(txt, src, dst, n), dst)
  BY <1>1 DEF OthersTexts, Copied
<1>6. ASSUME NEW m \in Layers PROVE Len(Copied(txt, src, dst, n)[<<dst, m>>]) = n
  <2>1. PICK y : y = <<dst, m>>
    OBVIOUS
  <2>2. y \in Ids \X Layers /\ y[1] = dst /\ y[2] = m
    BY <2>1
  <2>3. Copied(txt, src, dst, n)[y] = SubSeq(txt[<<src, m>>], 1, n)
    BY <1>1, <2>2 DEF Copied
  <2> QED  BY <1>2, <2>1, <2>3
<1> QED  BY <1>4, <1>5, <1>6 DEF Texts

\* What a child is made of: its parent is between two steps, the others are in order.
Parent(k, src, dst, prefix) ==
  /\ Worded(k) /\ Others(k, dst) /\ k.pass[dst] = "none" /\ k.fail = "none"
  /\ TrailsBy(k.txt, src, 0) /\ prefix <= Len(k.txt[<<src, 0>>])

LEMMA ChildInv ==
  ASSUME NEW k, NEW src \in Ids, NEW dst \in Ids, src # dst, NEW prefix \in Nat, NEW frozen \in BOOLEAN,
         Child2(k, dst), Parent(k, src, dst, prefix), NEW g, g = Child(k, src, dst, frozen, prefix)
  PROVE  Inv(g) /\ g.fail = "none"
<1>1. IsKv(k) /\ Good(k, {dst}) /\ Numbered(k, dst)
  BY DEF Child2, Good, Base
<1>2. PICK n : n = Knows(k, src, prefix)
  OBVIOUS
<1>3. /\ IsKv(g) /\ Same(k, g, {"life", "floor", "txt"}) /\ g.life = Put(k.life, dst, Lives(frozen))
      /\ g.txt = Copied(k.txt, src, dst, n)
  BY <1>1, <1>2, ChildFields
<1>4. g.pass = k.pass /\ g.rewinds = k.rewinds /\ g.fail = k.fail
  BY <1>3 DEF Same, Fields
<1>5. Texts(k.txt, k.rewinds)
  BY DEF Parent, Worded
<1>6. 0 \in Layers /\ (\A l \in Layers : Len(k.txt[<<src, l>>]) \in Nat)
  BY <1>5, Lens
<1>7. \A l \in Layers : Len(k.txt[<<src, l>>]) = Len(k.txt[<<src, 0>>])
  BY <1>5, Flat DEF Parent
<1>8. n \in Nat /\ \A m \in Layers : n <= Len(k.txt[<<src, m>>])
  BY <1>2, <1>6, <1>7 DEF Knows, Rowed, Parent
<1>9. /\ Texts(g.txt, k.rewinds) /\ OthersTexts(k.txt, g.txt, dst)
      /\ \A m \in Layers : Len(g.txt[<<dst, m>>]) = n
  BY <1>3, <1>5, <1>8, CopiedTexts
<1>10. DOMAIN k.life = Ids /\ Lives(frozen) \in {"live", "holder"}
  BY DEF Parent, Others, Lives
<1>11. Adopts(k.life, g.life, dst)
  BY <1>3, <1>10 DEF Adopts, Put
<1>12. Same(k, g, Inert \cup {"life"})
  BY <1>3 DEF Same, Inert
<1>13. Good(g, {})
  BY <1>1, <1>3, <1>11, <1>12, AdoptKeeps
<1>14. ASSUME NEW q \in Ids
       PROVE  /\ g.pass[q] # "none" => g.life[q] = "live" /\ Uneven(g.txt, q)
              /\ TrailsBy(g.txt, q, Unit(g.pass[q]))
  <2>1. CASE q = dst
    <3>1. Unit("none") = 0 /\ n = n + 0 * 0
      BY <1>8 DEF Unit
    <3>2. TrailsBy(g.txt, q, Unit(g.pass[q]))
      BY <1>4, <1>6, <1>9, <2>1, <3>1 DEF TrailsBy, Parent
    <3> QED  BY <1>4, <2>1, <3>2 DEF Parent
  <2>2. CASE q # dst
    <3>1. \A l \in Layers : g.txt[<<q, l>>] = k.txt[<<q, l>>]
      BY <1>9, <2>2 DEF OthersTexts
    <3>2. /\ k.pass[q] # "none" => k.life[q] = "live" /\ Uneven(k.txt, q)
          /\ TrailsBy(k.txt, q, Unit(k.pass[q])) /\ g.pass[q] = k.pass[q] /\ g.life[q] = k.life[q]
      BY <1>4, <1>11, <2>2 DEF Parent, Others, Adopts
    <3>3. TrailsBy(g.txt, q, Unit(g.pass[q]))
      BY <1>6, <3>1, <3>2 DEF TrailsBy
    <3>4. Uneven(k.txt, q) => Uneven(g.txt, q)
      BY <1>6, <3>1 DEF Uneven
    <3> QED  BY <3>2, <3>3, <3>4
  <2> QED  BY <2>1, <2>2
<1>15. PassOk(g.pass, g.life, g.txt, g.fail)
  BY <1>4, <1>14 DEF PassOk, Parent, Others, Fails
<1> QED  BY <1>4, <1>9, <1>13, <1>15 DEF Inv, Worded, Parent

LEMMA UndoneInv ==
  ASSUME NEW k, NEW dst \in Ids, NEW D \in SUBSET {dst}, Good(k, D), Worded(k), Others(k, dst), k.fail = "none",
         NEW g, g = undo_fork(k, dst)
  PROVE  Inv(g) /\ g.fail = "none"
<1>1. g = Ended(k, dst, "unborn")
  BY DEF undo_fork
<1>2. Good(g, {}) /\ Forgotten(k, g, dst, "unborn")
  BY <1>1, EndedKeeps
<1> QED  BY <1>2, ForgottenInv DEF Forgotten

LEMMA BornInv ==
  ASSUME NEW f, NEW src \in Ids, NEW dst \in Ids, src # dst, NEW prefix \in Nat, NEW frozen \in BOOLEAN, NEW reserved \in BOOLEAN,
         Child2(f.k, dst), Parent(f.k, src, dst, prefix), NEW g, g = Born(f, src, dst, frozen, prefix, reserved)
  PROVE  Inv(g)
<1>1. Worded(f.k) /\ Others(f.k, dst) /\ f.k.fail = "none" /\ Good(f.k, {dst}) /\ {dst} \in SUBSET {dst} /\ {} \in SUBSET {dst}
  BY DEF Parent, Child2
<1>2. PICK born : born = Child(f.k, src, dst, frozen, prefix)
  OBVIOUS
<1>3. Inv(born) /\ born.fail = "none"
  BY <1>2, ChildInv
<1>4. PICK r : r = IF prefix > 0 THEN repromote_for_rewind(born, dst, prefix) ELSE Done(born)
  OBVIOUS
<1>5. Good(born, {}) /\ Worded(born)
  BY <1>3 DEF Inv
<1>6. Good(r.k, {}) /\ Stays(born, r.k)
  <2>1. CASE prefix > 0
    <3>1. r = repromote_for_rewind(born, dst, prefix)
      BY <1>4, <2>1
    <3> QED  BY <1>5, <3>1, RewindKeeps
  <2>2. CASE ~ (prefix > 0)
    <3>1. r.k = born
      BY <1>4, <2>2 DEF Done
    <3> QED  BY <1>5, <3>1, StaysSelf
  <2> QED  BY <2>1, <2>2
<1>7. /\ r.k.txt = born.txt /\ r.k.pass = born.pass /\ r.k.life = born.life /\ r.k.rewinds = born.rewinds
      /\ r.k.fail = born.fail
  BY <1>6, StaysWhat
<1>8. Worded(r.k)
  BY <1>5, <1>7 DEF Worded
<1>9. Inv(r.k) /\ r.k.fail = "none"
  BY <1>3, <1>6, <1>7, <1>8, PassKept DEF Fails
<1>10. Others(r.k, dst)
  BY <1>9, OthersInv
<1>11. g = undo_fork(f.k, dst) \/ g = r.k \/ g = undo_fork(r.k, dst)
  BY <1>2, <1>4, Zenon DEF Born, lift_child, undo_unless
<1>12. CASE g = undo_fork(f.k, dst)
  BY <1>1, <1>12, UndoneInv
<1>13. CASE g = r.k
  BY <1>9, <1>13
<1>14. CASE g = undo_fork(r.k, dst)
  BY <1>1, <1>6, <1>8, <1>9, <1>10, <1>14, UndoneInv
<1> QED  BY <1>11, <1>12, <1>13, <1>14

LEMMA ParentSame ==
  ASSUME NEW k, NEW src, NEW dst, NEW prefix, Parent(k, src, dst, prefix), NEW g, g.txt = k.txt,
         g.rewinds = k.rewinds, g.pass = k.pass, g.life = k.life, g.fail = k.fail
  PROVE  Parent(g, src, dst, prefix)
BY DEF Parent, Worded, Others

LEMMA HandleForkInv ==
  ASSUME NEW k, Inv(k), NEW src \in Ids, NEW dst \in Ids, src # dst, NEW prefix \in Nat, NEW frozen \in BOOLEAN, NEW reserved \in BOOLEAN, NEW blocks \in Nat,
         Parent(k, src, dst, prefix), k.life[dst] \notin {"live", "holder"},
         NEW g, g = handle_seq_fork(k, src, dst, frozen, prefix, reserved, blocks)
  PROVE  Inv(g)
<1>1. Good(k, {}) /\ Worded(k) /\ k.fail = "none"
  BY DEF Inv, Parent
<1>2. PICK u : u = unspill_seq(k, src, blocks)
  OBVIOUS
<1>3. Good(u.k, {}) /\ Stays(k, u.k) /\ (u.ok => u.k.file[src] = 0)
  BY <1>1, <1>2, UnspillKeeps
<1>4. /\ u.k.txt = k.txt /\ u.k.pass = k.pass /\ u.k.life = k.life /\ u.k.rewinds = k.rewinds
      /\ u.k.fail = k.fail
  BY <1>3, StaysWhat
<1>5. Worded(u.k)
  BY <1>1, <1>4 DEF Worded
<1>6. CASE ~ u.ok
  <2>1. g = u.k
    BY <1>2, <1>6, Zenon DEF handle_seq_fork, fork_read
  <2>2. Inv(u.k)
    BY <1>1, <1>3, <1>4, <1>5, PassKept DEF Fails
  <2> QED  BY <2>1, <2>2
<1>7. CASE u.ok
  <2>1. PICK b : b = on_seq_fork(u.k, src, dst, prefix)
    OBVIOUS
  <2>2. Child1(b, src, dst, prefix) /\ Same(u.k, b, Forks)
    BY <1>3, <1>4, <1>7, <2>1, OnForkKeeps
  <2>3. /\ b.txt = u.k.txt /\ b.pass = u.k.pass /\ b.life = u.k.life /\ b.rewinds = u.k.rewinds
        /\ b.fail = u.k.fail
    BY <2>2 DEF Same, Fields, Forks, TierFields
  <2>4. PICK f : f = fork_pages(b, src, dst, frozen, prefix)
    OBVIOUS
  <2>5. Child2(f.k, dst) /\ Same(b, f.k, {"ref", "vram", "pg", "num"})
    BY <2>2, <2>4, ForkPagesKeeps
  <2>6. /\ f.k.txt = b.txt /\ f.k.pass = b.pass /\ f.k.life = b.life /\ f.k.rewinds = b.rewinds
        /\ f.k.fail = b.fail
    BY <2>5 DEF Same, Fields
  <2>7. Parent(f.k, src, dst, prefix)
    <3>1. PICK h : h = f.k
      OBVIOUS
    <3>2. h.txt = k.txt /\ h.pass = k.pass /\ h.life = k.life /\ h.rewinds = k.rewinds /\ h.fail = k.fail
      BY <1>4, <2>3, <2>6, <3>1
    <3>3. Parent(h, src, dst, prefix)
      BY <3>2, ParentSame
    <3> QED  BY <3>1, <3>3
  <2>8. g = Born(f, src, dst, frozen, prefix, reserved)
    <3>1. g = Forked(b, src, dst, frozen, prefix, reserved)
      BY <1>2, <1>7, <2>1, Zenon DEF handle_seq_fork, fork_read
    <3>2. b.fail = "none"
      BY <1>1, <1>4, <2>3
    <3> QED  BY <2>4, <3>1, <3>2, Zenon DEF Forked
  <2> QED  BY <2>5, <2>7, <2>8, BornInv
<1> QED  BY <1>6, <1>7

LEMMA ForkKeeps ==
  ASSUME Inv(kv), kv.fail = "none", NEW src \in Ids, NEW dst \in Ids, seq_fork(src, dst)
  PROVE  Inv(kv')
<1>1. PICK g : g = kv'
  OBVIOUS
<1>2. PICK frozen \in BOOLEAN, prefix \in {n \in PrefixLens \cup {0} : n < Rowed(kv, src, 0)}, reserved \in BOOLEAN,
            blocks \in 0..SpillCap :
        g = handle_seq_fork(kv, src, dst, frozen, prefix, reserved, blocks)
  BY <1>1, Zenon DEF seq_fork
<1>3. /\ kv.life[src] = "holder" \/ (kv.life[src] = "live" /\ kv.pass[src] = "none")
      /\ kv.life[dst] = "unborn"
  BY Zenon DEF seq_fork, Idle, NewId
<1>4. src # dst /\ kv.life[dst] \notin {"live", "holder"}
  BY <1>3
<1>5. /\ Texts(kv.txt, kv.rewinds) /\ TrailsBy(kv.txt, src, Unit(kv.pass[src])) /\ Worded(kv)
      /\ kv.pass[src] # "none" => kv.life[src] = "live"
      /\ kv.pass[dst] # "none" => kv.life[dst] = "live"
  BY InvParts
<1>6. kv.pass[src] = "none" /\ kv.pass[dst] = "none"
  BY <1>3, <1>5
<1>7. prefix \in Nat /\ prefix < Len(kv.txt[<<src, 0>>]) /\ Len(kv.txt[<<src, 0>>]) \in Nat
  <2>1. prefix \in Nat
    BY KvAssumption
  <2>2. prefix < Len(kv.txt[<<src, 0>>])
    BY DEF Rowed
  <2>3. Len(kv.txt[<<src, 0>>]) \in Nat
    BY <1>5, Lens, KvAssumption
  <2> QED  BY <2>1, <2>2, <2>3
<1>0. blocks \in Nat
  BY KvAssumption
<1>8. Unit("none") = 0
  BY DEF Unit
<1>9. Others(kv, dst)
  BY OthersInv
<1>10. Parent(kv, src, dst, prefix)
  BY <1>5, <1>6, <1>7, <1>8, <1>9 DEF Parent
<1>11. Inv(g)
  BY <1>0, <1>2, <1>4, <1>7, <1>10, HandleForkInv
<1> QED  BY <1>1, <1>11

-------------------------------------------------------------------------------
(* The other commands; every step keeps the invariant.                     *)

\* A step of the manager alone.
LEMMA ManagerInv ==
  ASSUME NEW k, Inv(k), k.fail = "none", NEW g, Good(g, {}), g.txt = k.txt, g.rewinds = k.rewinds,
         g.pass = k.pass, g.life = k.life, g.fail = k.fail
  PROVE  Inv(g)
<1>1. Worded(g)
  BY DEF Inv, Worded
<1> QED  BY <1>1, PassKept DEF Fails

Sleeps(k, s) == [k EXCEPT !.hibernated[s] = "yes"]
LEMMA SleepsKeeps ==
  ASSUME NEW k, Good(k, {}), NEW s \in Ids, k.life[s] = "holder", NEW g, g = Sleeps(k, s)
  PROVE  Good(g, {}) /\ Same(k, g, {"hibernated"})
<1> USE DEF Good
<1>1. IsKv(k)
  BY DEF Base
<1>2. IsKv(g) /\ Same(k, g, {"hibernated"}) /\ g.hibernated = Put(k.hibernated, s, "yes")
  BY <1>1, Zenon DEF Sleeps, IsKv, Fields, Same, Put
<1>3. /\ g.ref = k.ref /\ g.cold_ref = k.cold_ref /\ g.pg = k.pg /\ g.num = k.num /\ g.life = k.life
      /\ g.st = k.st /\ g.seen = k.seen /\ g.frontier = k.frontier /\ g.demoted = k.demoted
      /\ g.flying = k.flying /\ g.used = k.used /\ g.file = k.file
      /\ g.pend = k.pend /\ g.stream = k.stream /\ g.landed = k.landed
      /\ g.spilled_total = k.spilled_total /\ g.total = k.total
  BY <1>2 DEF Same, Fields
<1>4. DormantOk(k.life, k.num, k.st, k.pg, k.hibernated, k.seen, {})
  BY DEF Base
<1>5. DOMAIN g.hibernated = Ids /\ \A q \in Ids \ {s} : g.hibernated[q] = k.hibernated[q]
  BY <1>2, <1>4 DEF Put, DormantOk
<1>6. DormantOk(g.life, g.num, g.st, g.pg, g.hibernated, g.seen, {})
  BY <1>3, <1>4, <1>5 DEF DormantOk
<1> QED  BY <1>2, <1>3, <1>6 DEF Base

LEMMA HibernateSeqKeeps ==
  ASSUME NEW k, Good(k, {}), NEW s \in Ids, k.life[s] = "holder", NEW g, g = hibernate_seq(k, s)
  PROVE  Good(g, {}) /\ Same(k, g, TierFields \cup {"hibernated"})
<1>1. PICK h : h = Sleeps(k, s)
  OBVIOUS
<1>2. Good(h, {}) /\ Same(k, h, {"hibernated"})
  BY <1>1, SleepsKeeps
<1>3. PICK a : a = flush_pending(h, TRUE)
  OBVIOUS
<1>4. Good(a, {}) /\ Stays(h, a)
  BY <1>2, <1>3, FlushKeeps
<1>5. PICK b : b = collect_layer_range(a, s, Layers, a.num[s] * PageSize,
                                       MinOf(Rowed(a, s, 0) \div PageSize, a.num[s] - 1))
  OBVIOUS
<1>6. Good(b, {}) /\ Stays(a, b)
  BY <1>4, <1>5, CollectRangeKeeps
<1>7. PICK c : c = flush_pending(b, FALSE)
  OBVIOUS
<1>8. Good(c, {}) /\ Stays(b, c)
  BY <1>6, <1>7, FlushKeeps
<1>9. g = poll_demotions(c)
  BY <1>1, <1>3, <1>5, <1>7, Zenon DEF hibernate_seq, Sleeps
<1>10. Good(g, {}) /\ Stays(c, g)
  BY <1>8, <1>9, PollKeeps
<1> QED  BY <1>2, <1>4, <1>6, <1>8, <1>10 DEF Stays, Same, TierFields

LEMMA HibernateKeeps ==
  ASSUME Inv(kv), kv.fail = "none", NEW s \in Ids, seq_hibernate(s)
  PROVE  Inv(kv')
<1>1. PICK g : g = kv'
  OBVIOUS
<1>2. PICK k : k = hibernate_seq(kv, s)
  OBVIOUS
<1>3. kv.life[s] = "holder" /\ Good(kv, {})
  BY DEF seq_hibernate, Inv
<1>4. Good(k, {}) /\ Same(kv, k, TierFields \cup {"hibernated"})
  BY <1>2, <1>3, HibernateSeqKeeps
<1>5. PICK d : d = drain_demotions(k)
  OBVIOUS
<1>6. Good(d, {}) /\ Stays(k, d)
  BY <1>4, <1>5, DrainKeeps
<1>7. g = k \/ \E written \in BOOLEAN : g = spill_seq(d, s, written)
  BY <1>1, <1>2, <1>5, Zenon DEF seq_hibernate
<1>8. Good(g, {}) /\ Same(kv, g, TierFields \cup {"hibernated"})
  <2>1. CASE g = k
    BY <1>4, <2>1
  <2>2. CASE \E written \in BOOLEAN : g = spill_seq(d, s, written)
    <3>1. PICK written \in BOOLEAN : g = spill_seq(d, s, written)
      BY <2>2
    <3>2. Good(g, {}) /\ Stays(d, g)
      BY <1>6, <3>1, SpillKeeps
    <3> QED  BY <1>4, <1>6, <3>2 DEF Stays, Same
  <2> QED  BY <1>7, <2>1, <2>2
<1>9. g.txt = kv.txt /\ g.rewinds = kv.rewinds /\ g.pass = kv.pass /\ g.life = kv.life /\ g.fail = kv.fail
  BY <1>8 DEF Same, Fields, TierFields
<1>10. Inv(g)
  BY <1>8, <1>9, ManagerInv
<1> QED  BY <1>1, <1>10

LEMMA SnapshotKeeps ==
  ASSUME Inv(kv), kv.fail = "none", NEW s \in Ids, seq_snapshot(s)
  PROVE  Inv(kv')
<1>1. PICK g : g = kv'
  OBVIOUS
<1>2. PICK d : d = drain_demotions(kv)
  OBVIOUS
<1>3. Good(kv, {})
  BY DEF Inv
<1>4. Good(d, {}) /\ Stays(kv, d)
  BY <1>2, <1>3, DrainKeeps
<1>0. PICK blocks \in 0..SpillCap : g = unspill_seq(d, s, blocks).k
  BY <1>1, <1>2, Zenon DEF seq_snapshot
<1>5. PICK r : r = unspill_seq(d, s, blocks)
  OBVIOUS
<1>6. Good(r.k, {}) /\ Stays(d, r.k)
  BY <1>0, <1>4, <1>5, UnspillKeeps, KvAssumption
<1>7. g = r.k
  BY <1>0, <1>5
<1>8. g.txt = kv.txt /\ g.rewinds = kv.rewinds /\ g.pass = kv.pass /\ g.life = kv.life /\ g.fail = kv.fail
  BY <1>4, <1>6, <1>7, StaysWhat
<1>9. Inv(g)
  BY <1>6, <1>7, <1>8, ManagerInv
<1> QED  BY <1>1, <1>9

LEMMA CopyKeeps ==
  ASSUME Inv(kv), kv.fail = "none", d2h
  PROVE  Inv(kv')
<1>1. PICK g : g = kv'
  OBVIOUS
<1>2. Good(kv, {}) /\ Base(kv, {}) /\ kv.stream # <<>>
  BY DEF d2h, Inv, Good
<1>3. PICK items : items = Head(kv.stream)
  OBVIOUS
<1>4. PICK S : S = Tail(kv.stream)
  OBVIOUS
<1>5. Landing(kv.landed, kv.stream, items, S)
  BY <1>2, <1>3, <1>4, HeadLands
<1>6. IsKv(kv)
  BY <1>2 DEF Base
<1>7. land(kv, items).stream = kv.stream
  BY <1>6, Zenon DEF land, IsKv, Fields
<1>8. g = [land(kv, items) EXCEPT !.stream = Tail(@)]
  BY <1>1, <1>3 DEF d2h
<1>9. PICK l : l = land(kv, items)
  OBVIOUS
<1>10. g = [l EXCEPT !.stream = S]
  BY <1>4, <1>7, <1>8, <1>9, Zenon
<1>11. g = Landed(kv, items, S)
  BY <1>9, <1>10 DEF Landed
<1>12. Good(g, {}) /\ Stays(kv, g)
  BY <1>2, <1>5, <1>11, LandKeeps
<1>13. g.txt = kv.txt /\ g.rewinds = kv.rewinds /\ g.pass = kv.pass /\ g.life = kv.life /\ g.fail = kv.fail
  BY <1>12, StaysWhat
<1>14. Inv(g)
  BY <1>12, <1>13, ManagerInv
<1> QED  BY <1>1, <1>14

Lively(a, s) == [a EXCEPT !.life[s] = "live"]
LEMMA CreateKeeps ==
  ASSUME Inv(kv), kv.fail = "none", NEW s \in Ids, seq_create(s)
  PROVE  Inv(kv')
<1>1. PICK g : g = kv'
  OBVIOUS
<1>2. PICK n : n = MinOf((Chunk + PageSize - 1) \div PageSize + Growth, MaxPages)
  OBVIOUS
<1>3. PICK a : a = append_pages(kv, s, n)
  OBVIOUS
<1>4. kv.life[s] = "unborn" /\ n * NumLayers <= Cardinality(FreePages(kv)) /\ g = Lively(a, s)
  BY <1>1, <1>2, <1>3, Zenon DEF seq_create, NewId, Lively
<1>5. n \in Nat /\ n <= MaxPages
  <2>1. Chunk + PageSize - 1 \in Nat /\ PageSize \in Nat \ {0} /\ Growth \in Nat /\ MaxPages \in Nat
    BY KvAssumption
  <2>2. \A b \in Nat : b \div PageSize \in Nat
    BY <2>1
  <2> QED  BY <1>2, <2>1, <2>2 DEF MinOf
<1>6. Good(kv, {}) /\ Worded(kv) /\ PassOk(kv.pass, kv.life, kv.txt, kv.fail)
  BY DEF Inv
<1>7. kv.num[s] = 0 /\ DOMAIN kv.life = Ids
  BY <1>4, <1>6 DEF Good, Base, DormantOk
<1>8. kv.num[s] + n <= MaxPages
  BY <1>5, <1>7
<1>9. Good(a, {s}) /\ Same(kv, a, {"ref", "pg", "num"}) /\ Numbered(a, s)
  BY <1>3, <1>4, <1>5, <1>6, <1>8, AppendKeeps
<1>10. IsKv(a) /\ a.life = kv.life /\ a.pass = kv.pass /\ a.txt = kv.txt /\ a.rewinds = kv.rewinds /\ a.fail = kv.fail
  BY <1>9 DEF Good, Base, Same, Fields
<1>11. IsKv(g) /\ Same(a, g, {"life"}) /\ g.life = Put(a.life, s, "live")
  BY <1>4, <1>10, Zenon DEF Lively, IsKv, Fields, Same, Put
<1>12. Adopts(a.life, g.life, s) /\ g.life[s] = "live" /\ (\A q \in Ids \ {s} : g.life[q] = kv.life[q])
  BY <1>7, <1>10, <1>11 DEF Adopts, Put
<1>13. Same(a, g, Inert \cup {"life"})
  BY <1>11 DEF Same
<1>14. Good(g, {})
  BY <1>9, <1>11, <1>12, <1>13, AdoptKeeps
<1>15. g.pass = kv.pass /\ g.txt = kv.txt /\ g.rewinds = kv.rewinds /\ g.fail = kv.fail
  BY <1>10, <1>11 DEF Same, Fields
<1>16. PassOk(g.pass, g.life, g.txt, g.fail)
  BY <1>6, <1>12, <1>15 DEF PassOk
<1>17. Inv(g)
  BY <1>6, <1>14, <1>15, <1>16 DEF Inv, Worded
<1> QED  BY <1>1, <1>17

LEMMA InitInv ==
  ASSUME Init
  PROVE  Inv(kv) /\ kv.fail = "none"
<1>1. /\ IsKv(kv) /\ kv.ref = [h \in Pages |-> 0] /\ kv.cold_ref = [c \in Slots |-> 0]
      /\ kv.pg = [x \in Cells |-> Neutral] /\ kv.num = [s \in Ids |-> 0]
  BY Zenon DEF Init, IsKv, Fields
<1>2. /\ kv.life = [s \in Ids |-> "unborn"] /\ kv.txt = [y \in Ids \X Layers |-> <<>>]
      /\ kv.pass = [s \in Ids |-> "none"] /\ kv.rewinds = [s \in Ids |-> 0] /\ kv.st = [x \in Cells |-> Hot]
      /\ kv.fail = "none"
  BY Zenon DEF Init
<1>3. /\ kv.seen = [s \in Ids |-> 0] /\ kv.frontier = [s \in Ids |-> 0] /\ kv.demoted = [s \in Ids |-> 0]
      /\ kv.flying = [s \in Ids |-> 0] /\ kv.used = [s \in Ids |-> 0] /\ kv.hibernated = [s \in Ids |-> "no"]
      /\ kv.file = [s \in Ids |-> 0]
  BY Zenon DEF Init
<1>4. kv.pend = NoPend /\ kv.stream = <<>> /\ kv.landed = {} /\ kv.spilled_total = 0 /\ kv.total = 0
  BY Zenon DEF Init
<1>5. DOMAIN kv.st = Cells /\ \A x \in Cells : kv.st[x].tier = "hot" /\ kv.st[x].slot = 0 /\ kv.pg[x] = Neutral
  BY <1>1, <1>2 DEF Hot
<1>6. EntriesOk(kv.st, kv.pg)
  BY <1>1, <1>5, KvAssumption DEF EntriesOk, Neutral, Tiers, Slotted
<1>7. Counted(kv.ref, Pages, kv.pg)
  <2>1. \A h \in Pages : Uses(kv.pg, Cells, h) = 0
    BY <1>5, PagesPositive, NoUses
  <2> QED  BY <1>1, <2>1 DEF Counted
<1>8. Counted(kv.cold_ref, Slots, SlotOf(kv.st))
  <2>0. \A x \in Cells : SlotOf(kv.st)[x] = 0
    BY <1>5 DEF SlotOf
  <2>1. \A c \in Slots : Uses(SlotOf(kv.st), Cells, c) = 0
    BY <2>0, PagesPositive, NoUses
  <2> QED  BY <1>1, <2>1 DEF Counted
<1>9. CountsOk(kv.st, kv.demoted, kv.flying, kv.used, kv.frontier, kv.file)
  <2>1. \A s \in Ids : SeqCounts(kv.st, s, 0, 0, 0, 0, 0)
    BY <1>5, CellParts, HotCounts
  <2> QED  BY <1>3, <2>1 DEF CountsOk
<1>10. TotalsOk(kv.total, kv.demoted, kv.spilled_total, kv.file)
  <2>1. SumOver(kv.demoted) = 0 /\ SumOver(kv.file) = 0
    BY <1>3, SumZero
  <2> QED  BY <1>4, <2>1, KvAssumption DEF TotalsOk
<1>11. PendOk(kv.pend, kv.st, kv.pg)
  BY <1>4, KvAssumption DEF PendOk, NoPend
<1>12. FlightOk(kv.landed, kv.stream, kv.st, kv.pg)
  BY <1>4, <1>5 DEF FlightOk, ItemsOk, Apart
<1>13. NumberedOk(kv.num, kv.st, kv.pg, {})
  BY <1>1, <1>5, KvAssumption DEF NumberedOk, Owned
<1>14. DormantOk(kv.life, kv.num, kv.st, kv.pg, kv.hibernated, kv.seen, {})
  BY <1>1, <1>2, <1>3, <1>5 DEF DormantOk, Owned
<1>15. Good(kv, {})
  BY <1>1, <1>6, <1>7, <1>8, <1>9, <1>10, <1>11, <1>12, <1>13, <1>14 DEF Good, Base
<1>16. <<>> \in Seq(Row) /\ Len(<<>>) = 0 /\ 0 = 0 + 0 * 0 /\ 0 \in Layers
  BY KvAssumption DEF Layers
<1>17. Worded(kv)
  BY <1>2, <1>16 DEF Worded, Texts
<1>18. \A s \in Ids : TrailsBy(kv.txt, s, Unit(kv.pass[s]))
  <2> SUFFICES ASSUME NEW s \in Ids, NEW l \in Layers
               PROVE  \E n \in Nat : Len(kv.txt[<<s, 0>>]) = Len(kv.txt[<<s, l>>]) + n * Unit(kv.pass[s])
    BY DEF TrailsBy
  <2>1. kv.txt[<<s, 0>>] = <<>> /\ kv.txt[<<s, l>>] = <<>>
    BY <1>2, <1>16
  <2>2. Unit(kv.pass[s]) = 0
    BY <1>2 DEF Unit
  <2>3. Len(kv.txt[<<s, 0>>]) = 0 /\ Len(kv.txt[<<s, l>>]) = 0
    BY <1>16, <2>1
  <2> QED  BY <1>16, <2>2, <2>3
<1>19. PassOk(kv.pass, kv.life, kv.txt, kv.fail)
  BY <1>2, <1>18 DEF PassOk, Fails
<1> QED  BY <1>2, <1>15, <1>17, <1>19 DEF Inv

LEMMA NextInv ==
  ASSUME Inv(kv), [Next]_kv
  PROVE  Inv(kv')
<1>1. CASE UNCHANGED kv
  BY <1>1
<1>2. CASE Next
  <2>0. kv.fail = "none"
    BY <1>2 DEF Next
  <2>1. CASE d2h
    BY <2>0, <2>1, CopyKeeps
  <2>2. ASSUME NEW s \in Ids,
               \/ seq_create(s) \/ decode(s) \/ prefill(s, "chunk") \/ prefill(s, "dense")
               \/ seq_free(s) \/ seq_hibernate(s) \/ seq_snapshot(s)
        PROVE  Inv(kv')
    BY <2>0, <2>2, CreateKeeps, DecodeKeeps, PrefillKeeps, FreedKeeps, HibernateKeeps, SnapshotKeeps
  <2>3. ASSUME NEW s \in Ids, NEW d \in Ids, seq_fork(s, d) PROVE Inv(kv')
    BY <2>0, <2>3, ForkKeeps
  <2> QED  BY <1>2, <2>1, <2>2, <2>3 DEF Next
<1> QED  BY <1>1, <1>2

-------------------------------------------------------------------------------
(* The accounts.                                                           *)

LEMMA InvAccounts ==
  ASSUME Inv(kv)
  PROVE  KvAccountsExact
<1>1. /\ EntriesOk(kv.st, kv.pg)
      /\ Counted(kv.ref, Pages, kv.pg) /\ Counted(kv.cold_ref, Slots, SlotOf(kv.st))
      /\ CountsOk(kv.st, kv.demoted, kv.flying, kv.used, kv.frontier, kv.file)
      /\ TotalsOk(kv.total, kv.demoted, kv.spilled_total, kv.file)
      /\ DormantOk(kv.life, kv.num, kv.st, kv.pg, kv.hibernated, kv.seen, {})
  BY DEF Inv, Good, Base
<1>2. \A x \in Cells : Owned(kv.st, kv.pg, x) => x \in HeldCells(kv)
  BY <1>1, CellParts DEF DormantOk, HeldCells, Held
<1>3. HeldCells(kv) \subseteq Cells
  BY DEF HeldCells
<1>4. kv.ref = Handles(kv, HeldCells(kv))
  <2>1. ASSUME NEW h \in Pages PROVE {x \in Cells : kv.pg[x] = h} = {x \in HeldCells(kv) : kv.pg[x] = h}
    BY <1>2, <1>3, PagesPositive DEF Owned
  <2>2. kv.ref \in [Pages -> Int] /\ \A h \in Pages : kv.ref[h] = Cardinality({x \in HeldCells(kv) : kv.pg[x] = h})
    BY <1>1, <2>1 DEF Counted, Uses
  <2>3. PICK f : f = Handles(kv, HeldCells(kv))
    OBVIOUS
  <2>4. /\ f = [h \in Pages |-> Cardinality({x \in HeldCells(kv) : kv.pg[x] = h})]
    BY <2>3 DEF Handles
  <2> QED  BY <2>2, <2>3, <2>4
<1>5. kv.cold_ref = Copies(kv, HeldCells(kv))
  <2>1. ASSUME NEW c \in Slots PROVE {x \in Cells : SlotOf(kv.st)[x] = c} = {x \in HeldCells(kv) : kv.st[x].slot = c}
    <3>1. \A x \in Cells : SlotOf(kv.st)[x] = kv.st[x].slot
      BY DEF SlotOf
    <3>2. \A x \in Cells : kv.st[x].slot = c => Owned(kv.st, kv.pg, x)
      BY <1>1, PagesPositive DEF EntriesOk, Owned, Slotted
    <3> QED  BY <1>2, <1>3, <3>1, <3>2
  <2>2. kv.cold_ref \in [Slots -> Int] /\ \A c \in Slots : kv.cold_ref[c] = Cardinality({x \in HeldCells(kv) : kv.st[x].slot = c})
    BY <1>1, <2>1 DEF Counted, Uses
  <2>3. PICK f : f = Copies(kv, HeldCells(kv))
    OBVIOUS
  <2>4. f = [c \in Slots |-> Cardinality({x \in HeldCells(kv) : kv.st[x].slot = c})]
    BY <2>3 DEF Copies
  <2> QED  BY <2>2, <2>3, <2>4
<1>6. ASSUME NEW s \in Ids
      PROVE  /\ kv.demoted[s] = Cardinality(Of(s) \ InTier(kv, s, "hot"))
             /\ kv.flying[s] = Cardinality(InTier(kv, s, "inflight"))
             /\ kv.used[s] = Cardinality({x \in Of(s) : kv.st[x].slot # 0})
             /\ kv.frontier[s] = Frontier(kv, s)
             /\ (kv.file[s] > 0) <=> InTier(kv, s, "spilled") # {}
  <2>1. SeqCounts(kv.st, s, kv.demoted[s], kv.flying[s], kv.used[s], kv.frontier[s], kv.file[s])
    BY <1>1 DEF CountsOk
  <2>2. \A x \in Of(s) : kv.st[x].tier \in Tiers /\ ((kv.st[x].slot # 0) <=> (kv.st[x].tier \in Slotted))
    BY <1>1, CellParts DEF EntriesOk
  <2>3. Of(s) \ InTier(kv, s, "hot") = Tier(kv.st, s, Lower)
    BY <2>2 DEF InTier, Tier, Lower, Tiers
  <2>4. InTier(kv, s, "inflight") = Tier(kv.st, s, {"inflight"}) /\ InTier(kv, s, "spilled") = Tier(kv.st, s, {"spilled"})
    BY DEF InTier, Tier
  <2>5. {x \in Of(s) : kv.st[x].slot # 0} = Tier(kv.st, s, Slotted)
    BY <2>2 DEF Tier
  <2>6. Frontier(kv, s) = EndOf(0, Tier(kv.st, s, Lower)) /\ LastEnd(kv.frontier[s], Tier(kv.st, s, Lower))
    BY <2>1, <2>2, FrontierIs DEF SeqCounts
  <2>7. kv.frontier[s] = Frontier(kv, s)
    BY <2>6, TierFinite, LastEndIs
  <2> QED  BY <2>1, <2>3, <2>4, <2>5, <2>7 DEF SeqCounts
<1> QED  BY <1>1, <1>4, <1>5, <1>6 DEF KvAccountsExact, TotalsOk

KvInv == Inv(kv)

\* The references of pages and slots, and the counters of the manager, are exact in
\* every reachable state: whatever is demoted, spilled, promoted, forked (or not, if a
\* fork fails half-way), rewound and freed, no page or slot is lost or freed twice.
THEOREM AccountsExact == Spec => []KvAccountsExact
<1>1. Init => KvInv
  BY InitInv DEF KvInv
<1>2. KvInv /\ [Next]_kv => KvInv'
  <2> SUFFICES ASSUME KvInv, [Next]_kv PROVE KvInv'
    OBVIOUS
  <2>1. Inv(kv')
    BY NextInv DEF KvInv
  <2> QED  BY <2>1 DEF KvInv
<1>3. KvInv => KvAccountsExact
  BY InvAccounts DEF KvInv
<1> QED  BY <1>1, <1>2, <1>3, PTL DEF Spec

\* Of the checks that throw, only INV-KVT-2, a write into a demoted page, is left to the
\* window and to the rewinds: whatever the sizes, and with any rewind, fork, pressure and
\* failure half-way, a fork never sees pages in a file and no slot is released twice.
KvOnlyWritesFail == kv.fail \in {"none", "INV-KVT-2"}

\* That is so for every value of the constants (on_seq_fork and the releases of
\* kv_tiering_manager.cpp; check_write_pages is what is left).
THEOREM OnlyWritesFail == Spec => []KvOnlyWritesFail
<1>1. Init => KvInv
  BY InitInv DEF KvInv
<1>2. KvInv /\ [Next]_kv => KvInv'
  <2> SUFFICES ASSUME KvInv, [Next]_kv PROVE KvInv'
    OBVIOUS
  <2>1. Inv(kv')
    BY NextInv DEF KvInv
  <2> QED  BY <2>1 DEF KvInv
<1>3. KvInv => KvOnlyWritesFail
  BY DEF KvInv, Inv, PassOk, Fails, KvOnlyWritesFail
<1> QED  BY <1>1, <1>2, <1>3, PTL DEF Spec

-------------------------------------------------------------------------------
(* What is demoted, or about to be.                                        *)

Going(k, x) == k.st[x].tier # "hot" \/ x \in Cargo(k.pend.items)
\* Nothing else is, from k to g, but for the cells B.
Ebbs(k, g, B) == \A x \in Cells : Going(g, x) => Going(k, x) \/ x \in B

LEMMA EbbsSelf ==
  ASSUME NEW k, NEW B
  PROVE  Ebbs(k, k, B)
BY DEF Ebbs

LEMMA EbbsTrans ==
  ASSUME NEW a, NEW b, NEW B, Ebbs(a, b, B), NEW c, NEW C, Ebbs(b, c, C)
  PROVE  Ebbs(a, c, B \cup C)
BY DEF Ebbs

LEMMA EbbsMore ==
  ASSUME NEW a, NEW b, NEW B, Ebbs(a, b, B), NEW C, B \subseteq C
  PROVE  Ebbs(a, b, C)
BY DEF Ebbs

LEMMA EbbsTwice ==
  ASSUME NEW a, NEW b, NEW B, Ebbs(a, b, B), NEW c, Ebbs(b, c, B)
  PROVE  Ebbs(a, c, B)
BY DEF Ebbs

\* Tiers and batch are what they were.
LEMMA EbbsSame ==
  ASSUME NEW k, NEW g, g.st = k.st, g.pend = k.pend
  PROVE  Ebbs(k, g, {}) /\ Ebbs(g, k, {})
BY DEF Ebbs, Going

\* The batch goes, or stays.
LEMMA EbbsTiering ==
  ASSUME NEW k, NEW g, NEW X, NEW a, NEW b, Tiering(k.st, g.st, X, a, b),
         a # "hot" \/ b = "hot" \/ X \subseteq Cargo(k.pend.items),
         g.pend = k.pend \/ g.pend.items = {}
  PROVE  Ebbs(k, g, {})
BY DEF Ebbs, Going, Tiering, Cargo

LEMMA FlushEbbs ==
  ASSUME NEW k, NEW D, Good(k, D), NEW fair_share, NEW g, g = flush_pending(k, fair_share)
  PROVE  Ebbs(k, g, {})
<1>1. Base(k, D) /\ IsKv(k)
  BY DEF Good, Base
<1>2. PICK items : items = Accepted(k, fair_share)
  OBVIOUS
<1>3. CASE k.pend.items = {}
  <2>1. g = k
    BY <1>3, Zenon DEF flush_pending
  <2> QED  BY <2>1, EbbsSelf
<1>4. CASE k.pend.items # {} /\ items = {}
  <2>1. g = [k EXCEPT !.pend = NoPend]
    BY <1>2, <1>4, Zenon DEF flush_pending
  <2>2. Same(k, g, {"pend"}) /\ g.pend = NoPend
    BY <1>1, <2>1, DropFields
  <2>3. g.st = k.st
    BY <2>2 DEF Same, Fields
  <2> QED  BY <2>2, <2>3 DEF Ebbs, Going, NoPend, Cargo
<1>5. CASE k.pend.items # {} /\ items # {}
  <2>1. PICK s : s = k.pend.seq
    OBVIOUS
  <2>2. g = accept(k, s, items)
    BY <1>2, <1>5, <2>1, Zenon DEF flush_pending
  <2>3. items \subseteq k.pend.items /\ Cardinality(Cargo(items)) <= Cardinality(FreeSlots(k))
    BY <1>1, <1>2, <1>5, AcceptedFits
  <2>4. PICK X : X = Cargo(items)
    OBVIOUS
  <2>5. Tiering(k.st, g.st, X, "hot", "inflight")
    BY <1>1, <1>5, <2>1, <2>2, <2>3, <2>4, AcceptCells
  <2>6. g.pend = NoPend
    BY <1>1, <2>2, AcceptFields
  <2>7. X \subseteq Cargo(k.pend.items)
    BY <2>3, <2>4 DEF Cargo
  <2>8. g.pend.items = {}
    BY <2>6 DEF NoPend
  <2> QED  BY <2>5, <2>7, <2>8, EbbsTiering
<1> QED  BY <1>3, <1>4, <1>5

LEMMA LandEbbs ==
  ASSUME NEW k, IsKv(k), NEW items, NEW S, NEW g, g = Landed(k, items, S)
  PROVE  Ebbs(k, g, {})
<1>1. Same(k, g, {"landed", "cold", "stream"})
  BY LandFields
<1>2. g.st = k.st /\ g.pend = k.pend
  BY <1>1 DEF Same, Fields
<1> QED  BY <1>2, EbbsSame

LEMMA PollEbbs ==
  ASSUME NEW k, NEW D, Good(k, D), NEW g, g = poll_demotions(k)
  PROVE  Ebbs(k, g, {})
<1>1. Base(k, D) /\ g.pend = k.pend
  BY PollKeeps DEF Good
<1>2. Tiering(k.st, g.st, Cargo(k.landed), "inflight", "cold")
  BY <1>1, PollCells
<1> QED  BY <1>1, <1>2, EbbsTiering

LEMMA DrainEbbs ==
  ASSUME NEW k, NEW D, Good(k, D), NEW g, g = drain_demotions(k)
  PROVE  Ebbs(k, g, {})
<1>1. PICK a : a = flush_pending(k, TRUE)
  OBVIOUS
<1>2. Good(a, D) /\ Ebbs(k, a, {})
  BY <1>1, FlushKeeps, FlushEbbs
<1>3. PICK b : b = Landed(a, UNION ToSet(a.stream), <<>>)
  OBVIOUS
<1>4. IsKv(a) /\ Landing(a.landed, a.stream, UNION ToSet(a.stream), <<>>)
  BY <1>2, AllLand DEF Good, Base
<1>5. Good(b, D) /\ Ebbs(a, b, {})
  BY <1>2, <1>3, <1>4, LandKeeps, LandEbbs
<1>6. g = poll_demotions(b)
  BY <1>1, <1>3, Zenon DEF drain_demotions, land_all, Landed
<1>7. Ebbs(b, g, {})
  BY <1>5, <1>6, PollEbbs
<1> QED  BY <1>2, <1>5, <1>7, EbbsTwice

LEMMA SettledEbbs ==
  ASSUME NEW k, NEW D, Good(k, D), NEW s, NEW g, g = settled(k, s)
  PROVE  Ebbs(k, g, {})
<1>1. CASE k.flying[s] > 0
  <2>1. g = drain_demotions(k)
    BY <1>1, Zenon DEF settled
  <2> QED  BY <2>1, DrainEbbs
<1>2. CASE ~ (k.flying[s] > 0)
  <2>1. g = k
    BY <1>2, Zenon DEF settled
  <2> QED  BY <2>1, EbbsSelf
<1> QED  BY <1>1, <1>2

LEMMA DiscardEbbs ==
  ASSUME NEW k, IsKv(k), NEW s, NEW g, g = discard_pending(k, s)
  PROVE  Ebbs(k, g, {})
<1>1. CASE k.pend.seq = s
  <2>1. g = [k EXCEPT !.pend = NoPend]
    BY <1>1, Zenon DEF discard_pending
  <2>2. Same(k, g, {"pend"}) /\ g.pend = NoPend
    BY <2>1, DropFields
  <2>3. g.st = k.st
    BY <2>2 DEF Same, Fields
  <2> QED  BY <2>2, <2>3 DEF Ebbs, Going, NoPend, Cargo
<1>2. CASE k.pend.seq # s
  <2>1. g = k
    BY <1>2, Zenon DEF discard_pending
  <2> QED  BY <2>1, EbbsSelf
<1> QED  BY <1>1, <1>2

-------------------------------------------------------------------------------
(* A manager that demotes nothing but what is behind the window.           *)

\* Pages that pressure may demote: behind the window, and before the last row.
Stale(k) == {x \in Cells : PageEnd(x) <= k.seen[x[1]] - Retention /\ PageEnd(x) < k.seen[x[1]]}
Calm(k, g) == Stays(k, g) /\ Ebbs(k, g, Stale(k))

LEMMA CalmIf ==
  ASSUME NEW k, NEW g, Stays(k, g), Ebbs(k, g, {})
  PROVE  Calm(k, g)
BY DEF Calm, Ebbs

LEMMA CalmSelf ==
  ASSUME NEW k
  PROVE  Calm(k, k)
BY EbbsSelf, StaysSelf DEF Calm

LEMMA CalmTrans ==
  ASSUME NEW a, NEW b, Calm(a, b), NEW c, Calm(b, c)
  PROVE  Calm(a, c)
<1>1. b.seen = a.seen
  BY StaysWhat DEF Calm
<1>2. Stale(b) = Stale(a)
  BY <1>1 DEF Stale
<1> QED  BY <1>2, StaysTrans, EbbsTwice DEF Calm

LEMMA FlushCalm ==
  ASSUME NEW k, NEW D, Good(k, D), NEW fair_share, NEW g, g = flush_pending(k, fair_share)
  PROVE  Good(g, D) /\ Calm(k, g) /\ NoBatch(g)
BY FlushKeeps, FlushEbbs, CalmIf

LEMMA PollCalm ==
  ASSUME NEW k, NEW D, Good(k, D), NEW g, g = poll_demotions(k)
  PROVE  Good(g, D) /\ Calm(k, g) /\ g.pend = k.pend
BY PollKeeps, PollEbbs, CalmIf

LEMMA DrainCalm ==
  ASSUME NEW k, NEW D, Good(k, D), NEW g, g = drain_demotions(k)
  PROVE  Good(g, D) /\ Calm(k, g) /\ NoBatch(g) /\ NoFlight(g) /\ g.file = k.file
BY DrainKeeps, DrainEbbs, CalmIf

LEMMA SettledCalm ==
  ASSUME NEW k, NEW D, Good(k, D), NEW s \in Ids, NEW g, g = settled(k, s)
  PROVE  Good(g, D) /\ Calm(k, g)
BY SettledKeeps, SettledEbbs, CalmIf

LEMMA WriteFileCalm ==
  ASSUME NEW k, NEW D, Good(k, D), NEW s \in Ids, Steady(k, s), k.file[s] = 0, NEW written,
         NEW g, g = write_file(k, s, written)
  PROVE  Good(g, D) /\ Calm(k, g)
<1>0. Good(g, D) /\ Stays(k, g) /\ g.pend = k.pend
  BY WriteFileKeeps
<1>1. PICK X : X = InTier(k, s, "cold")
  OBVIOUS
<1>2. PICK n : n = Cardinality(X)
  OBVIOUS
<1>3. CASE n = 0 \/ k.spilled_total + n > SpillCap
  <2>1. g = k
    BY <1>1, <1>2, <1>3, Zenon DEF write_file
  <2> QED  BY <1>0, <2>1, CalmSelf
<1>4. CASE ~ (n = 0 \/ k.spilled_total + n > SpillCap) /\ ~written
  <2>1. g = [k EXCEPT !.spill = "disabled"]
    BY <1>1, <1>2, <1>4, Zenon DEF write_file
  <2>2. Same(k, g, {"spill"})
    BY <2>1, DisableFields DEF Good, Base
  <2>3. g.st = k.st
    BY <2>2 DEF Same, Fields
  <2> QED  BY <1>0, <2>3, EbbsSame, CalmIf
<1>5. CASE ~ (n = 0 \/ k.spilled_total + n > SpillCap) /\ written
  <2>0. PICK m : m = OnDisk(k, s, X)
    OBVIOUS
  <2>1. g = release_cold_slot(m, Copies(k, X))
    BY <1>1, <1>2, <1>5, <2>0, Zenon DEF write_file, OnDisk, ToDisk
  <2>2. X # {}
    BY <1>2, <1>5, FS_EmptySet
  <2>3. k.spilled_total \in Int
    <3>1. TotalsOk(k.total, k.demoted, k.spilled_total, k.file)
      BY DEF Good, Base
    <3>2. k.demoted \in [Ids -> Int] /\ k.file \in [Ids -> Int]
      BY DEF Good, Base, CountsOk
    <3> QED  BY <3>1, <3>2, TotalsTyped
  <2>4. n \in Nat
    BY <1>1, <1>2, InTierIs, TierFinite
  <2>5. k.spilled_total + n <= SpillCap
    BY <1>5, <2>3, <2>4, KvAssumption
  <2>6. Tiering(k.st, g.st, X, "cold", "spilled")
    BY <1>1, <1>2, <2>0, <2>1, <2>2, <2>5, WriteKeeps
  <2> QED  BY <1>0, <2>6, EbbsTiering, CalmIf
<1> QED  BY <1>3, <1>4, <1>5

LEMMA SpillCalm ==
  ASSUME NEW k, NEW D, Good(k, D), NEW s \in Ids, NEW written, NEW g, g = spill_seq(k, s, written)
  PROVE  Good(g, D) /\ Calm(k, g)
<1>1. CASE k.spill = "disabled" \/ k.hibernated[s] = "no" \/ k.file[s] > 0
  <2>1. g = k
    BY <1>1, Zenon DEF spill_seq
  <2> QED  BY <2>1, CalmSelf
<1>2. CASE ~ (k.spill = "disabled" \/ k.hibernated[s] = "no" \/ k.file[s] > 0)
  <2>1. PICK a : a = flush_pending(k, TRUE)
    OBVIOUS
  <2>2. PICK b : b = settled(a, s)
    OBVIOUS
  <2>3. g = write_file(b, s, written)
    BY <1>2, <2>1, <2>2 DEF spill_seq
  <2>4. Good(a, D) /\ Calm(k, a) /\ Good(b, D) /\ Calm(a, b) /\ Steady(b, s)
    BY <2>1, <2>2, FlushCalm, SettledKeeps, SettledCalm
  <2>5. b.file[s] = 0
    <3>1. b.file = k.file
      <4>1. a.file = k.file
        BY <2>1, FlushKeeps
      <4> QED  BY <2>2, <2>4, <4>1, SettledKeeps
    <3>2. k.file[s] \in Nat
      BY DEF Good, Base, CountsOk, SeqCounts
    <3> QED  BY <1>2, <3>1, <3>2
  <2>6. Good(g, D) /\ Calm(b, g)
    BY <2>3, <2>4, <2>5, WriteFileCalm
  <2> QED  BY <2>4, <2>6, CalmTrans
<1> QED  BY <1>1, <1>2

LEMMA UnspillCalm ==
  ASSUME NEW k, NEW D, Good(k, D), NEW s \in Ids, NEW blocks \in Nat, NEW r, r = unspill_seq(k, s, blocks)
  PROVE  Good(r.k, D) /\ Calm(k, r.k) /\ r.k.pend = k.pend /\ (r.ok => r.k.file[s] = 0)
<1>0. Good(r.k, D) /\ Stays(k, r.k) /\ r.k.pend = k.pend /\ (r.ok => r.k.file[s] = 0)
  BY UnspillKeeps
<1>1. CASE k.file[s] = 0
  <2>1. r = Done(k)
    BY <1>1, Zenon DEF unspill_seq
  <2> QED  BY <1>0, <2>1, CalmSelf DEF Done
<1>2. CASE k.file[s] # 0
  <2>1. PICK todo : todo = InTier(k, s, "spilled")
    OBVIOUS
  <2>2. PICK n : n = MinOf(blocks, MinOf(Cardinality(todo), Cardinality(FreeSlots(k))))
    OBVIOUS
  <2>3. PICK X : X = First(n, todo, LayerMajor)
    OBVIOUS
  <2>4. PICK a : a = reload(k, s, X)
    OBVIOUS
  <2>5. PICK b : b = NoFile(a, s, k.file[s])
    OBVIOUS
  <2>6. todo = Tier(k.st, s, {"spilled"})
    BY <2>1, InTierIs
  <2>7. todo \subseteq Cells /\ Cardinality(todo) \in Nat
    BY <2>6, TierFinite
  <2>8. n \in Nat /\ n <= Cardinality(todo) /\ n <= Cardinality(FreeSlots(k))
    BY <2>2, <2>7, FreeFinite DEF MinOf
  <2>9. X \subseteq todo /\ Cardinality(X) = n
    BY <2>3, <2>7, <2>8, FirstCells
  <2>10. X \subseteq Cells /\ \A x \in X : k.st[x].tier = "spilled"
    BY <2>6, <2>7, <2>9 DEF Tier
  <2>11. IsKv(k) /\ EntriesOk(k.st, k.pg)
    BY DEF Good, Base
  <2>12. IsKv(a) /\ Same(k, a, {"cold_ref", "cold", "st", "used"}) /\ a.st = With(k.st, At("cold", Place(X, FreeSlots(k))))
    BY <2>4, <2>11, ReloadFields
  <2>13. Tiering(k.st, a.st, X, "spilled", "cold")
    <3>1. PICK f : f = Place(X, FreeSlots(k))
      OBVIOUS
    <3>2. DOMAIN f = X
      BY <2>8, <2>9, <2>10, <3>1, PlaceSlots
    <3>3. PICK t : t = At("cold", f)
      OBVIOUS
    <3>4. DOMAIN t = X /\ \A x \in X : t[x].tier = "cold"
      BY <3>2, <3>3, AtIs
    <3>5. DOMAIN k.st = Cells /\ a.st = With(k.st, t)
      BY <2>11, <2>12, <3>1, <3>3 DEF EntriesOk
    <3>6. /\ \A x \in X : a.st[x] = t[x]
          /\ \A x \in Cells \ X : a.st[x] = k.st[x]
      BY <2>10, <3>4, <3>5, WithIs
    <3> QED  BY <2>10, <3>4, <3>6 DEF Tiering
  <2>14. r.k.st = a.st
    <3>1. Same(a, b, {"spilled_total", "file"})
      BY <2>5, <2>12, NoFileFields
    <3>2. b.st = a.st
      BY <3>1 DEF Same, Fields
    <3>3. CASE n < Cardinality(todo)
      <4>1. r = Failed(a)
        BY <1>2, <2>1, <2>2, <2>3, <2>4, <3>3, Zenon DEF unspill_seq
      <4> QED  BY <4>1 DEF Failed
    <3>4. CASE ~ (n < Cardinality(todo))
      <4>1. r = Done(b)
        BY <1>2, <2>1, <2>2, <2>3, <2>4, <2>5, <3>4, Zenon DEF unspill_seq, NoFile
      <4> QED  BY <3>2, <4>1 DEF Done
    <3> QED  BY <3>3, <3>4
  <2> QED  BY <1>0, <2>13, <2>14, EbbsTiering, CalmIf
<1> QED  BY <1>1, <1>2

\* What is demoted of s, or about to be, ends at pos or before.
Below(k, s, pos) == \A x \in Of(s) : Going(k, x) => PageEnd(x) <= pos

LEMMA BelowNone ==
  ASSUME NEW k, NEW D, Good(k, D), NEW s \in Ids, NoBatch(k), k.demoted[s] = 0, NEW pos
  PROVE  Below(k, s, pos)
<1>1. Cardinality(Tier(k.st, s, Lower)) = 0
  BY DEF Good, Base, CountsOk, SeqCounts
<1>2. Tier(k.st, s, Lower) = {}
  BY <1>1, TierFinite, FS_EmptySet
<1>3. \A x \in Of(s) : k.st[x].tier \in Tiers
  BY CellParts DEF Good, Base, EntriesOk
<1> QED  BY <1>2, <1>3 DEF Below, Going, NoBatch, Tier, Tiers, Lower, Cargo

LEMMA BelowFrontier ==
  ASSUME NEW k, NEW D, Good(k, D), NEW s \in Ids, NoBatch(k), NEW pos \in Int, k.frontier[s] <= pos
  PROVE  Below(k, s, pos)
<1>1. LastEnd(k.frontier[s], Tier(k.st, s, Lower))
  BY DEF Good, Base, CountsOk, SeqCounts
<1>2. \A x \in Of(s) : k.st[x].tier \in Tiers /\ x \in Cells
  BY CellParts DEF Good, Base, EntriesOk
<1>3. \A x \in Of(s) : Going(k, x) => x \in Tier(k.st, s, Lower)
  BY <1>2 DEF Going, NoBatch, Tier, Tiers, Lower, Cargo
<1>4. ASSUME NEW x \in Of(s), Going(k, x) PROVE PageEnd(x) <= pos
  <2>1. PageEnd(x) <= k.frontier[s] /\ k.frontier[s] \in Nat
    BY <1>1, <1>3, <1>4 DEF LastEnd
  <2>2. PageEnd(x) \in Nat
    BY <1>2, PageEnds
  <2> QED  BY <2>1, <2>2
<1> QED  BY <1>4 DEF Below

LEMMA LiftCalm ==
  ASSUME NEW k, NEW D, Good(k, D), NEW s \in Ids, NEW keep \in Int, NoBatch(k), NoFlight(k), k.file[s] = 0,
         NEW r, r = lift(k, s, keep)
  PROVE  Good(r.k, D) /\ Calm(k, r.k) /\ NoBatch(r.k) /\ (r.ok => Below(r.k, s, keep))
<1>0. Good(r.k, D) /\ Stays(k, r.k) /\ r.k.pend = k.pend
  BY LiftKeeps
<1>1. PICK jobs : jobs = {x \in InTier(k, s, "cold") : PageEnd(x) > keep}
  OBVIOUS
<1>2. jobs = {x \in InTier(k, s, "cold") : (x[3] + 1) * PageSize > keep}
  BY <1>1 DEF PageEnd
<1>3. \A x \in Of(s) : k.st[x].tier \in {"hot", "cold"} /\ x \in Cells /\ PageEnd(x) \in Int
  <2>1. Tier(k.st, s, {"spilled"}) = {}
    BY DEF Good, Base, CountsOk, SeqCounts
  <2>2. \A x \in Of(s) : k.st[x].tier \in Tiers /\ x \in Cells /\ PageEnd(x) \in Int
    BY CellParts, PageEnds DEF Good, Base, EntriesOk
  <2> QED  BY <2>1, <2>2 DEF NoFlight, Tier, Tiers
<1>4. \A x \in Of(s) : k.st[x].tier # "hot" => PageEnd(x) <= keep \/ x \in jobs
  BY <1>1, <1>3 DEF InTier
<1>5. NoBatch(r.k)
  BY <1>0 DEF NoBatch
<1>6. CASE jobs = {}
  <2>1. r = Done(k)
    BY <1>2, <1>6, Zenon DEF lift
  <2>2. Below(k, s, keep)
    BY <1>4, <1>6 DEF Below, Going, NoBatch, Cargo
  <2> QED  BY <1>0, <1>5, <2>1, <2>2, CalmSelf DEF Done
<1>7. CASE jobs # {}
  <2>1. PICK n : n = MinOf(Cardinality(jobs), Cardinality(FreePages(k)))
    OBVIOUS
  <2>2. PICK X : X = First(n, jobs, PositionMajor)
    OBVIOUS
  <2>3. PICK a : a = promote(k, s, X)
    OBVIOUS
  <2>4. PICK g : g = Lifted(a, s, keep, Frontier(a, s))
    OBVIOUS
  <2>5. r = [ok |-> n = Cardinality(jobs), k |-> g]
    BY <1>2, <1>7, <2>1, <2>2, <2>3, <2>4, Zenon DEF lift, Lifted, Uncached
  <2>6. jobs \subseteq Tier(k.st, s, {"cold"})
    BY <1>1, InTierIs
  <2>7. jobs \subseteq Cells /\ IsFiniteSet(jobs) /\ Cardinality(jobs) \in Nat
    BY <2>6, TierFinite, FS_Subset, FS_CardinalityType
  <2>8. n \in Nat /\ n <= Cardinality(jobs) /\ n <= Cardinality(FreePages(k))
    BY <2>1, <2>7, FreeFinite DEF MinOf
  <2>9. X \subseteq jobs /\ Cardinality(X) = n /\ (n = Cardinality(jobs) => jobs \ X = {})
    BY <2>2, <2>7, <2>8, FirstCells
  <2>10. X \subseteq Tier(k.st, s, {"cold"}) /\ Cardinality(X) <= Cardinality(FreePages(k))
    BY <2>6, <2>8, <2>9
  <2>11. Tiering(k.st, g.st, X, "cold", "hot")
    BY <2>3, <2>4, <2>10, LiftedKeeps
  <2>12. r.k = g /\ (r.ok => n = Cardinality(jobs))
    <3>1. PICK o : o = (n = Cardinality(jobs))
      OBVIOUS
    <3>2. r = [ok |-> o, k |-> g]
      BY <2>5, <3>1, Zenon
    <3>3. r.k = g /\ r.ok = o
      BY <3>2
    <3>4. r.ok => n = Cardinality(jobs)
      BY <3>1, <3>3, Zenon
    <3> QED  BY <3>3, <3>4
  <2>13. Calm(k, r.k)
    BY <1>0, <2>11, <2>12, EbbsTiering, CalmIf
  <2>14. ASSUME n = Cardinality(jobs) PROVE Below(g, s, keep)
    <3>1. \A x \in Of(s) : g.st[x].tier # "hot" => k.st[x].tier # "hot" /\ x \notin X
      BY <1>3, <2>11 DEF Tiering
    <3>2. jobs \subseteq X
      BY <2>9, <2>14
    <3> QED  BY <1>4, <1>5, <2>12, <3>1, <3>2 DEF Below, Going, NoBatch, Cargo
  <2> QED  BY <1>0, <1>5, <2>12, <2>13, <2>14
<1> QED  BY <1>6, <1>7

LEMMA RepromoteCalm ==
  ASSUME NEW k, NEW D, Good(k, D), NEW s \in Ids, NEW keep \in Int, NEW r, r = repromote_seq(k, s, keep)
  PROVE  Good(r.k, D) /\ Calm(k, r.k) /\ NoBatch(r.k) /\ (r.ok => Below(r.k, s, keep))
<1>1. PICK a : a = flush_pending(k, TRUE)
  OBVIOUS
<1>2. Good(a, D) /\ Calm(k, a) /\ NoBatch(a)
  BY <1>1, FlushCalm
<1>3. PICK u : u = unspill_seq(a, s, SpillCap) /\ SpillCap \in Nat
  BY KvAssumption
<1>4. Good(u.k, D) /\ Calm(a, u.k) /\ u.k.pend = a.pend /\ (u.ok => u.k.file[s] = 0)
  BY <1>2, <1>3, UnspillCalm
<1>5. Calm(k, u.k) /\ NoBatch(u.k)
  BY <1>2, <1>4, CalmTrans DEF NoBatch
<1>6. CASE ~u.ok \/ u.k.demoted[s] = 0
  <2>1. r = u
    BY <1>1, <1>3, <1>6, Zenon DEF repromote_seq, lift_read
  <2>2. u.ok => Below(u.k, s, keep)
    BY <1>4, <1>5, <1>6, BelowNone
  <2> QED  BY <1>4, <1>5, <2>1, <2>2
<1>7. CASE ~ (~u.ok \/ u.k.demoted[s] = 0)
  <2>1. PICK b : b = drain_demotions(u.k)
    OBVIOUS
  <2>2. Good(b, D) /\ Calm(u.k, b) /\ NoBatch(b) /\ NoFlight(b) /\ b.file = u.k.file
    BY <1>4, <2>1, DrainCalm
  <2>3. r = lift(b, s, keep)
    BY <1>1, <1>3, <1>7, <2>1, Zenon DEF repromote_seq, lift_read
  <2>4. b.file[s] = 0
    BY <1>4, <1>7, <2>2
  <2>5. Good(r.k, D) /\ Calm(b, r.k) /\ NoBatch(r.k) /\ (r.ok => Below(r.k, s, keep))
    BY <2>2, <2>3, <2>4, LiftCalm
  <2>6. Calm(k, b)
    BY <1>5, <2>2, CalmTrans
  <2> QED  BY <2>5, <2>6, CalmTrans
<1> QED  BY <1>6, <1>7

LEMMA RewindCalm ==
  ASSUME NEW k, NEW D, Good(k, D), NEW s \in Ids, NEW pos \in Int, NEW r, r = repromote_for_rewind(k, s, pos)
  PROVE  Good(r.k, D) /\ Calm(k, r.k) /\ NoBatch(r.k) /\ (r.ok => Below(r.k, s, pos))
<1>1. PICK a : a = flush_pending(k, TRUE)
  OBVIOUS
<1>2. Good(a, D) /\ Calm(k, a) /\ NoBatch(a)
  BY <1>1, FlushCalm
<1>3. CASE a.frontier[s] <= pos
  <2>1. r = Done(a)
    BY <1>1, <1>3, Zenon DEF repromote_for_rewind, rewind_to
  <2>2. Below(a, s, pos)
    BY <1>2, <1>3, BelowFrontier
  <2> QED  BY <1>2, <2>1, <2>2 DEF Done
<1>4. CASE ~ (a.frontier[s] <= pos)
  <2>1. r = repromote_seq(a, s, pos)
    BY <1>1, <1>4, Zenon DEF repromote_for_rewind, rewind_to
  <2>2. Good(r.k, D) /\ Calm(a, r.k) /\ NoBatch(r.k) /\ (r.ok => Below(r.k, s, pos))
    BY <1>2, <2>1, RepromoteCalm
  <2> QED  BY <1>2, <2>2, CalmTrans
<1> QED  BY <1>3, <1>4

-------------------------------------------------------------------------------
(* Pages are collected; pressure; growth.                                  *)

LEMMA DivIs ==
  ASSUME NEW d \in Nat
  PROVE  /\ d \div PageSize \in Nat /\ (d \div PageSize) * PageSize <= d /\ d < (d \div PageSize + 1) * PageSize
         /\ \A j \in Nat : j < d \div PageSize => (j + 1) * PageSize <= d
         /\ \A j \in Nat : (j + 1) * PageSize <= d => j < d \div PageSize
<1>0. PageSize \in Nat \ {0}
  BY KvAssumption
<1>1. PICK q \in Nat : q = d \div PageSize
  BY <1>0
<1>2. q * PageSize <= d /\ d < (q + 1) * PageSize /\ q * PageSize \in Nat /\ (q + 1) * PageSize \in Nat
  BY <1>0, <1>1
<1>3. ASSUME NEW j \in Nat, j < q PROVE (j + 1) * PageSize <= d
  <2>1. j + 1 \in Int /\ j + 1 <= q /\ PageSize \in Nat
    BY <1>0, <1>3
  <2>2. (j + 1) * PageSize <= q * PageSize /\ (j + 1) * PageSize \in Int
    BY <2>1, MulMono
  <2> QED  BY <1>2, <2>2
<1>4. ASSUME NEW j \in Nat, (j + 1) * PageSize <= d PROVE j < q
  <2>1. SUFFICES ASSUME q + 1 <= j + 1 PROVE FALSE
    BY <1>4
  <2>2. (q + 1) * PageSize <= (j + 1) * PageSize /\ (j + 1) * PageSize \in Int
    BY <1>0, <2>1, MulMono
  <2> QED  BY <1>2, <1>4, <2>2
<1> QED  BY <1>1, <1>2, <1>3, <1>4

\* The pages of the layers that end at e, or before, and before page f.
Reach(s, layers, e, f) == {x \in Cells : x[1] = s /\ x[2] \in layers /\ PageEnd(x) <= e /\ x[3] < f}

LEMMA CollectEbbs ==
  ASSUME NEW k, IsKv(k), NEW s \in Ids, NEW layers, layers \subseteq Layers,
         NEW e, NEW f, NEW g, g = collect(k, s, layers, e, f)
  PROVE  Ebbs(k, g, Reach(s, layers, e, f))
<1>0. PICK new : new = Collected(k, s, layers, e, f)
  OBVIOUS
<1>1. CASE new = {}
  <2>1. g = k
    BY <1>0, <1>1, Zenon DEF collect
  <2> QED  BY <2>1, EbbsSelf
<1>2. CASE new # {}
  <2>1. Same(k, g, {"pend"}) /\ g.pend = Batch(k.pend, s, new, k.pg)
    BY <1>0, <1>2, CollectFields
  <2>2. Behind(k, s, layers, e, f, new)
    BY <1>0, CollectedWhat
  <2>3. g.st = k.st
    BY <2>1 DEF Same, Fields
  <2>4. PICK I : I = {[x |-> x, h |-> k.pg[x]] : x \in new}
    OBVIOUS
  <2>5. g.pend.items = k.pend.items \cup I
    BY <2>1, <2>4 DEF Batch
  <2>6. Cargo(g.pend.items) = Cargo(k.pend.items) \cup Cargo(I)
    BY <2>5 DEF Cargo
  <2>7. Cargo(I) \subseteq new
    <3>1. \A i \in I : i.x \in new
      BY <2>4
    <3> QED  BY <3>1 DEF Cargo
  <2>8. new \subseteq Reach(s, layers, e, f)
    BY <2>2 DEF Behind, Reach
  <2> QED  BY <2>3, <2>6, <2>7, <2>8 DEF Ebbs, Going
<1> QED  BY <1>1, <1>2

LEMMA CollectRangeEbbs ==
  ASSUME NEW k, NEW D, Good(k, D), NEW s \in Ids, NEW layers, layers \subseteq Layers,
         NEW e, NEW f, NEW g, g = collect_layer_range(k, s, layers, e, f)
  PROVE  Ebbs(k, g, Reach(s, layers, e, f))
<1>1. PICK a : a = IF k.pend.seq \in {0, s} THEN k ELSE flush_pending(k, TRUE)
  OBVIOUS
<1>2. Good(a, D) /\ Ebbs(k, a, {})
  BY <1>1, EbbsSelf, FlushKeeps, FlushEbbs
<1>3. g = collect(a, s, layers, e, f)
  BY <1>1 DEF collect_layer_range
<1>4. Ebbs(a, g, Reach(s, layers, e, f))
  BY <1>2, <1>3, CollectEbbs DEF Good, Base
<1> QED  BY <1>2, <1>4, EbbsTrans, EbbsMore

LEMMA PressureCalm ==
  ASSUME NEW k, NEW D, Good(k, D), NEW s \in Ids, NEW r, r = pressure_demote(k, s)
  PROVE  Good(r.k, D) /\ Calm(k, r.k)
<1>1. PICK a : a = flush_pending(k, TRUE)
  OBVIOUS
<1>2. Good(a, D) /\ Calm(k, a)
  BY <1>1, FlushCalm
<1>3. PICK e : e = a.seen[s] - Retention
  OBVIOUS
<1>4. PICK f : f = (a.seen[s] - 1) \div PageSize
  OBVIOUS
<1>5. PICK c : c = collect_layer_range(a, s, Layers, e, f)
  OBVIOUS
<1>7. PICK b : b = flush_pending(c, TRUE)
  OBVIOUS
<1>9. CASE a.hibernated[s] = "yes" \/ a.seen[s] = 0
  <2>1. r = Failed(a)
    BY <1>1, <1>9, Zenon DEF pressure_demote, demote_window, Demoted
  <2> QED  BY <1>2, <2>1 DEF Failed
<1>10. CASE ~ (a.hibernated[s] = "yes" \/ a.seen[s] = 0)
  <2>1. r = [k |-> b, ok |-> b.total > a.total]
    BY <1>1, <1>3, <1>4, <1>5, <1>7, <1>10, Zenon DEF pressure_demote, demote_window, Demoted
  <2>2. r.k = b
    BY <2>1
  <2>3. Good(c, D) /\ Stays(a, c) /\ Ebbs(a, c, Reach(s, Layers, e, f))
    BY <1>2, <1>5, CollectRangeKeeps, CollectRangeEbbs
  <2>4. PICK d \in Nat : d + 1 = a.seen[s]
    <3>1. a.seen[s] \in Nat
      BY <1>2 DEF Good, Base, DormantOk
    <3> QED  BY <1>10, <3>1
  <2>5. f = d \div PageSize
    BY <1>4, <2>4
  <2>6. \A j \in Nat : j < f => (j + 1) * PageSize <= d
    BY <2>4, <2>5, DivIs
  <2>7. Reach(s, Layers, e, f) \subseteq Stale(a)
    <3>1. SUFFICES ASSUME NEW x \in Reach(s, Layers, e, f) PROVE x \in Stale(a)
      OBVIOUS
    <3>2. x \in Cells /\ x[1] = s /\ PageEnd(x) <= e /\ x[3] < f
      BY <3>1 DEF Reach
    <3>3. PageEnd(x) <= d
      BY <2>6, <3>2, CellParts DEF PageEnd
    <3>4. PageEnd(x) \in Nat
      BY <3>2, PageEnds
    <3> QED  BY <1>3, <2>4, <3>2, <3>3, <3>4 DEF Stale
  <2>8. Calm(a, c)
    BY <2>3, <2>7, EbbsMore DEF Calm
  <2>9. Good(b, D) /\ Calm(c, b)
    BY <1>7, <2>3, FlushCalm
  <2>10. Calm(k, c)
    BY <1>2, <2>8, CalmTrans
  <2> QED  BY <2>2, <2>9, <2>10, CalmTrans
<1> QED  BY <1>9, <1>10

LEMMA SweepCalm ==
  ASSUME NEW own, NEW D, Good(own.k, D), NEW s \in Ids, NEW r, r = sweep_others(own, s)
  PROVE  Good(r.k, D) /\ Calm(own.k, r.k)
<1> DEFINE w == Swept(own, s)
           Fine(n) == Good(w[n].k, D) /\ Calm(own.k, w[n].k)
           T == {n \in Nat : n <= NumSeqs /\ ~ Fine(n)}
<1>0. NumSeqs \in Nat
  BY KvAssumption
<1>1. T = {}
  <2> SUFFICES ASSUME T # {} PROVE FALSE
    OBVIOUS
  <2>1. PICK n \in T : \A y \in T : n <= y
    BY LeastOf
  <2>2. n \in 0..NumSeqs /\ ~ Fine(n) /\ n \in Nat
    BY <1>0
  <2>3. w[n] = SweepStep(own, s, w, n)
    BY <2>2, SweptUnfold, Zenon
  <2>4. CASE n = 0
    <3>1. w[n] = own
      BY <2>3, <2>4 DEF SweepStep, Either
    <3> QED  BY <2>2, <3>1, CalmSelf
  <2>5. CASE n # 0
    <3>1. n - 1 \in Nat /\ n - 1 \notin T /\ n \in Ids /\ n - 1 <= NumSeqs
      BY <2>1, <2>2, <2>5, <1>0 DEF Ids
    <3>2. Fine(n - 1)
      BY <3>1
    <3> HIDE DEF w
    <3>3. CASE n = s \/ n \notin Held(own.k)
      <4>1. w[n] = w[n - 1]
        BY <2>3, <2>5, <3>3, Zenon DEF SweepStep, Either
      <4> QED  BY <2>2, <3>2, <4>1
    <3>4. CASE ~ (n = s \/ n \notin Held(own.k))
      <4>1. PICK p : p = pressure_demote(w[n - 1].k, n)
        OBVIOUS
      <4>2. w[n] = [k |-> p.k, ok |-> p.ok \/ w[n - 1].ok]
        BY <2>3, <2>5, <3>4, <4>1, Zenon DEF SweepStep, Either
      <4>3. w[n].k = p.k
        BY <4>2
      <4>4. Good(p.k, D) /\ Calm(w[n - 1].k, p.k)
        BY <3>1, <3>2, <4>1, PressureCalm
      <4> QED  BY <2>2, <3>2, <4>3, <4>4, CalmTrans
    <3> QED  BY <3>3, <3>4
  <2> QED  BY <2>4, <2>5
<1>2. Fine(NumSeqs)
  BY <1>0, <1>1
<1> QED  BY <1>2, SweptUnfold

LEMMA ReclaimCalm ==
  ASSUME NEW k, NEW D, Good(k, D), NEW s \in Ids, NEW g, g = tiering_pressure_reclaim(k, s)
  PROVE  Good(g, D) /\ Calm(k, g)
<1>1. PICK own : own = pressure_demote(k, s)
  OBVIOUS
<1>2. Good(own.k, D) /\ Calm(k, own.k)
  BY <1>1, PressureCalm
<1>3. PICK r : r = IF own.ok THEN own ELSE sweep_others(own, s)
  OBVIOUS
<1>4. Good(r.k, D) /\ Calm(k, r.k)
  <2>1. CASE own.ok
    BY <1>2, <1>3, <2>1
  <2>2. CASE ~own.ok
    <3>1. r = sweep_others(own, s)
      BY <1>3, <2>2
    <3>2. Good(r.k, D) /\ Calm(own.k, r.k)
      BY <1>2, <3>1, SweepCalm
    <3> QED  BY <1>2, <3>2, CalmTrans
  <2> QED  BY <2>1, <2>2
<1>5. CASE r.ok
  <2>1. g = drain_demotions(r.k)
    BY <1>1, <1>3, <1>5, Zenon DEF tiering_pressure_reclaim, else_others, drain_if
  <2> QED  BY <1>4, <2>1, DrainCalm, CalmTrans
<1>6. CASE ~r.ok
  <2>1. g = r.k
    BY <1>1, <1>3, <1>6, Zenon DEF tiering_pressure_reclaim, else_others, drain_if
  <2> QED  BY <1>4, <2>1
<1> QED  BY <1>5, <1>6

\* A manager that is calm, while sequences get pages.
Grows(k, g) ==
  /\ Same(k, g, TierFields \cup {"num"}) /\ Ebbs(k, g, Stale(k))
  /\ \A q \in Ids : k.num[q] <= g.num[q]

LEMMA EnsureGrows ==
  ASSUME NEW k, Good(k, {}), NEW s \in Held(k), NEW pos \in Int, NEW r, r = ensure_pages(k, s, pos)
  PROVE  /\ Good(r.k, {}) /\ Grows(k, r.k)
         /\ r.ok => pos \div PageSize + 1 <= r.k.num[s]
         /\ pos \div PageSize + 1 <= k.num[s] => r.k = k
<1>0. Good(r.k, {}) /\ Same(k, r.k, TierFields \cup {"num"})
  BY EnsureKeeps
<1>1. PICK needed : needed = pos \div PageSize + 1
  OBVIOUS
<1>2. needed \in Int /\ s \in Ids /\ MaxPages \in Nat /\ Growth \in Nat /\ NumLayers \in Nat \ {0}
  BY <1>1, KvAssumption DEF Held
<1>3. k.num \in [Ids -> 0..MaxPages] /\ k.num[s] \in Nat /\ k.num[s] <= MaxPages /\ \A q \in Ids : k.num[q] \in Nat
  BY <1>2 DEF Good, Base, NumberedOk
<1>4. CASE needed <= k.num[s]
  <2>1. r = Done(k)
    BY <1>1, <1>4, Zenon DEF ensure_pages, room_for, append_up_to, Has
  <2>2. r.k = k
    BY <2>1 DEF Done
  <2>3. \A q \in Ids : k.num[q] <= k.num[q]
    BY <1>3
  <2> QED  BY <1>0, <1>1, <1>4, <2>2, <2>3, EbbsSelf DEF Grows
<1>5. CASE ~ (needed <= k.num[s])
  <2>1. PICK target : target = MinOf(MaxOf(needed, k.num[s] + Growth), MaxPages)
    OBVIOUS
  <2>2. target \in Int /\ target >= k.num[s] /\ target <= MaxPages
    BY <1>2, <1>3, <1>5, <2>1 DEF MinOf, MaxOf
  <2>3. PICK want : want = target - k.num[s]
    OBVIOUS
  <2>4. want \in Nat
    BY <1>3, <2>2, <2>3
  <2>5. PICK a : a = IF Cardinality(FreePages(k)) < want * NumLayers THEN tiering_pressure_reclaim(k, s) ELSE k
    OBVIOUS
  <2>6. Good(a, {}) /\ Calm(k, a)
    BY <1>2, <2>5, ReclaimCalm, CalmSelf
  <2>7. PICK F \in Nat : F = Cardinality(FreePages(a))
    BY FreeFinite
  <2>8. PICK n : n = MinOf(want, F \div NumLayers)
    OBVIOUS
  <2>9. n \in Nat
    <3>1. PICK q \in Nat : q = F \div NumLayers
      BY <1>2
    <3> QED  BY <2>4, <2>8, <3>1 DEF MinOf
  <2>10. PICK b : b = append_pages(a, s, n)
    OBVIOUS
  <2>11. a.num = k.num
    BY <2>6, StaysWhat DEF Calm
  <2>12. Same(a, b, {"ref", "pg", "num"}) /\ b.num = Put(a.num, s, a.num[s] + n)
    BY <2>6, <2>10, AppendFields DEF Good, Base
  <2>13. b.st = a.st /\ b.pend = a.pend
    BY <2>12 DEF Same, Fields
  <2>14. Ebbs(k, b, Stale(k))
    BY <2>6, <2>13, EbbsSame, EbbsMore, EbbsTwice DEF Calm
  <2>15. \A q \in Ids : k.num[q] <= b.num[q]
    BY <1>3, <2>9, <2>11, <2>12 DEF Put
  <2>16. r = [k |-> b, ok |-> needed <= b.num[s]]
    BY <1>1, <1>5, <2>1, <2>3, <2>5, <2>7, <2>8, <2>10, Zenon DEF ensure_pages, room_for, append_up_to, Has
  <2>17. r.k = b /\ (r.ok => needed <= b.num[s])
    <3>1. PICK o : o = (needed <= b.num[s])
      OBVIOUS
    <3>2. r = [k |-> b, ok |-> o]
      BY <2>16, <3>1, Zenon
    <3>3. r.k = b /\ r.ok = o
      BY <3>2
    <3>4. r.ok => needed <= b.num[s]
      BY <3>1, <3>3, Zenon
    <3> QED  BY <3>3, <3>4
  <2> QED  BY <1>0, <1>1, <1>5, <2>14, <2>15, <2>17 DEF Grows
<1> QED  BY <1>4, <1>5

-------------------------------------------------------------------------------
(* A layer that writes only what is hot.                                   *)

\* The rows are written behind what is demoted, or about to be.
Under(k, s, l, pos, rows) ==
  \A x \in Of(s) : Going(k, x) /\ (rows = 1 \/ x[2] = l) => PageEnd(x) <= pos
SeenAfter(v, pos, rows) == IF rows = 1 /\ pos + 1 < v THEN pos + 1 ELSE MaxOf(v, pos + rows)

LEMMA UnderEbbs ==
  ASSUME NEW k, NEW g, Ebbs(k, g, {}), NEW s \in Ids, NEW l, NEW pos, NEW rows, Under(k, s, l, pos, rows)
  PROVE  Under(g, s, l, pos, rows)
<1>1. Of(s) \subseteq Cells
  BY CellParts
<1> QED  BY <1>1 DEF Under, Ebbs

LEMMA BelowUnder ==
  ASSUME NEW k, NEW s \in Ids, NEW l, NEW pos, NEW rows, Below(k, s, pos)
  PROVE  Under(k, s, l, pos, rows)
BY DEF Under, Below

LEMMA MayWriteRuns ==
  ASSUME NEW k, Good(k, {}), NEW s \in Held(k), NEW l \in Layers, NEW pos \in Nat, NEW rows \in Nat \ {0},
         Under(k, s, l, pos, rows), NEW g, g = may_write(k, s, l, pos, rows)
  PROVE  Good(g, {}) /\ Same(k, g, {"seen"}) /\ g.seen = Put(k.seen, s, SeenAfter(k.seen[s], pos, rows))
<1>0. s \in Ids /\ k.seen[s] \in Nat /\ IsKv(k)
  BY HeldTyped DEF Good, Base
<1>1. PICK i : i = IF rows > 1 THEN \E j \in Logical : j >= pos \div PageSize /\ k.st[<<s, l, j>>].tier # "hot"
                             ELSE k.frontier[s] > pos
  OBVIOUS
<1>2. ~i
  <2>1. ASSUME rows > 1, NEW j \in Logical, j >= pos \div PageSize, k.st[<<s, l, j>>].tier # "hot" PROVE FALSE
    <3>1. PICK x : x = <<s, l, j>>
      OBVIOUS
    <3>2. x \in Of(s) /\ x[2] = l /\ x[3] = j /\ j \in Nat
      BY <3>1, KvAssumption DEF Of, Logical
    <3>3. Going(k, x)
      BY <2>1, <3>1 DEF Going
    <3>4. PageEnd(x) <= pos
      BY <3>2, <3>3 DEF Under
    <3>5. (j + 1) * PageSize <= pos
      BY <3>2, <3>4 DEF PageEnd
    <3>6. j < pos \div PageSize /\ pos \div PageSize \in Nat
      BY <3>2, <3>5, DivIs
    <3> QED  BY <2>1, <3>2, <3>6
  <2>2. ASSUME ~ (rows > 1), k.frontier[s] > pos PROVE FALSE
    <3>1. LastEnd(k.frontier[s], Tier(k.st, s, Lower))
      BY <1>0 DEF Good, Base, CountsOk, SeqCounts
    <3>2. PICK x \in Tier(k.st, s, Lower) : k.frontier[s] = PageEnd(x)
      BY <2>2, <3>1 DEF LastEnd
    <3>3. x \in Of(s) /\ Going(k, x)
      BY <3>2 DEF Tier, Going, Lower
    <3>4. rows = 1
      BY <2>2
    <3>5. PageEnd(x) <= pos
      BY <3>3, <3>4 DEF Under
    <3>6. k.frontier[s] \in Nat
      BY <3>1 DEF LastEnd
    <3> QED  BY <2>2, <3>2, <3>5, <3>6
  <2> QED  BY <1>1, <2>1, <2>2
<1>3. PICK v : v = SeenAfter(k.seen[s], pos, rows)
  OBVIOUS
<1>4. v \in Nat
  BY <1>0, <1>3 DEF MaxOf, SeenAfter
<1>5. g = [k EXCEPT !.seen[s] = v]
  BY <1>1, <1>2, <1>3, Zenon DEF may_write, SeenAfter
<1>6. Good(g, {}) /\ Same(k, g, {"seen"})
  BY <1>4, <1>5, SeenKeeps
<1>7. g.seen = Put(k.seen, s, v)
  BY <1>0, <1>5, Zenon DEF IsKv, Fields, Put
<1> QED  BY <1>3, <1>6, <1>7

Begun(k, g, s, pos, rows) ==
  /\ Good(g, {}) /\ Same(k, g, TierFields \cup {"seen"}) /\ Ebbs(k, g, {})
  /\ g.seen = Put(k.seen, s, SeenAfter(k.seen[s], pos, rows))
LEMMA BeginRuns ==
  ASSUME NEW k, Good(k, {}), NEW s \in Held(k), NEW l \in Layers, NEW pos \in Nat, NEW rows \in Nat \ {0},
         Under(k, s, l, pos, rows), NEW g, g = begin_layer(k, s, l, pos, rows)
  PROVE  Begun(k, g, s, pos, rows)
<1>1. PICK a : a = poll_demotions(k)
  OBVIOUS
<1>2. Good(a, {}) /\ Stays(k, a) /\ Ebbs(k, a, {})
  BY <1>1, PollKeeps, PollEbbs
<1>3. PICK b : b = flush_foreign(a, s, l)
  OBVIOUS
<1>4. Good(b, {}) /\ Stays(a, b) /\ Ebbs(a, b, {})
  BY <1>2, <1>3, FlushKeeps, FlushEbbs, StaysSelf, EbbsSelf DEF flush_foreign
<1>5. g = may_write(b, s, l, pos, rows)
  BY <1>1, <1>3 DEF begin_layer
<1>6. Stays(k, b) /\ Ebbs(k, b, {})
  BY <1>2, <1>4, StaysTrans, EbbsTwice
<1>7. s \in Held(b) /\ b.seen = k.seen /\ s \in Ids
  BY <1>6, StaysWhat, HeldStays DEF Held
<1>8. Under(b, s, l, pos, rows)
  BY <1>6, <1>7, UnderEbbs
<1>9. Good(g, {}) /\ Same(b, g, {"seen"}) /\ g.seen = Put(b.seen, s, SeenAfter(b.seen[s], pos, rows))
  BY <1>4, <1>5, <1>7, <1>8, MayWriteRuns
<1>10. g.st = b.st /\ g.pend = b.pend
  BY <1>9 DEF Same, Fields
<1>11. Ebbs(k, g, {})
  BY <1>6, <1>10, EbbsSame, EbbsTwice
<1> QED  BY <1>6, <1>7, <1>9, <1>11 DEF Begun, Stays, Same, TierFields

\* The pages of a layer that end at p, or before.
Past(s, l, p) == {x \in Cells : x[1] = s /\ x[2] = l /\ PageEnd(x) <= p}

LEMMA AttendRuns ==
  ASSUME NEW k, Good(k, {}), Worded(k), k.fail = "none", NEW s \in Ids, NEW l \in Layers, NEW pos \in Nat,
         NEW rows \in Nat \ {0}, MayCut(k.txt, s, l, pos), NEW g, g = attend(k, s, l, pos, rows)
  PROVE  /\ Good(g, {}) /\ Same(k, g, TierFields \cup {"txt", "rewinds"}) /\ Rolls(k, g, s)
         /\ Wrote(k.txt, g.txt, s, l, pos, rows) /\ Ebbs(k, g, Past(s, l, pos + rows - 1))
<1>1. IsKv(k)
  BY DEF Good, Base
<1>2. PICK a : a = append_rows(k, s, l, pos, rows)
  OBVIOUS
<1>3. IsKv(a) /\ Same(k, a, {"vram", "txt", "rewinds"}) /\ Rolls(k, a, s) /\ Wrote(k.txt, a.txt, s, l, pos, rows)
  BY <1>1, <1>2, RowsKeep DEF Worded
<1>4. PICK b : b = read_rows(a, s, l, pos)
  OBVIOUS
<1>5. IsKv(b) /\ Same(a, b, {"cache"})
  BY <1>3, <1>4, ReadFields
<1>6. Same(k, b, {"vram", "txt", "rewinds", "cache"}) /\ b.txt = a.txt /\ b.rewinds = a.rewinds
  BY <1>3, <1>5 DEF Same, Fields
<1>7. Same(k, b, Inert)
  BY <1>6 DEF Same, Inert
<1>8. Good(b, {})
  BY <1>5, <1>7, BaseInert DEF Good
<1>9. PICK p : p = pos + rows - 1
  OBVIOUS
<1>10. PICK e : e = p + 1 - Retention
  OBVIOUS
<1>11. PICK f : f = p \div PageSize
  OBVIOUS
<1>12. g = collect_layer_range(b, s, {l}, e, f)
  BY <1>2, <1>4, <1>9, <1>10, <1>11, Zenon DEF attend, after_attention
<1>13. Good(g, {}) /\ Stays(b, g)
  BY <1>8, <1>12, CollectRangeKeeps
<1>14. Ebbs(b, g, Reach(s, {l}, e, f))
  BY <1>8, <1>12, CollectRangeEbbs
<1>15. Reach(s, {l}, e, f) \subseteq Past(s, l, p)
  <2>1. p \in Nat
    BY <1>9
  <2>2. ASSUME NEW x \in Cells, x[3] < f PROVE PageEnd(x) <= p
    <3>1. x[3] \in Nat
      BY CellParts
    <3> QED  BY <1>11, <2>1, <2>2, <3>1, DivIs DEF PageEnd
  <2> QED  BY <2>2 DEF Reach, Past
<1>16. b.st = k.st /\ b.pend = k.pend
  BY <1>6 DEF Same, Fields
<1>17. Ebbs(k, g, Past(s, l, p))
  <2>1. Ebbs(k, b, {})
    BY <1>16, EbbsSame
  <2> QED  BY <1>14, <1>15, <2>1, EbbsMore, EbbsTrans DEF Ebbs
<1>18. g.txt = a.txt /\ g.rewinds = a.rewinds
  BY <1>6, <1>13, StaysWhat
<1>19. Same(k, g, TierFields \cup {"txt", "rewinds"})
  BY <1>6, <1>13 DEF Same, Stays, TierFields
<1> QED  BY <1>3, <1>9, <1>13, <1>17, <1>18, <1>19 DEF Rolls

\* What a layer that runs changes.
Runs(k, g, s, l, pos, rows) ==
  /\ Same(k, g, TierFields \cup {"seen", "txt", "rewinds"}) /\ Rolls(k, g, s)
  /\ Wrote(k.txt, g.txt, s, l, pos, rows) /\ Ebbs(k, g, Past(s, l, pos + rows - 1))
  /\ \A q \in Ids \ {s} : g.seen[q] = k.seen[q]
  /\ g.seen[s] = SeenAfter(k.seen[s], pos, rows)

LEMMA TierStepRuns ==
  ASSUME NEW k, Good(k, {}), Worded(k), k.fail = "none", NEW s \in Held(k), NEW l \in Layers, NEW pos \in Nat,
         NEW rows \in Nat \ {0}, MayCut(k.txt, s, l, pos), Under(k, s, l, pos, rows),
         NEW g, g = tier_step(k, s, l, pos, rows)
  PROVE  Good(g, {}) /\ Runs(k, g, s, l, pos, rows)
<1>1. PICK a : a = poll_demotions(k)
  OBVIOUS
<1>2. Good(a, {}) /\ Stays(k, a) /\ Ebbs(k, a, {}) /\ s \in Ids
  BY <1>1, PollKeeps, PollEbbs DEF Held
<1>0. a.seen = k.seen /\ a.life = k.life
  BY <1>2, StaysWhat
<1>3. s \in Held(a)
  BY <1>0, HeldStays
<1>4. PICK b : b = begin_layer(a, s, l, pos, rows)
  OBVIOUS
<1>5. Under(a, s, l, pos, rows)
  BY <1>2, UnderEbbs
<1>6. /\ Good(b, {}) /\ Same(a, b, TierFields \cup {"seen"}) /\ Ebbs(a, b, {})
      /\ b.seen = Put(a.seen, s, SeenAfter(a.seen[s], pos, rows))
  <2>1. Begun(a, b, s, pos, rows)
    BY <1>2, <1>3, <1>4, <1>5, BeginRuns
  <2> QED  BY <2>1 DEF Begun
<1>7. Same(k, b, TierFields \cup {"seen"}) /\ Ebbs(k, b, {})
  BY <1>2, <1>6, EbbsTwice DEF Stays, Same
<1>8. b.txt = k.txt /\ b.rewinds = k.rewinds /\ b.fail = k.fail
  BY <1>7 DEF Same, Fields, TierFields
<1>9. g = attend(b, s, l, pos, rows)
  BY <1>1, <1>4 DEF tier_step
<1>10. Worded(b) /\ MayCut(b.txt, s, l, pos) /\ b.fail = "none"
  BY <1>8 DEF Worded
<1>11. /\ Good(g, {}) /\ Same(b, g, TierFields \cup {"txt", "rewinds"}) /\ Rolls(b, g, s)
       /\ Wrote(b.txt, g.txt, s, l, pos, rows) /\ Ebbs(b, g, Past(s, l, pos + rows - 1))
  BY <1>2, <1>6, <1>9, <1>10, AttendRuns
<1>12. Ebbs(k, g, Past(s, l, pos + rows - 1))
  BY <1>7, <1>11 DEF Ebbs
<1>13. Same(k, g, TierFields \cup {"seen", "txt", "rewinds"}) /\ g.seen = b.seen
  BY <1>7, <1>11 DEF Same, Fields, TierFields
<1>14. k.seen \in [Ids -> Nat]
  BY DEF Good, Base, DormantOk
<1>15. g.seen[s] = SeenAfter(k.seen[s], pos, rows) /\ \A q \in Ids \ {s} : g.seen[q] = k.seen[q]
  BY <1>0, <1>2, <1>6, <1>13, <1>14 DEF Put
<1> QED  BY <1>8, <1>11, <1>12, <1>13, <1>15 DEF Runs, Rolls

\* A dense chunk: nothing of the sequence is demoted while it runs.
LEMMA DenseRuns ==
  ASSUME NEW k, Good(k, {}), Worded(k), NEW s \in Held(k), NEW l \in Layers, NEW pos \in Nat, NEW rows \in Nat,
         MayCut(k.txt, s, l, pos), NEW r, r = dense_step(k, s, l, pos, rows)
  PROVE  /\ Good(r.k, {})
         /\ ~r.ok => Calm(k, r.k)
         /\ r.ok => \E a : Good(a, {}) /\ Calm(k, a) /\ Worded(a) /\ r.k = append_rows(a, s, l, pos, rows)
<1>1. PICK p : p = poll_demotions(k)
  OBVIOUS
<1>2. Good(p, {}) /\ Calm(k, p) /\ s \in Ids
  BY <1>1, PollCalm DEF Held
<1>3. PICK a : a = all_hot(p, s)
  OBVIOUS
<1>4. Good(a.k, {}) /\ Calm(p, a.k)
  <2>1. CASE p.demoted[s] > 0
    <3>1. a = repromote_seq(p, s, 0)
      BY <1>3, <2>1 DEF all_hot
    <3> QED  BY <1>2, <3>1, RepromoteCalm
  <2>2. CASE ~ (p.demoted[s] > 0)
    <3>1. a = Done(p)
      BY <1>3, <2>2 DEF all_hot
    <3> QED  BY <1>2, <3>1, CalmSelf DEF Done
  <2> QED  BY <2>1, <2>2
<1>5. Calm(k, a.k)
  BY <1>2, <1>4, CalmTrans
<1>6. Good(r.k, {})
  BY DenseKeeps DEF Layered
<1>7. CASE a.ok
  <2>1. r = Done(append_rows(a.k, s, l, pos, rows))
    BY <1>1, <1>3, <1>7, Zenon DEF dense_step, dense_rows
  <2>2. r.k = append_rows(a.k, s, l, pos, rows) /\ r.ok
    BY <2>1 DEF Done
  <2>3. Worded(a.k)
    BY <1>5, StaysWhat DEF Calm, Worded
  <2> QED  BY <1>4, <1>5, <1>6, <2>2, <2>3
<1>8. CASE ~ a.ok
  <2>1. r = a
    BY <1>1, <1>3, <1>8, Zenon DEF dense_step, dense_rows
  <2> QED  BY <1>5, <1>6, <1>8, <2>1
<1> QED  BY <1>7, <1>8

-------------------------------------------------------------------------------
(* What is demoted of a sequence is behind the rows that will be written.  *)

Limit(k, s, l) == IF k.pass[s] = "decode" THEN Rowed(k, s, 0) - 1 ELSE Rowed(k, s, l)
Prefills == {"chunk", "dense"}
\* The rows of the layers under way.
Paced(k, s) ==
  /\ k.seen[s] <= Rowed(k, s, 0) /\ Rowed(k, s, 0) <= k.num[s] * PageSize
  /\ k.pass[s] \in {"none", "decode"} \cup Prefills
  /\ k.pass[s] = "decode" => \A l \in Layers : Rowed(k, s, 0) - 1 <= Rowed(k, s, l)
  /\ k.pass[s] \in Prefills =>
       Rowed(k, s, 0) - k.base[s] <= Retention /\ \A l \in Layers : k.base[s] <= Rowed(k, s, l)
Backward(k, s) == \A x \in Of(s) : Going(k, x) => PageEnd(x) <= Limit(k, s, x[2])
Safe(k, s) == k.base[s] \in Int /\ Paced(k, s) /\ Backward(k, s)

\* The numbers of a sequence.
LEMMA SafeTyped ==
  ASSUME NEW k, Inv(k), NEW s \in Ids
  PROVE  /\ k.seen[s] \in Nat /\ k.num[s] \in Nat /\ k.num[s] * PageSize \in Nat /\ Retention \in Nat /\ Chunk \in Nat
         /\ 0 \in Layers /\ \A l \in Layers : Rowed(k, s, l) \in Nat
<1>1. k.seen[s] \in Nat /\ k.num[s] \in Nat /\ Retention \in Nat /\ Chunk \in Nat /\ PageSize \in Nat
  BY KvAssumption DEF Inv, Good, Base, DormantOk, NumberedOk
<1>2. k.num[s] * PageSize \in Nat
  BY <1>1
<1>3. Texts(k.txt, k.rewinds)
  BY DEF Inv, Worded
<1>4. 0 \in Layers /\ \A l \in Layers : Rowed(k, s, l) \in Nat
  BY <1>3, Lens DEF Rowed
<1> QED  BY <1>1, <1>2, <1>4

\* Between two steps, the layers have the same rows.
LEMMA IdleRows ==
  ASSUME NEW k, Inv(k), k.fail = "none", NEW s \in Ids, k.pass[s] = "none"
  PROVE  \A l \in Layers : Rowed(k, s, l) = Rowed(k, s, 0)
<1>1. Texts(k.txt, k.rewinds) /\ TrailsBy(k.txt, s, 0)
  BY InvParts DEF Unit
<1> QED  BY <1>1, Flat DEF Rowed

\* What pressure may demote is behind, too.
LEMMA StaleBehind ==
  ASSUME NEW k, Inv(k), k.fail = "none", NEW s \in Ids, Safe(k, s), NEW x \in Of(s), x \in Stale(k)
  PROVE  PageEnd(x) <= Limit(k, s, x[2])
<1>1. x \in Cells /\ x[1] = s /\ x[2] \in Layers
  BY CellParts
<1>2. PICK e \in Nat : e = PageEnd(x)
  BY <1>1, PageEnds
<1>3. /\ k.seen[s] \in Nat /\ Retention \in Nat /\ 0 \in Layers
      /\ Rowed(k, s, 0) \in Nat /\ Rowed(k, s, x[2]) \in Nat
  BY <1>1, SafeTyped
<1>4. e <= k.seen[s] - Retention /\ e < k.seen[s]
  BY <1>1, <1>2 DEF Stale
<1>5. k.seen[s] <= Rowed(k, s, 0)
  BY DEF Safe, Paced
<1>6. CASE k.pass[s] = "decode"
  BY <1>2, <1>3, <1>4, <1>5, <1>6 DEF Limit
<1>7. CASE k.pass[s] = "none"
  <2>1. Rowed(k, s, x[2]) = Rowed(k, s, 0)
    BY <1>1, <1>7, IdleRows
  <2> QED  BY <1>2, <1>3, <1>4, <1>5, <1>7, <2>1 DEF Limit
<1>8. CASE k.pass[s] \in Prefills
  <2>1. k.base[s] \in Int /\ Rowed(k, s, 0) - k.base[s] <= Retention /\ k.base[s] <= Rowed(k, s, x[2])
    BY <1>1, <1>8 DEF Safe, Paced
  <2>2. e <= Rowed(k, s, x[2])
    BY <1>3, <1>4, <1>5, <2>1
  <2>3. Limit(k, s, x[2]) = Rowed(k, s, x[2])
    BY <1>8 DEF Limit, Prefills
  <2> QED  BY <1>2, <2>2, <2>3
<1> QED  BY <1>6, <1>7, <1>8 DEF Safe, Paced

\* The rows of q and its place in a pass are what they were.
Rests(k, g, q) ==
  /\ \A l \in Layers : g.txt[<<q, l>>] = k.txt[<<q, l>>]
  /\ g.pass[q] = k.pass[q] /\ g.base[q] = k.base[q] /\ g.seen[q] = k.seen[q]
  /\ k.num[q] <= g.num[q]

LEMMA SafeKept ==
  ASSUME NEW k, Inv(k), k.fail = "none", NEW g, g.num \in [Ids -> Nat], NEW q \in Ids, Safe(k, q), Rests(k, g, q),
         NEW B, Ebbs(k, g, Stale(k) \cup B), B \cap Of(q) = {}
  PROVE  Safe(g, q)
<1>1. 0 \in Layers /\ Rowed(k, q, 0) \in Nat /\ k.num[q] \in Nat /\ g.num[q] \in Nat /\ PageSize \in Nat
  BY SafeTyped, KvAssumption
<1>2. \A l \in Layers : Rowed(g, q, l) = Rowed(k, q, l)
  BY DEF Rests, Rowed
<1>3. k.num[q] * PageSize <= g.num[q] * PageSize /\ k.num[q] * PageSize \in Int /\ g.num[q] * PageSize \in Int
  BY <1>1, MulMono DEF Rests
<1>4. Rowed(g, q, 0) <= g.num[q] * PageSize
  <2>1. Rowed(k, q, 0) <= k.num[q] * PageSize
    BY DEF Safe, Paced
  <2> QED  BY <1>1, <1>2, <1>3, <2>1
<1>5. Paced(g, q)
  BY <1>1, <1>2, <1>4 DEF Safe, Paced, Rests
<1>6. ASSUME NEW x \in Of(q), Going(g, x) PROVE PageEnd(x) <= Limit(g, q, x[2])
  <2>1. x \in Cells /\ x[2] \in Layers
    BY CellParts
  <2>2. Going(k, x) \/ x \in Stale(k)
    BY <1>6, <2>1 DEF Ebbs
  <2>3. PageEnd(x) <= Limit(k, q, x[2])
    BY <2>2, StaleBehind DEF Safe, Backward
  <2>4. Limit(g, q, x[2]) = Limit(k, q, x[2])
    BY <1>1, <1>2, <2>1 DEF Limit, Rests
  <2> QED  BY <2>3, <2>4
<1>7. g.base[q] \in Int
  BY DEF Safe, Rests
<1> QED  BY <1>5, <1>6, <1>7 DEF Safe, Backward

AllSafe(k) == k.fail = "none" /\ \A s \in Ids : Safe(k, s)

LEMMA CalmSafe ==
  ASSUME NEW k, Inv(k), AllSafe(k), NEW g, Calm(k, g)
  PROVE  AllSafe(g)
<1>1. /\ g.txt = k.txt /\ g.pass = k.pass /\ g.base = k.base /\ g.seen = k.seen /\ g.num = k.num /\ g.fail = k.fail
  BY DEF Calm, Stays, Same, Fields, TierFields
<1>0. k.num \in [Ids -> Nat]
  BY KvAssumption DEF Inv, Good, Base, NumberedOk
<1>2. g.num \in [Ids -> Nat]
  BY <1>0, <1>1
<1>3. ASSUME NEW q \in Ids PROVE Safe(g, q)
  <2>1. Rests(k, g, q)
    BY <1>0, <1>1 DEF Rests
  <2>2. Ebbs(k, g, Stale(k) \cup {}) /\ {} \cap Of(q) = {}
    BY DEF Calm, Ebbs
  <2>3. k.fail = "none" /\ Safe(k, q)
    BY DEF AllSafe
  <2> QED  BY <1>2, <2>1, <2>2, <2>3, SafeKept
<1> QED  BY <1>1, <1>3 DEF AllSafe

LEMMA GrowsSafe ==
  ASSUME NEW k, Inv(k), AllSafe(k), NEW g, Good(g, {}), Grows(k, g)
  PROVE  AllSafe(g)
<1>1. /\ g.txt = k.txt /\ g.pass = k.pass /\ g.base = k.base /\ g.seen = k.seen /\ g.fail = k.fail
  BY DEF Grows, Same, Fields, TierFields
<1>2. g.num \in [Ids -> Nat]
  BY KvAssumption DEF Good, Base, NumberedOk
<1>3. ASSUME NEW q \in Ids PROVE Safe(g, q)
  <2>1. Rests(k, g, q)
    BY <1>1 DEF Rests, Grows
  <2>2. Ebbs(k, g, Stale(k) \cup {})
    BY DEF Grows, Ebbs
  <2> QED  BY <1>2, <2>1, <2>2, SafeKept DEF AllSafe
<1> QED  BY <1>1, <1>3 DEF AllSafe

-------------------------------------------------------------------------------
(* A layer of a sequence, and the others.                                  *)

LEMMA CalmGrows ==
  ASSUME NEW k, NEW D, Good(k, D), NEW g, Calm(k, g)
  PROVE  Grows(k, g)
<1>1. g.num = k.num
  BY StaysWhat DEF Calm
<1>2. \A q \in Ids : k.num[q] \in Int
  BY KvAssumption DEF Good, Base, NumberedOk
<1> QED  BY <1>1, <1>2 DEF Calm, Stays, Same, Grows

LEMMA GrowsTrans ==
  ASSUME NEW a, Good(a, {}), NEW b, Good(b, {}), Grows(a, b), NEW c, Good(c, {}), Grows(b, c)
  PROVE  Grows(a, c)
<1>1. b.seen = a.seen
  BY DEF Grows, Same, Fields, TierFields
<1>2. Stale(b) = Stale(a)
  BY <1>1 DEF Stale
<1>3. Ebbs(a, c, Stale(a))
  BY <1>2, EbbsTwice DEF Grows
<1>4. \A q \in Ids : a.num[q] \in Int /\ b.num[q] \in Int /\ c.num[q] \in Int
  BY KvAssumption DEF Good, Base, NumberedOk
<1>5. \A q \in Ids : a.num[q] <= c.num[q]
  BY <1>4 DEF Grows
<1>6. Same(a, c, TierFields \cup {"num"})
  BY DEF Grows, Same
<1> QED  BY <1>3, <1>5, <1>6 DEF Grows

\* From k to g, a layer of s was run; nothing of the others.
Layer == TierFields \cup {"num", "seen", "txt", "rewinds"}
Went(k, g, s) ==
  /\ Good(g, {}) /\ Same(k, g, Layer) /\ Rolls(k, g, s) /\ Ebbs(k, g, Stale(k) \cup Of(s))
  /\ \A q \in Ids : k.num[q] <= g.num[q]
  /\ \A q \in Ids \ {s} : g.seen[q] = k.seen[q]

LEMMA RunsWent ==
  ASSUME NEW k, NEW b, Grows(k, b), NEW s \in Ids, NEW l, NEW pos, NEW rows, NEW g, Good(g, {}), Runs(b, g, s, l, pos, rows)
  PROVE  Went(k, g, s) /\ Wrote(k.txt, g.txt, s, l, pos, rows)
<1>1. b.txt = k.txt /\ b.seen = k.seen
  BY DEF Grows, Same, Fields, TierFields
<1>2. g.num = b.num
  BY DEF Runs, Same, Fields, TierFields
<1>3. Same(k, g, Layer)
  BY DEF Grows, Runs, Same, Layer
<1>4. Past(s, l, pos + rows - 1) \subseteq Of(s)
  BY CellParts DEF Past
<1>5. Ebbs(k, g, Stale(k) \cup Of(s))
  BY <1>4 DEF Grows, Runs, Ebbs
<1>6. Rolls(k, g, s) /\ Wrote(k.txt, g.txt, s, l, pos, rows)
  BY <1>1 DEF Runs, Rolls
<1> QED  BY <1>1, <1>2, <1>3, <1>5, <1>6 DEF Went, Grows, Runs

LEMMA PassedWhat ==
  ASSUME NEW k, IsKv(k), DOMAIN k.pass = Ids, DOMAIN k.base = Ids, NEW s \in Ids, NEW v, NEW w, NEW g, g = Passed(k, s, v, w)
  PROVE  /\ Same(k, g, {"pass", "base"}) /\ g.pass[s] = v /\ g.base[s] = w
         /\ \A q \in Ids \ {s} : g.pass[q] = k.pass[q] /\ g.base[q] = k.base[q]
<1>1. IsKv(g) /\ Same(k, g, {"pass", "base"}) /\ g.pass = Put(k.pass, s, v) /\ g.base = Put(k.base, s, w)
  BY Zenon DEF Passed, IsKv, Fields, Same, Put
<1> QED  BY <1>1 DEF Put

LEMMA OthersSafe ==
  ASSUME NEW k, Inv(k), AllSafe(k), DOMAIN k.base = Ids, NEW s \in Ids, NEW g, Went(k, g, s), NEW v, NEW w,
         NEW e, e = Passed(g, s, v, w), Safe(e, s)
  PROVE  AllSafe(e) /\ DOMAIN e.base = Ids
<1>1. g.pass = k.pass /\ g.base = k.base /\ g.fail = k.fail
  BY DEF Went, Same, Fields, Layer, TierFields
<1>2. DOMAIN k.pass = Ids /\ IsKv(g)
  BY DEF Inv, PassOk, Went, Good, Base
<1>3. /\ Same(g, e, {"pass", "base"}) /\ e.pass[s] = v /\ e.base[s] = w
      /\ \A q \in Ids \ {s} : e.pass[q] = k.pass[q] /\ e.base[q] = k.base[q]
  BY <1>1, <1>2, PassedWhat
<1>4. e.txt = g.txt /\ e.num = g.num /\ e.seen = g.seen /\ e.fail = g.fail /\ e.st = g.st /\ e.pend = g.pend
  BY <1>3 DEF Same, Fields
<1>5. g.num \in [Ids -> Nat]
  BY KvAssumption DEF Went, Good, Base, NumberedOk
<1>6. Ebbs(k, e, Stale(k) \cup Of(s))
  BY <1>4 DEF Went, Ebbs, Going
<1>7. ASSUME NEW q \in Ids \ {s} PROVE Safe(e, q)
  <2>1. Rests(k, e, q)
    BY <1>3, <1>4 DEF Rests, Went, Rolls, OthersTexts
  <2>2. Of(s) \cap Of(q) = {}
    BY CellParts
  <2>3. k.fail = "none" /\ Safe(k, q) /\ e.num \in [Ids -> Nat]
    BY <1>4, <1>5 DEF AllSafe
  <2> QED  BY <1>6, <2>1, <2>2, <2>3, SafeKept
<1>8. DOMAIN e.base = Ids
  <2>1. e.base = Put(g.base, s, w)
    BY <1>2, Zenon DEF Passed, IsKv, Fields, Put
  <2> QED  BY <1>1, <2>1 DEF Put
<1> QED  BY <1>1, <1>4, <1>7, <1>8 DEF AllSafe

\* The step was taken: the pass goes on, or is over.
LEMMA TakenSafe ==
  ASSUME NEW k, Inv(k), AllSafe(k), DOMAIN k.base = Ids, NEW s \in Ids, NEW r, r.ok, Went(k, r.k, s), NEW v, NEW w,
         Safe(Passed(r.k, s, v, w), s), Safe(Passed(r.k, s, "none", 0), s), NEW g, g = Taken(r, s, v, w)
  PROVE  AllSafe(g) /\ DOMAIN g.base = Ids
<1>1. r.k.fail = "none"
  BY DEF AllSafe, Went, Same, Fields, Layer, TierFields
<1>2. g = Passed(r.k, s, "none", 0) \/ g = Passed(r.k, s, v, w)
  BY <1>1, Zenon DEF Taken, Passed
<1> QED  BY <1>2, OthersSafe

\* A refused one.
LEMMA RefusedSafe ==
  ASSUME NEW k, Inv(k), AllSafe(k), DOMAIN k.base = Ids, NEW r, ~r.ok, Good(r.k, {}), Grows(k, r.k),
         NEW s, NEW v, NEW w, NEW g, g = Taken(r, s, v, w)
  PROVE  AllSafe(g) /\ DOMAIN g.base = Ids
<1>1. g = r.k
  BY Zenon DEF Taken
<1>2. r.k.base = k.base
  BY DEF Grows, Same, Fields, TierFields
<1> QED  BY <1>1, <1>2, GrowsSafe

-------------------------------------------------------------------------------
(* Decode steps.                                                           *)

LEMMA RoomFor ==
  ASSUME NEW pos \in Nat, NEW n \in Nat, pos \div PageSize + 1 <= n
  PROVE  pos + 1 <= n * PageSize
<1>1. PICK q \in Nat : q = pos \div PageSize
  BY DivIs
<1>2. pos < (q + 1) * PageSize
  BY <1>1, DivIs
<1>3. (q + 1) * PageSize <= n * PageSize /\ (q + 1) * PageSize \in Int /\ n * PageSize \in Int
  BY <1>1, MulMono, KvAssumption
<1> QED  BY <1>2, <1>3

LEMMA RoomWas ==
  ASSUME NEW pos \in Nat, NEW n \in Nat, pos < n * PageSize
  PROVE  pos \div PageSize + 1 <= n
<1>1. PICK q \in Nat : q = pos \div PageSize /\ q * PageSize <= pos /\ q * PageSize \in Int
  BY DivIs, KvAssumption
<1>2. SUFFICES ASSUME n <= q PROVE FALSE
  BY <1>1
<1>3. n * PageSize <= q * PageSize /\ n * PageSize \in Int
  BY <1>2, MulMono, KvAssumption
<1> QED  BY <1>1, <1>3

\* What is demoted of s, or may be under pressure, is behind pos; or s has the
\* page, and nothing of it is about to be demoted: a rewind.
Clear(k, s, pos) == \A x \in Of(s) : Going(k, x) \/ x \in Stale(k) => PageEnd(x) <= pos
Back(k, s, pos)  == NotPending(k, s) /\ pos \div PageSize + 1 <= k.num[s]

LEMMA ClearGrows ==
  ASSUME NEW k, NEW s \in Ids, NEW pos, Clear(k, s, pos), NEW b, Grows(k, b)
  PROVE  Below(b, s, pos)
<1>1. Of(s) \subseteq Cells
  BY CellParts
<1> QED  BY <1>1 DEF Clear, Below, Grows, Ebbs

LEMMA BackBelow ==
  ASSUME NEW k, Good(k, {}), NEW s \in Ids, NotPending(k, s), k.demoted[s] = 0, NEW pos
  PROVE  Below(k, s, pos)
<1>1. Cardinality(Tier(k.st, s, Lower)) = 0
  BY DEF Good, Base, CountsOk, SeqCounts
<1>2. Tier(k.st, s, Lower) = {}
  BY <1>1, TierFinite, FS_EmptySet
<1>3. \A x \in Of(s) : k.st[x].tier \in Tiers /\ x[1] = s
  BY CellParts DEF Good, Base, EntriesOk
<1>4. \A i \in k.pend.items : i.x[1] = k.pend.seq
  BY DEF Good, Base, PendOk
<1> QED  BY <1>2, <1>3, <1>4 DEF Below, Going, NotPending, Tier, Tiers, Lower, Cargo

Decoded(k, r, s, l, pos) ==
  /\ ~r.ok => Grows(k, r.k)
  /\ r.ok => /\ Went(k, r.k, s) /\ Wrote(k.txt, r.k.txt, s, l, pos, 1) /\ Below(r.k, s, pos)
             /\ pos + 1 <= r.k.num[s] * PageSize
             /\ r.k.seen[s] = SeenAfter(k.seen[s], pos, 1)

LEMMA DecodeRuns ==
  ASSUME NEW k, Inv(k), k.fail = "none", NEW s \in Held(k), NEW l \in Layers, NEW pos \in Nat,
         MayCut(k.txt, s, l, pos), Clear(k, s, pos) \/ Back(k, s, pos), NEW r, r = decode_layer(k, s, l, pos)
  PROVE  Good(r.k, {}) /\ Decoded(k, r, s, l, pos)
<1>0. Good(k, {}) /\ Worded(k) /\ s \in Ids
  BY DEF Inv, Held
<1>1. PICK a : a = IF k.demoted[s] > 0 THEN repromote_for_rewind(k, s, pos) ELSE Done(k)
  OBVIOUS
<1>2. Good(a.k, {}) /\ Calm(k, a.k) /\ (a.ok => Clear(k, s, pos) \/ Below(a.k, s, pos))
  <2>2. CASE k.demoted[s] > 0
    <3>1. a = repromote_for_rewind(k, s, pos)
      BY <1>1, <2>2
    <3> QED  BY <1>0, <3>1, RewindCalm
  <2>3. CASE ~ (k.demoted[s] > 0)
    <3>1. a = Done(k)
      BY <1>1, <2>3
    <3>2. a.k = k
      BY <3>1 DEF Done
    <3>3. k.demoted[s] \in Nat
      BY <1>0, TierFinite DEF Good, Base, CountsOk, SeqCounts
    <3>4. k.demoted[s] = 0
      BY <2>3, <3>3
    <3> QED  BY <1>0, <3>2, <3>4, BackBelow, CalmSelf DEF Back
  <2> QED  BY <2>2, <2>3
<1>3. PICK b : b = ensure_pages(a.k, s, pos)
  OBVIOUS
<1>4. a.k.life = k.life /\ a.k.num = k.num
  BY <1>2, StaysWhat DEF Calm
<1>5. s \in Held(a.k) /\ pos \in Int
  BY <1>4, HeldStays
<1>6. /\ Good(b.k, {}) /\ Grows(a.k, b.k)
      /\ b.ok => pos \div PageSize + 1 <= b.k.num[s]
      /\ pos \div PageSize + 1 <= a.k.num[s] => b.k = a.k
  BY <1>2, <1>3, <1>5, EnsureGrows
<1>7. Grows(k, a.k)
  BY <1>0, <1>2, CalmGrows
<1>8. Grows(k, b.k)
  BY <1>0, <1>2, <1>6, <1>7, GrowsTrans
<1>9. CASE ~a.ok
  <2>1. r = a
    BY <1>1, <1>3, <1>9, Zenon DEF decode_layer, rewind_hook, hooked_row, decode_row
  <2> QED  BY <1>2, <1>7, <1>9, <2>1 DEF Decoded
<1>10. CASE a.ok /\ ~b.ok
  <2>1. r = b
    BY <1>1, <1>3, <1>10, Zenon DEF decode_layer, rewind_hook, hooked_row, decode_row
  <2> QED  BY <1>6, <1>8, <1>10, <2>1 DEF Decoded
<1>11. CASE a.ok /\ b.ok
  <2>1. r = Done(tier_step(b.k, s, l, pos, 1))
    BY <1>1, <1>3, <1>11, Zenon DEF decode_layer, rewind_hook, hooked_row, decode_row
  <2>2. PICK g : g = tier_step(b.k, s, l, pos, 1)
    OBVIOUS
  <2>3. r.k = g /\ r.ok
    BY <2>1, <2>2 DEF Done
  <2>4. b.k.txt = k.txt /\ b.k.rewinds = k.rewinds /\ b.k.life = k.life /\ b.k.fail = k.fail /\ b.k.seen = k.seen
    BY <1>8 DEF Grows, Same, Fields, TierFields
  <2>5. Below(b.k, s, pos)
    <3>1. CASE Clear(k, s, pos)
      BY <1>0, <1>8, <3>1, ClearGrows
    <3>2. CASE ~Clear(k, s, pos)
      BY <1>2, <1>4, <1>6, <1>11, <3>2 DEF Back
    <3> QED  BY <3>1, <3>2
  <2>6. Worded(b.k) /\ s \in Held(b.k) /\ MayCut(b.k.txt, s, l, pos) /\ b.k.fail = "none" /\ 1 \in Nat \ {0}
    BY <1>0, <2>4, HeldStays DEF Worded
  <2>7. Under(b.k, s, l, pos, 1)
    BY <1>0, <2>5, BelowUnder
  <2>8. Good(g, {}) /\ Runs(b.k, g, s, l, pos, 1)
    BY <1>6, <2>2, <2>6, <2>7, TierStepRuns
  <2>9. Went(k, g, s) /\ Wrote(k.txt, g.txt, s, l, pos, 1)
    BY <1>0, <1>8, <2>8, RunsWent
  <2>10. Below(g, s, pos)
    <3>1. pos + 1 - 1 = pos
      OBVIOUS
    <3>2. Ebbs(b.k, g, Past(s, l, pos))
      BY <2>8, <3>1 DEF Runs
    <3>3. Of(s) \subseteq Cells
      BY <1>0, CellParts
    <3> QED  BY <2>5, <3>2, <3>3 DEF Below, Ebbs, Past
  <2>11. g.num = b.k.num
    BY <2>8 DEF Runs, Same, Fields, TierFields
  <2>12. b.k.num[s] \in Nat
    BY <1>0, <1>6, KvAssumption DEF Good, Base, NumberedOk
  <2>13. pos + 1 <= g.num[s] * PageSize
    BY <1>6, <1>11, <2>11, <2>12, RoomFor
  <2>14. g.seen[s] = SeenAfter(k.seen[s], pos, 1)
    BY <2>4, <2>8 DEF Runs
  <2> QED  BY <2>3, <2>8, <2>9, <2>10, <2>13, <2>14 DEF Decoded
<1> QED  BY <1>9, <1>10, <1>11

\* Every layer has the rows up to pos, the first one with pos.
Abreast(g, s, pos) ==
  /\ Rowed(g, s, 0) = pos + 1 /\ \A m \in Layers : Rowed(g, s, m) \in {pos, pos + 1}
  /\ g.seen[s] = pos + 1 /\ pos + 1 <= g.num[s] * PageSize /\ Below(g, s, pos)

LEMMA AbreastSafe ==
  ASSUME NEW g, IsKv(g), DOMAIN g.pass = Ids, DOMAIN g.base = Ids, NEW s \in Ids, NEW pos \in Nat, Abreast(g, s, pos),
         NEW v \in {"none", "decode"}, NEW e, e = Passed(g, s, v, 0)
  PROVE  Safe(e, s)
<1>1. Same(g, e, {"pass", "base"}) /\ e.pass[s] = v /\ e.base[s] = 0
  BY PassedWhat
<1>2. e.txt = g.txt /\ e.num = g.num /\ e.seen = g.seen /\ e.st = g.st /\ e.pend = g.pend
  BY <1>1 DEF Same, Fields
<1>3. \A m \in Layers : Rowed(e, s, m) = Rowed(g, s, m)
  BY <1>2 DEF Rowed
<1>4. 0 \in Layers
  BY KvAssumption DEF Layers
<1>5. Rowed(e, s, 0) = pos + 1 /\ \A m \in Layers : Rowed(e, s, m) \in {pos, pos + 1}
  BY <1>3, <1>4 DEF Abreast
<1>6. Paced(e, s)
  <2>1. e.seen[s] <= Rowed(e, s, 0) /\ Rowed(e, s, 0) <= e.num[s] * PageSize
    BY <1>2, <1>5 DEF Abreast
  <2>2. e.pass[s] \in {"none", "decode"} \cup Prefills /\ e.pass[s] \notin Prefills
    BY <1>1 DEF Prefills
  <2>3. \A m \in Layers : Rowed(e, s, 0) - 1 <= Rowed(e, s, m)
    BY <1>5
  <2> QED  BY <2>1, <2>2, <2>3 DEF Paced
<1>7. ASSUME NEW x \in Of(s), Going(e, x) PROVE PageEnd(x) <= Limit(e, s, x[2])
  <2>1. x \in Cells /\ x[2] \in Layers
    BY CellParts
  <2>2. PICK p \in Nat : p = PageEnd(x)
    BY <2>1, PageEnds
  <2>3. Going(g, x)
    BY <1>2, <1>7 DEF Going
  <2>4. p <= pos
    BY <2>2, <2>3 DEF Abreast, Below
  <2>5. Limit(e, s, x[2]) \in {pos, pos + 1}
    BY <1>5, <2>1 DEF Limit
  <2> QED  BY <2>2, <2>4, <2>5
<1> QED  BY <1>1, <1>6, <1>7 DEF Safe, Backward

LEMMA DecodeStepSafe ==
  ASSUME NEW k, Inv(k), AllSafe(k), DOMAIN k.base = Ids, NEW s \in Held(k), NEW l \in Layers, NEW pos \in Nat,
         MayCut(k.txt, s, l, pos), Clear(k, s, pos) \/ Back(k, s, pos),
         \A u : Wrote(k.txt, u, s, l, pos, 1) => /\ Len(u[<<s, 0>>]) = pos + 1
                                                /\ \A m \in Layers : Len(u[<<s, m>>]) \in {pos, pos + 1},
         NEW g, g = Taken(decode_layer(k, s, l, pos), s, "decode", 0)
  PROVE  AllSafe(g) /\ DOMAIN g.base = Ids
<1>1. s \in Ids /\ k.fail = "none"
  BY DEF Held, AllSafe
<1>2. PICK r : r = decode_layer(k, s, l, pos)
  OBVIOUS
<1>3. Good(r.k, {}) /\ Decoded(k, r, s, l, pos)
  BY <1>1, <1>2, DecodeRuns
<1>4. g = Taken(r, s, "decode", 0)
  BY <1>2
<1>5. CASE ~r.ok
  BY <1>3, <1>4, <1>5, RefusedSafe DEF Decoded
<1>6. CASE r.ok
  <2>1. /\ Went(k, r.k, s) /\ Wrote(k.txt, r.k.txt, s, l, pos, 1) /\ Below(r.k, s, pos)
        /\ pos + 1 <= r.k.num[s] * PageSize
        /\ r.k.seen[s] = SeenAfter(k.seen[s], pos, 1)
    BY <1>3, <1>6 DEF Decoded
  <2>2. Rowed(r.k, s, 0) = pos + 1 /\ \A m \in Layers : Rowed(r.k, s, m) \in {pos, pos + 1}
    BY <2>1 DEF Rowed
  <2>3. r.k.seen[s] = pos + 1
    <3>1. k.seen[s] \in Nat
      BY <1>1, SafeTyped
    <3>2. SeenAfter(k.seen[s], pos, 1) = pos + 1
      BY <3>1 DEF SeenAfter, MaxOf
    <3> QED  BY <2>1, <3>2
  <2>4. Abreast(r.k, s, pos)
    BY <2>1, <2>2, <2>3 DEF Abreast
  <2>5. IsKv(r.k) /\ DOMAIN r.k.pass = Ids /\ DOMAIN r.k.base = Ids
    <3>1. r.k.pass = k.pass /\ r.k.base = k.base
      BY <2>1 DEF Went, Same, Fields, Layer, TierFields
    <3> QED  BY <1>3, <3>1 DEF Good, Base, Inv, PassOk
  <2>6. Safe(Passed(r.k, s, "decode", 0), s) /\ Safe(Passed(r.k, s, "none", 0), s)
    BY <1>1, <2>4, <2>5, AbreastSafe
  <2> QED  BY <1>1, <1>4, <1>6, <2>1, <2>6, TakenSafe
<1> QED  BY <1>5, <1>6

\* The invariant.
Tame(k) == Inv(k) /\ AllSafe(k) /\ DOMAIN k.base = Ids

LEMMA TameParts ==
  ASSUME NEW k, Tame(k), NEW s \in Ids
  PROVE  /\ Inv(k) /\ AllSafe(k) /\ DOMAIN k.base = Ids /\ k.fail = "none" /\ Safe(k, s)
         /\ k.life[s] \in {"live", "holder"} => s \in Held(k)
BY DEF Tame, AllSafe, Held

LEMMA ClearAt ==
  ASSUME NEW k, Tame(k), NEW s \in Ids, NEW pos, \A l \in Layers : Limit(k, s, l) = pos
  PROVE  Clear(k, s, pos)
<1>1. Inv(k) /\ k.fail = "none" /\ Safe(k, s)
  BY TameParts
<1>2. ASSUME NEW x \in Of(s), Going(k, x) \/ x \in Stale(k) PROVE PageEnd(x) <= pos
  <2>1. x[2] \in Layers
    BY CellParts
  <2>2. PageEnd(x) <= Limit(k, s, x[2])
    BY <1>1, <1>2, StaleBehind DEF Safe, Backward
  <2> QED  BY <2>1, <2>2
<1> QED  BY <1>2 DEF Clear

\* The first layer of a decode step.
LEMMA FirstLayerSafe ==
  ASSUME NEW k, Tame(k), NEW s \in Ids, Idle(k, s), NEW pos \in Nat, pos <= Rowed(k, s, 0),
         pos = Rowed(k, s, 0) \/ NotPending(k, s),
         NEW g, g = Taken(decode_layer(k, s, 0, pos), s, "decode", 0)
  PROVE  AllSafe(g) /\ DOMAIN g.base = Ids
<1>1. Inv(k) /\ AllSafe(k) /\ DOMAIN k.base = Ids /\ k.fail = "none" /\ Safe(k, s) /\ s \in Held(k)
  BY TameParts DEF Idle
<1>2. \A l \in Layers : Rowed(k, s, l) = Rowed(k, s, 0)
  BY <1>1, IdleRows DEF Idle
<1>3. 0 \in Layers /\ Rowed(k, s, 0) \in Nat /\ k.num[s] \in Nat /\ k.num[s] * PageSize \in Nat
  BY <1>1, SafeTyped
<1>4. MayCut(k.txt, s, 0, pos)
  BY <1>2 DEF MayCut, Rowed
<1>5. Clear(k, s, pos) \/ Back(k, s, pos)
  <2>1. CASE pos = Rowed(k, s, 0)
    <3>1. \A l \in Layers : Limit(k, s, l) = pos
      BY <1>2, <2>1 DEF Limit, Idle
    <3> QED  BY <3>1, ClearAt
  <2>2. CASE pos # Rowed(k, s, 0)
    <3>1. Rowed(k, s, 0) <= k.num[s] * PageSize
      BY <1>1 DEF Safe, Paced
    <3>2. pos < k.num[s] * PageSize
      BY <1>3, <2>2, <3>1
    <3> QED  BY <1>3, <2>2, <3>2, RoomWas DEF Back
  <2> QED  BY <2>1, <2>2
<1>6. ASSUME NEW u, Wrote(k.txt, u, s, 0, pos, 1)
      PROVE  Len(u[<<s, 0>>]) = pos + 1 /\ \A m \in Layers : Len(u[<<s, m>>]) \in {pos, pos + 1}
  <2>1. \A m \in Layers : Left(k.txt, s, 0, pos, m) = pos
    BY <1>2, <1>3 DEF Left, Rowed
  <2> QED  BY <1>3, <1>6, <2>1 DEF Wrote
<1> QED  BY <1>1, <1>3, <1>4, <1>5, <1>6, DecodeStepSafe

\* The layers after it.
LEMMA NextLayerSafe ==
  ASSUME NEW k, Tame(k), NEW s \in Ids, k.pass[s] = "decode", NEW l \in Layers, NEW pos, pos = Rowed(k, s, 0) - 1,
         Rowed(k, s, l) < Rowed(k, s, 0), NEW g, g = Taken(decode_layer(k, s, l, pos), s, "decode", 0)
  PROVE  AllSafe(g) /\ DOMAIN g.base = Ids
<1>1. Inv(k) /\ AllSafe(k) /\ DOMAIN k.base = Ids /\ k.fail = "none" /\ Safe(k, s)
  BY TameParts
<1>2. s \in Held(k)
  BY <1>1, InvParts
<1>3. 0 \in Layers /\ \A m \in Layers : Rowed(k, s, m) \in Nat
  BY <1>1, SafeTyped
<1>4. pos \in Nat /\ \A m \in Layers : pos <= Rowed(k, s, m)
  BY <1>1, <1>3 DEF Safe, Paced
<1>5. \A m \in Layers : Rowed(k, s, m) <= Rowed(k, s, 0)
  <2>1. TrailsBy(k.txt, s, 1)
    BY <1>1, InvParts DEF Unit
  <2>2. ASSUME NEW m \in Layers PROVE Rowed(k, s, m) <= Rowed(k, s, 0)
    <3>1. PICK n \in Nat : Rowed(k, s, 0) = Rowed(k, s, m) + n * 1
      BY <2>1 DEF TrailsBy, Rowed
    <3> QED  BY <1>3, <3>1
  <2> QED  BY <2>2
<1>6. Rowed(k, s, l) = pos /\ \A m \in Layers : Rowed(k, s, m) \in {pos, pos + 1}
  BY <1>3, <1>4, <1>5
<1>7. MayCut(k.txt, s, l, pos)
  BY <1>4, <1>6 DEF MayCut, Rowed
<1>8. \A m \in Layers : Limit(k, s, m) = pos
  BY DEF Limit
<1>9. Clear(k, s, pos)
  BY <1>8, ClearAt
<1>10. ASSUME NEW u, Wrote(k.txt, u, s, l, pos, 1)
       PROVE  Len(u[<<s, 0>>]) = pos + 1 /\ \A m \in Layers : Len(u[<<s, m>>]) \in {pos, pos + 1}
  <2>1. \A m \in Layers : Left(k.txt, s, l, pos, m) = Rowed(k, s, m)
    BY <1>4, <1>6 DEF Left, Rowed
  <2>2. \A m \in Layers : Len(u[<<s, m>>]) = Rowed(k, s, m) + (IF m = l THEN 1 ELSE 0)
    BY <1>10, <2>1 DEF Wrote
  <2>3. l # 0 /\ Rowed(k, s, 0) = pos + 1
    BY <1>3, <1>6
  <2>4. Len(u[<<s, 0>>]) = pos + 1
    BY <1>3, <1>4, <2>2, <2>3
  <2>5. ASSUME NEW m \in Layers PROVE Len(u[<<s, m>>]) \in {pos, pos + 1}
    BY <1>4, <1>6, <2>2
  <2> QED  BY <2>4, <2>5
<1> QED  BY <1>1, <1>2, <1>4, <1>7, <1>9, <1>10, DecodeStepSafe

LEMMA DecodeSafe ==
  ASSUME ~AnyRewind, Tame(kv), NEW s \in Ids, decode(s)
  PROVE  Tame(kv')
<1>1. PICK g : g = kv'
  OBVIOUS
<1>2. Inv(kv) /\ kv.fail = "none" /\ Safe(kv, s)
  BY TameParts
<1>3. Inv(g)
  BY <1>1, <1>2, DecodeKeeps
<1>4. 0 \in Layers /\ Rowed(kv, s, 0) \in Nat
  BY <1>2, SafeTyped
<1>5. CASE /\ Idle(kv, s)
           /\ \E pos \in {Rowed(kv, s, 0)} \cup Rewinds(s) :
                pos < MaxPages * PageSize /\ kv' = Taken(decode_layer(kv, s, 0, pos), s, "decode", 0)
  <2>1. PICK pos \in {Rowed(kv, s, 0)} \cup Rewinds(s) : kv' = Taken(decode_layer(kv, s, 0, pos), s, "decode", 0)
    BY <1>5
  <2>2. pos \in Nat /\ pos <= Rowed(kv, s, 0) /\ (pos = Rowed(kv, s, 0) \/ NotPending(kv, s))
    <3>1. CASE pos = Rowed(kv, s, 0)
      BY <1>4, <3>1
    <3>2. CASE pos \in Rewinds(s)
      <4>1. pos \in RewindTo /\ pos \in kv.floor[s]..(Rowed(kv, s, 0) - 1) /\ kv.pend.seq # s
        BY <3>2 DEF Rewinds
      <4>2. pos \in Nat /\ pos <= Rowed(kv, s, 0) - 1
        BY <4>1, KvAssumption
      <4> QED  BY <1>4, <4>1, <4>2 DEF NotPending
    <3> QED  BY <2>1, <3>1, <3>2
  <2>3. AllSafe(g) /\ DOMAIN g.base = Ids
    BY <1>1, <1>5, <2>1, <2>2, FirstLayerSafe
  <2> QED  BY <1>1, <1>3, <2>3 DEF Tame
<1>6. CASE /\ kv.pass[s] = "decode"
           /\ kv' = Taken(decode_layer(kv, s, Lagging(kv, s), Rowed(kv, s, 0) - 1), s, "decode", 0)
  <2>1. PICK l : l = Lagging(kv, s)
    OBVIOUS
  <2>2. Texts(kv.txt, kv.rewinds) /\ Worded(kv) /\ TrailsBy(kv.txt, s, 1) /\ Uneven(kv.txt, s) /\ 1 \in Nat
    BY <1>2, <1>6, InvParts DEF Unit
  <2>3. \E m \in Layers : Len(kv.txt[<<s, m>>]) < Len(kv.txt[<<s, 0>>])
    BY <2>2, Behindhand
  <2>4. l \in Layers /\ Rowed(kv, s, l) < Rowed(kv, s, 0)
    BY <2>1, <2>2, <2>3, LaggingIs DEF Rowed
  <2>5. PICK pos : pos = Rowed(kv, s, 0) - 1
    OBVIOUS
  <2>6. g = Taken(decode_layer(kv, s, l, pos), s, "decode", 0)
    BY <1>1, <1>6, <2>1, <2>5
  <2>7. AllSafe(g) /\ DOMAIN g.base = Ids
    BY <1>6, <2>4, <2>5, <2>6, NextLayerSafe
  <2> QED  BY <1>1, <1>3, <2>7 DEF Tame
<1> QED  BY <1>5, <1>6 DEF decode

-------------------------------------------------------------------------------
(* Chunks of a prefill.                                                    *)

\* What is demoted of the layer is behind pos.
Ahead(k, s, l, pos) ==
  \A x \in Of(s) : x[2] = l /\ (Going(k, x) \/ x \in Stale(k)) => PageEnd(x) <= pos
Chunked(k, r, s, l, pos) ==
  /\ ~r.ok => Grows(k, r.k)
  /\ r.ok => /\ Went(k, r.k, s) /\ Wrote(k.txt, r.k.txt, s, l, pos, Chunk)
             /\ Ebbs(k, r.k, Stale(k) \cup Past(s, l, pos + Chunk - 1))
             /\ pos + Chunk <= r.k.num[s] * PageSize
             /\ r.k.seen[s] = k.seen[s] \/ r.k.seen[s] = MaxOf(k.seen[s], pos + Chunk)

LEMMA AheadGrows ==
  ASSUME NEW k, NEW s \in Ids, NEW l, NEW pos, Ahead(k, s, l, pos), NEW b, Grows(k, b)
  PROVE  Under(b, s, l, pos, Chunk)
<1>1. Of(s) \subseteq Cells
  BY CellParts
<1>2. Chunk # 1
  BY KvAssumption
<1> QED  BY <1>1, <1>2 DEF Ahead, Under, Grows, Ebbs

\* The rows of a dense chunk.
LEMMA DenseWent ==
  ASSUME NEW k, NEW a, Good(a, {}), Worded(a), Grows(k, a), NEW s \in Ids, NEW l \in Layers, NEW pos \in Nat,
         MayCut(a.txt, s, l, pos), NEW g, Good(g, {}), g = append_rows(a, s, l, pos, Chunk)
  PROVE  /\ Went(k, g, s) /\ Wrote(k.txt, g.txt, s, l, pos, Chunk) /\ Ebbs(k, g, Stale(k))
         /\ g.num = a.num /\ g.seen = k.seen
<1>1. IsKv(a) /\ Chunk \in Nat
  BY KvAssumption DEF Good, Base
<1>2. IsKv(g) /\ Same(a, g, {"vram", "txt", "rewinds"}) /\ Rolls(a, g, s) /\ Wrote(a.txt, g.txt, s, l, pos, Chunk)
  BY <1>1, RowsKeep DEF Worded
<1>3. g.st = a.st /\ g.pend = a.pend /\ g.num = a.num /\ g.seen = a.seen
  BY <1>2 DEF Same, Fields
<1>4. a.txt = k.txt /\ a.seen = k.seen
  BY DEF Grows, Same, Fields, TierFields
<1>5. Same(k, g, Layer)
  BY <1>2 DEF Grows, Same, Layer, TierFields
<1>6. Ebbs(k, g, Stale(k)) /\ Ebbs(k, g, Stale(k) \cup Of(s))
  BY <1>3 DEF Grows, Ebbs, Going
<1> QED  BY <1>2, <1>3, <1>4, <1>5, <1>6 DEF Went, Rolls, Grows

LEMMA ChunkRuns ==
  ASSUME NEW k, Inv(k), k.fail = "none", NEW s \in Held(k), NEW l \in Layers, NEW pos \in Nat,
         MayCut(k.txt, s, l, pos), NEW pass, Ahead(k, s, l, pos), NEW r, r = chunk_layer(k, s, l, pos, pass)
  PROVE  Good(r.k, {}) /\ Chunked(k, r, s, l, pos)
<1>0. Good(k, {}) /\ Worded(k) /\ s \in Ids /\ Chunk \in Nat \ {0} /\ Chunk # 1
  BY KvAssumption DEF Inv, Held
<1>1. PICK p \in Nat : p = pos + Chunk - 1
  BY <1>0
<1>2. PICK b : b = ensure_pages(k, s, p)
  OBVIOUS
<1>3. Good(b.k, {}) /\ Grows(k, b.k) /\ (b.ok => p \div PageSize + 1 <= b.k.num[s])
  BY <1>0, <1>2, EnsureGrows
<1>4. CASE ~b.ok
  <2>1. r = b
    BY <1>1, <1>2, <1>4, Zenon DEF chunk_layer, chunk_rows
  <2> QED  BY <1>3, <1>4, <2>1 DEF Chunked
<1>5. CASE b.ok
  <2>1. b.k.txt = k.txt /\ b.k.rewinds = k.rewinds /\ b.k.life = k.life /\ b.k.fail = k.fail /\ b.k.seen = k.seen
    BY <1>3 DEF Grows, Same, Fields, TierFields
  <2>2. Worded(b.k) /\ s \in Held(b.k) /\ MayCut(b.k.txt, s, l, pos) /\ b.k.fail = "none"
    BY <1>0, <2>1, HeldStays DEF Worded
  <2>3. b.k.num[s] \in Nat
    BY <1>0, <1>3, KvAssumption DEF Good, Base, NumberedOk
  <2>4. p + 1 <= b.k.num[s] * PageSize
    BY <1>3, <1>5, <2>3, RoomFor
  <2>5. pos + Chunk <= b.k.num[s] * PageSize
    BY <1>0, <1>1, <2>4
  <2>6. CASE pass = "chunk"
    <3>1. PICK g : g = tier_step(b.k, s, l, pos, Chunk)
      OBVIOUS
    <3>2. r = Done(g)
      BY <1>1, <1>2, <1>5, <2>6, <3>1, Zenon DEF chunk_layer, chunk_rows
    <3>3. r.k = g /\ r.ok
      BY <3>2 DEF Done
    <3>4. Under(b.k, s, l, pos, Chunk)
      BY <1>0, <1>3, AheadGrows
    <3>5. Good(g, {}) /\ Runs(b.k, g, s, l, pos, Chunk)
      BY <1>0, <1>3, <2>2, <3>1, <3>4, TierStepRuns
    <3>6. Went(k, g, s) /\ Wrote(k.txt, g.txt, s, l, pos, Chunk)
      BY <1>0, <1>3, <3>5, RunsWent
    <3>7. Ebbs(k, g, Stale(k) \cup Past(s, l, pos + Chunk - 1))
      BY <1>3, <3>5 DEF Grows, Runs, Ebbs
    <3>8. g.num = b.k.num
      BY <3>5 DEF Runs, Same, Fields, TierFields
    <3>9. g.seen[s] = MaxOf(k.seen[s], pos + Chunk)
      BY <1>0, <2>1, <3>5 DEF Runs, SeenAfter
    <3> QED  BY <2>5, <3>3, <3>5, <3>6, <3>7, <3>8, <3>9 DEF Chunked
  <2>7. CASE pass # "chunk"
    <3>1. r = dense_step(b.k, s, l, pos, Chunk)
      BY <1>1, <1>2, <1>5, <2>7, Zenon DEF chunk_layer, chunk_rows
    <3>2. /\ Good(r.k, {})
          /\ ~r.ok => Calm(b.k, r.k)
          /\ r.ok => \E a : /\ Good(a, {}) /\ Calm(b.k, a) /\ Worded(a)
                            /\ r.k = append_rows(a, s, l, pos, Chunk)
      BY <1>0, <1>3, <2>2, <3>1, DenseRuns
    <3>3. CASE ~r.ok
      <4>1. Grows(b.k, r.k)
        BY <1>3, <3>2, <3>3, CalmGrows
      <4>2. Grows(k, r.k)
        BY <1>0, <1>3, <3>2, <4>1, GrowsTrans
      <4> QED  BY <3>2, <3>3, <4>2 DEF Chunked
    <3>4. CASE r.ok
      <4>1. PICK a : Good(a, {}) /\ Calm(b.k, a) /\ Worded(a) /\ r.k = append_rows(a, s, l, pos, Chunk)
        BY <3>2, <3>4
      <4>2. Grows(b.k, a) /\ a.num = b.k.num /\ a.txt = b.k.txt
        BY <1>3, <4>1, CalmGrows, StaysWhat DEF Calm
      <4>3. Grows(k, a)
        BY <1>0, <1>3, <4>1, <4>2, GrowsTrans
      <4>4. MayCut(a.txt, s, l, pos)
        BY <2>2, <4>2
      <4>5. PICK g : g = r.k
        OBVIOUS
      <4>6. Good(g, {}) /\ g = append_rows(a, s, l, pos, Chunk)
        BY <3>2, <4>1, <4>5
      <4>7. /\ Went(k, g, s) /\ Wrote(k.txt, g.txt, s, l, pos, Chunk) /\ Ebbs(k, g, Stale(k))
            /\ g.num = a.num /\ g.seen = k.seen
        BY <1>0, <4>1, <4>3, <4>4, <4>6, DenseWent
      <4>8. Ebbs(k, g, Stale(k) \cup Past(s, l, pos + Chunk - 1))
        BY <4>7 DEF Ebbs
      <4> QED  BY <2>5, <3>4, <4>2, <4>5, <4>6, <4>7, <4>8 DEF Chunked
    <3> QED  BY <3>3, <3>4
  <2> QED  BY <2>6, <2>7
<1> QED  BY <1>4, <1>5

\* What is demoted of s is behind the rows of its layer; the rows of the first
\* layer are at most a window ahead of row w, which every layer has reached.
Filling(g, s, w) ==
  /\ \A x \in Of(s) : Going(g, x) => PageEnd(x) <= Rowed(g, s, x[2])
  /\ g.seen[s] <= Rowed(g, s, 0) /\ Rowed(g, s, 0) <= g.num[s] * PageSize
  /\ w \in Int /\ Rowed(g, s, 0) - w <= Retention /\ \A m \in Layers : w <= Rowed(g, s, m)

LEMMA FillingSafe ==
  ASSUME NEW g, IsKv(g), DOMAIN g.pass = Ids, DOMAIN g.base = Ids, NEW s \in Ids, NEW w, Filling(g, s, w),
         NEW v, NEW u, (v \in Prefills /\ u = w) \/ (v = "none" /\ u = 0), NEW e, e = Passed(g, s, v, u)
  PROVE  Safe(e, s)
<1>1. Same(g, e, {"pass", "base"}) /\ e.pass[s] = v /\ e.base[s] = u
  BY PassedWhat
<1>2. e.txt = g.txt /\ e.num = g.num /\ e.seen = g.seen /\ e.st = g.st /\ e.pend = g.pend
  BY <1>1 DEF Same, Fields
<1>3. \A m \in Layers : Rowed(e, s, m) = Rowed(g, s, m)
  BY <1>2 DEF Rowed
<1>4. 0 \in Layers
  BY KvAssumption DEF Layers
<1>5. Paced(e, s)
  <2>1. e.seen[s] <= Rowed(e, s, 0) /\ Rowed(e, s, 0) <= e.num[s] * PageSize
    BY <1>2, <1>3, <1>4 DEF Filling
  <2>2. e.pass[s] \in {"none", "decode"} \cup Prefills /\ e.pass[s] # "decode"
    BY <1>1 DEF Prefills
  <2>3. e.pass[s] \in Prefills => e.base[s] = w
    BY <1>1 DEF Prefills
  <2>4. Rowed(e, s, 0) - w <= Retention /\ \A m \in Layers : w <= Rowed(e, s, m)
    BY <1>3, <1>4 DEF Filling
  <2> QED  BY <2>1, <2>2, <2>3, <2>4 DEF Paced
<1>6. Backward(e, s)
  <2> SUFFICES ASSUME NEW x \in Of(s), Going(e, x) PROVE PageEnd(x) <= Limit(e, s, x[2])
    BY DEF Backward
  <2>1. x[2] \in Layers
    BY CellParts
  <2>2. Going(g, x)
    BY <1>2 DEF Going
  <2>3. e.pass[s] # "decode"
    BY <1>1 DEF Prefills
  <2>4. Limit(e, s, x[2]) = Rowed(g, s, x[2])
    BY <1>3, <2>1, <2>3 DEF Limit
  <2> QED  BY <2>2, <2>4 DEF Filling
<1>7. e.base[s] \in Int
  BY <1>1 DEF Filling
<1> QED  BY <1>5, <1>6, <1>7 DEF Safe

LEMMA ChunkStepSafe ==
  ASSUME NEW k, Tame(k), NEW s \in Held(k), NEW l \in Layers, NEW pos, pos = Rowed(k, s, l),
         k.pass[s] # "decode", NEW pass \in Prefills, NEW w \in Int, NEW R0,
         R0 = Rowed(k, s, 0) + (IF l = 0 THEN Chunk ELSE 0), pos + Chunk <= R0,
         R0 - w <= Retention, \A m \in Layers : w <= Rowed(k, s, m),
         NEW g, g = Taken(chunk_layer(k, s, l, pos, pass), s, pass, w)
  PROVE  AllSafe(g) /\ DOMAIN g.base = Ids
<1>1. s \in Ids
  BY DEF Held
<1>2. Inv(k) /\ AllSafe(k) /\ DOMAIN k.base = Ids /\ k.fail = "none" /\ Safe(k, s)
  BY <1>1, TameParts
<1>3. /\ k.seen[s] \in Nat /\ k.num[s] \in Nat /\ k.num[s] * PageSize \in Nat /\ Chunk \in Nat
      /\ 0 \in Layers /\ \A m \in Layers : Rowed(k, s, m) \in Nat
  BY <1>1, <1>2, SafeTyped
<1>4. pos \in Nat /\ MayCut(k.txt, s, l, pos)
  BY <1>3 DEF MayCut, Rowed
<1>5. ASSUME NEW x \in Of(s), Going(k, x) \/ x \in Stale(k) PROVE PageEnd(x) <= Rowed(k, s, x[2])
  <2>1. PageEnd(x) <= Limit(k, s, x[2])
    BY <1>1, <1>2, <1>5, StaleBehind DEF Safe, Backward
  <2> QED  BY <2>1 DEF Limit
<1>6. Ahead(k, s, l, pos)
  BY <1>5 DEF Ahead
<1>7. PICK r : r = chunk_layer(k, s, l, pos, pass)
  OBVIOUS
<1>8. Good(r.k, {}) /\ Chunked(k, r, s, l, pos)
  BY <1>2, <1>4, <1>6, <1>7, ChunkRuns
<1>9. g = Taken(r, s, pass, w)
  BY <1>7
<1>10. CASE ~r.ok
  BY <1>2, <1>8, <1>9, <1>10, RefusedSafe DEF Chunked
<1>11. CASE r.ok
  <2>1. /\ Went(k, r.k, s) /\ Wrote(k.txt, r.k.txt, s, l, pos, Chunk)
        /\ Ebbs(k, r.k, Stale(k) \cup Past(s, l, pos + Chunk - 1))
        /\ pos + Chunk <= r.k.num[s] * PageSize
        /\ r.k.seen[s] = k.seen[s] \/ r.k.seen[s] = MaxOf(k.seen[s], pos + Chunk)
    BY <1>8, <1>11 DEF Chunked
  <2>2. \A m \in Layers : Rowed(r.k, s, m) = Rowed(k, s, m) + (IF m = l THEN Chunk ELSE 0)
    <3>1. \A m \in Layers : Left(k.txt, s, l, pos, m) = Rowed(k, s, m)
      BY <1>3 DEF Left, Rowed
    <3> QED  BY <2>1, <3>1 DEF Wrote, Rowed
  <2>3. Rowed(r.k, s, 0) = R0 /\ R0 \in Nat
    BY <1>3, <2>2
  <2>4. \A m \in Layers : Rowed(r.k, s, m) \in Nat /\ Rowed(k, s, m) <= Rowed(r.k, s, m)
    BY <1>3, <2>2
  <2>5. ASSUME NEW x \in Of(s), Going(r.k, x) PROVE PageEnd(x) <= Rowed(r.k, s, x[2])
    <3>1. x \in Cells /\ x[2] \in Layers
      BY <1>1, CellParts
    <3>2. PICK e \in Nat : e = PageEnd(x)
      BY <3>1, PageEnds
    <3>3. Going(k, x) \/ x \in Stale(k) \/ x \in Past(s, l, pos + Chunk - 1)
      BY <2>1, <2>5, <3>1 DEF Ebbs
    <3>4. CASE Going(k, x) \/ x \in Stale(k)
      <4>1. e <= Rowed(k, s, x[2])
        BY <1>5, <3>2, <3>4
      <4> QED  BY <1>3, <2>4, <3>1, <3>2, <4>1
    <3>5. CASE x \in Past(s, l, pos + Chunk - 1)
      <4>1. x[2] = l /\ e <= pos + Chunk - 1
        BY <3>2, <3>5 DEF Past
      <4>2. Rowed(r.k, s, l) = pos + Chunk
        BY <2>2
      <4> QED  BY <1>3, <1>4, <3>2, <4>1, <4>2
    <3> QED  BY <3>3, <3>4, <3>5
  <2>6. r.k.seen[s] <= R0
    <3>1. k.seen[s] <= Rowed(k, s, 0)
      BY <1>2 DEF Safe, Paced
    <3>2. Rowed(k, s, 0) <= R0
      BY <1>3
    <3> QED  BY <1>3, <1>4, <2>1, <2>3, <3>1, <3>2 DEF MaxOf
  <2>7. R0 <= r.k.num[s] * PageSize
    <3>1. CASE l = 0
      <4>1. R0 = pos + Chunk
        BY <3>1
      <4> QED  BY <2>1, <4>1
    <3>2. CASE l # 0
      <4>1. R0 = Rowed(k, s, 0)
        BY <1>3, <3>2
      <4>2. Rowed(k, s, 0) <= k.num[s] * PageSize
        BY <1>2 DEF Safe, Paced
      <4>3. k.num[s] <= r.k.num[s] /\ r.k.num[s] \in Nat /\ PageSize \in Nat
        BY <1>1, <1>8, <2>1, KvAssumption DEF Went, Good, Base, NumberedOk
      <4>4. k.num[s] * PageSize <= r.k.num[s] * PageSize /\ r.k.num[s] * PageSize \in Int
        <5>1. PICK a \in Int : a = k.num[s]
          BY <1>3
        <5>2. PICK b \in Int : b = r.k.num[s]
          BY <4>3
        <5>3. a <= b /\ PageSize \in Nat
          BY <4>3, <5>1, <5>2
        <5>4. a * PageSize <= b * PageSize /\ b * PageSize \in Int
          BY <5>3, MulMono
        <5> QED  BY <5>1, <5>2, <5>4
      <4> QED  BY <1>3, <4>1, <4>2, <4>4
    <3> QED  BY <3>1, <3>2
  <2>8. \A m \in Layers : w <= Rowed(r.k, s, m)
    BY <1>3, <2>4
  <2>9. Filling(r.k, s, w)
    BY <2>3, <2>5, <2>6, <2>7, <2>8 DEF Filling
  <2>10. IsKv(r.k) /\ DOMAIN r.k.pass = Ids /\ DOMAIN r.k.base = Ids
    <3>1. r.k.pass = k.pass /\ r.k.base = k.base
      BY <2>1 DEF Went, Same, Fields, Layer, TierFields
    <3> QED  BY <1>2, <1>8, <3>1 DEF Good, Base, Inv, PassOk
  <2>11. Safe(Passed(r.k, s, pass, w), s)
    BY <1>1, <2>9, <2>10, FillingSafe
  <2>12. Safe(Passed(r.k, s, "none", 0), s)
    BY <1>1, <2>9, <2>10, FillingSafe
  <2> QED  BY <1>1, <1>2, <1>9, <1>11, <2>1, <2>11, <2>12, TakenSafe
<1> QED  BY <1>10, <1>11

LEMMA PrefillSafe ==
  ASSUME Chunk <= Retention, Superchunk <= Retention, Tame(kv), NEW s \in Ids, NEW pass \in Prefills, prefill(s, pass)
  PROVE  Tame(kv')
<1>1. PICK g : g = kv'
  OBVIOUS
<1>2. Inv(kv) /\ AllSafe(kv) /\ kv.fail = "none" /\ Safe(kv, s)
  BY TameParts
<1>3. Inv(g) /\ pass # "none" /\ pass # "decode"
  BY <1>1, <1>2, PrefillKeeps DEF Prefills
<1>4. 0 \in Layers /\ Chunk \in Nat /\ Retention \in Nat /\ Superchunk \in Nat /\ \A m \in Layers : Rowed(kv, s, m) \in Nat
  BY <1>2, SafeTyped, KvAssumption
<1>5. PICK l \in Layers :
        /\ \/ l = 0 /\ NextChunk(s, pass)
           \/ l > 0 /\ kv.pass[s] = pass /\ l = Lagging(kv, s)
        /\ LET pos  == Rowed(kv, s, l)
               base == IF Idle(kv, s) THEN pos ELSE kv.base[s]
           IN kv' = Taken(chunk_layer(kv, s, l, pos, pass), s, pass, base)
  BY Zenon DEF prefill
<1>6. PICK pos : pos = Rowed(kv, s, l)
  OBVIOUS
<1>7. PICK w : w = IF Idle(kv, s) THEN pos ELSE kv.base[s]
  OBVIOUS
<1>8. g = Taken(chunk_layer(kv, s, l, pos, pass), s, pass, w)
  BY <1>1, <1>5, <1>6, <1>7, Zenon
<1>9. kv.base[s] \in Int /\ pos \in Nat
  BY <1>2, <1>4, <1>6 DEF Safe
<1>10. w \in Int
  BY <1>7, <1>9
<1>11. kv.pass[s] \in Prefills => /\ Rowed(kv, s, 0) - kv.base[s] <= Retention
                                 /\ \A m \in Layers : kv.base[s] <= Rowed(kv, s, m)
  BY <1>2 DEF Safe, Paced
<1>12. PICK R0 : R0 = Rowed(kv, s, 0) + (IF l = 0 THEN Chunk ELSE 0)
  OBVIOUS
<1>13. /\ s \in Held(kv) /\ kv.pass[s] # "decode" /\ pos + Chunk <= R0
       /\ R0 - w <= Retention /\ \A m \in Layers : w <= Rowed(kv, s, m)
  <2>1. CASE l = 0 /\ NextChunk(s, pass) /\ Idle(kv, s)
    <3>1. kv.pass[s] = "none" /\ s \in Held(kv)
      BY <1>2, <2>1, InvParts DEF Idle
    <3>2. \A m \in Layers : Rowed(kv, s, m) = Rowed(kv, s, 0)
      BY <1>2, <3>1, IdleRows
    <3>3. pos = Rowed(kv, s, 0) /\ w = pos /\ R0 = pos + Chunk
      BY <1>6, <1>7, <1>12, <2>1
    <3> QED  BY <1>4, <1>9, <3>1, <3>2, <3>3
  <2>2. CASE l = 0 /\ NextChunk(s, pass) /\ ~Idle(kv, s)
    <3>1. kv.pass[s] = "chunk" /\ Rowed(kv, s, 0) + Chunk - kv.base[s] <= Superchunk
      BY <2>2 DEF NextChunk
    <3>2. s \in Held(kv) /\ kv.pass[s] \in Prefills
      BY <1>2, <3>1, InvParts DEF Prefills
    <3>3. pos = Rowed(kv, s, 0) /\ w = kv.base[s] /\ R0 = pos + Chunk
      BY <1>6, <1>7, <1>12, <2>2
    <3>4. R0 - w <= Retention
      BY <1>4, <1>9, <3>1, <3>3
    <3> QED  BY <1>4, <1>9, <1>11, <3>1, <3>2, <3>3, <3>4
  <2>3. CASE l > 0 /\ kv.pass[s] = pass /\ l = Lagging(kv, s)
    <3>1. ~Idle(kv, s) /\ l # 0 /\ kv.pass[s] # "decode" /\ kv.pass[s] \in Prefills
      BY <1>3, <2>3 DEF Idle
    <3>2. s \in Held(kv) /\ Worded(kv) /\ TrailsBy(kv.txt, s, Chunk)
      BY <1>2, <1>3, <2>3, InvParts DEF Unit
    <3>3. Rowed(kv, s, l) < Rowed(kv, s, 0)
      BY <2>3, <3>2, LaggingIs DEF Rowed
    <3>4. PICK n \in Nat : Rowed(kv, s, 0) = Rowed(kv, s, l) + n * Chunk
      BY <3>2 DEF TrailsBy, Rowed
    <3>5. PICK a \in Int : a = Rowed(kv, s, 0)
      BY <1>4
    <3>6. a = pos + n * Chunk /\ pos < a /\ pos \in Int
      BY <1>6, <1>9, <3>3, <3>4, <3>5
    <3>7. n - 1 \in Nat /\ a = (pos + Chunk) + (n - 1) * Chunk
      BY <1>4, <3>6, StepsLess
    <3>8. PICK j \in Nat : j = (n - 1) * Chunk
      BY <1>4, <3>7
    <3>9. a = (pos + Chunk) + j
      BY <3>7, <3>8
    <3>10. pos + Chunk <= a
      <4> HIDE <3>7, <3>8
      <4> QED  BY <1>4, <1>9, <3>9
    <3>11. R0 = a /\ w = kv.base[s]
      BY <1>7, <1>12, <3>1, <3>5
    <3> QED  BY <1>11, <3>1, <3>2, <3>5, <3>10, <3>11
  <2> QED  BY <1>5, <2>1, <2>2, <2>3
<1>14. AllSafe(g) /\ DOMAIN g.base = Ids
  BY <1>6, <1>8, <1>10, <1>12, <1>13, ChunkStepSafe
<1> QED  BY <1>1, <1>3, <1>14 DEF Tame

-------------------------------------------------------------------------------
(* The other commands.                                                     *)

\* A step of the manager that demotes nothing but what is behind the window.
LEMMA CalmTame ==
  ASSUME NEW k, Tame(k), NEW g, Good(g, {}), Calm(k, g)
  PROVE  Tame(g)
<1>1. Inv(k) /\ AllSafe(k) /\ k.fail = "none" /\ DOMAIN k.base = Ids
  BY DEF Tame, AllSafe
<1>2. /\ g.txt = k.txt /\ g.rewinds = k.rewinds /\ g.pass = k.pass /\ g.life = k.life /\ g.base = k.base
      /\ g.fail = k.fail
  BY DEF Calm, Stays, Same, TierFields, Fields
<1>3. Inv(g)
  BY <1>1, <1>2, ManagerInv
<1>4. AllSafe(g)
  BY <1>1, CalmSafe
<1> QED  BY <1>1, <1>2, <1>3, <1>4 DEF Tame

LEMMA SnapshotSafe ==
  ASSUME Tame(kv), NEW s \in Ids, seq_snapshot(s)
  PROVE  Tame(kv')
<1>1. PICK g : g = kv'
  OBVIOUS
<1>2. PICK d : d = drain_demotions(kv)
  OBVIOUS
<1>3. Good(kv, {})
  BY DEF Tame, Inv
<1>4. Good(d, {}) /\ Calm(kv, d)
  BY <1>2, <1>3, DrainCalm
<1>0. PICK blocks \in 0..SpillCap : g = unspill_seq(d, s, blocks).k
  BY <1>1, <1>2, Zenon DEF seq_snapshot
<1>5. PICK r : r = unspill_seq(d, s, blocks)
  OBVIOUS
<1>6. Good(r.k, {}) /\ Calm(d, r.k)
  BY <1>0, <1>4, <1>5, UnspillCalm, KvAssumption
<1>7. g = r.k
  BY <1>0, <1>5
<1>8. Calm(kv, g)
  BY <1>4, <1>6, <1>7, CalmTrans
<1>9. Tame(g)
  BY <1>6, <1>7, <1>8, CalmTame
<1> QED  BY <1>1, <1>9

LEMMA CopySafe ==
  ASSUME Tame(kv), d2h
  PROVE  Tame(kv')
<1>1. PICK g : g = kv'
  OBVIOUS
<1>2. Good(kv, {}) /\ Base(kv, {}) /\ kv.stream # <<>>
  BY DEF d2h, Tame, Inv, Good
<1>3. PICK items : items = Head(kv.stream)
  OBVIOUS
<1>4. PICK S : S = Tail(kv.stream)
  OBVIOUS
<1>5. Landing(kv.landed, kv.stream, items, S)
  BY <1>2, <1>3, <1>4, HeadLands
<1>6. IsKv(kv)
  BY <1>2 DEF Base
<1>7. land(kv, items).stream = kv.stream
  BY <1>6, Zenon DEF land, IsKv, Fields
<1>8. g = [land(kv, items) EXCEPT !.stream = Tail(@)]
  BY <1>1, <1>3 DEF d2h
<1>9. PICK l : l = land(kv, items)
  OBVIOUS
<1>10. g = [l EXCEPT !.stream = S]
  BY <1>4, <1>7, <1>8, <1>9, Zenon
<1>11. g = Landed(kv, items, S)
  BY <1>9, <1>10 DEF Landed
<1>12. Good(g, {}) /\ Stays(kv, g)
  BY <1>2, <1>5, <1>11, LandKeeps
<1>13. Calm(kv, g)
  BY <1>6, <1>11, <1>12, LandEbbs, CalmIf
<1>14. Tame(g)
  BY <1>12, <1>13, CalmTame
<1> QED  BY <1>1, <1>14

\* Other fields of the dispatcher change: the sequences that rest are safe.
LEMMA RestingSafe ==
  ASSUME NEW k, Tame(k), NEW g, g.num \in [Ids -> Nat], NEW s \in Ids, g.fail = "none",
         \A q \in Ids \ {s} : Rests(k, g, q), Ebbs(k, g, Stale(k) \cup Of(s)), Safe(g, s)
  PROVE  AllSafe(g)
<1>1. Inv(k) /\ k.fail = "none" /\ \A q \in Ids : Safe(k, q)
  BY DEF Tame, AllSafe
<1>2. ASSUME NEW q \in Ids, q # s PROVE Safe(g, q)
  <2>1. Of(s) \cap Of(q) = {}
    BY <1>2, CellParts
  <2>2. Rests(k, g, q) /\ Safe(k, q)
    BY <1>1, <1>2
  <2> QED  BY <1>1, <2>1, <2>2, SafeKept
<1> QED  BY <1>2 DEF AllSafe

LEMMA CreateSafe ==
  ASSUME Tame(kv), NEW s \in Ids, seq_create(s)
  PROVE  Tame(kv')
<1>1. PICK g : g = kv'
  OBVIOUS
<1>2. PICK n : n = MinOf((Chunk + PageSize - 1) \div PageSize + Growth, MaxPages)
  OBVIOUS
<1>3. PICK a : a = append_pages(kv, s, n)
  OBVIOUS
<1>4. g = Lively(a, s)
  BY <1>1, <1>2, <1>3, Zenon DEF seq_create, Lively
<1>5. Inv(kv) /\ kv.fail = "none" /\ Good(kv, {}) /\ IsKv(kv) /\ kv.num \in [Ids -> Nat] /\ DOMAIN kv.base = Ids
  BY DEF Tame, Inv, AllSafe, Good, Base, NumberedOk
<1>6. Inv(g)
  BY <1>1, <1>5, CreateKeeps
<1>7. n \in Nat
  <2>1. Chunk + PageSize - 1 \in Nat /\ PageSize \in Nat \ {0} /\ Growth \in Nat /\ MaxPages \in Nat
    BY KvAssumption
  <2>2. \A b \in Nat : b \div PageSize \in Nat
    BY <2>1
  <2> QED  BY <1>2, <2>1, <2>2 DEF MinOf
<1>8. IsKv(a) /\ Same(kv, a, {"ref", "pg", "num"}) /\ a.num = Put(kv.num, s, kv.num[s] + n)
  BY <1>3, <1>5, AppendFields
<1>9. IsKv(g) /\ Same(a, g, {"life"})
  BY <1>4, <1>8, Zenon DEF Lively, IsKv, Fields, Same
<1>10. /\ g.num = Put(kv.num, s, kv.num[s] + n) /\ g.txt = kv.txt /\ g.pass = kv.pass /\ g.base = kv.base
       /\ g.seen = kv.seen /\ g.st = kv.st /\ g.pend = kv.pend /\ g.fail = kv.fail
  BY <1>8, <1>9 DEF Same, Fields
<1>11. g.num \in [Ids -> Nat] /\ \A q \in Ids : kv.num[q] <= g.num[q]
  BY <1>5, <1>7, <1>10 DEF Put
<1>12. Ebbs(kv, g, Stale(kv) \cup {})
  BY <1>10, EbbsSame, EbbsMore
<1>13. ASSUME NEW q \in Ids PROVE Safe(g, q)
  <2>1. Rests(kv, g, q)
    BY <1>10, <1>11 DEF Rests
  <2>2. Safe(kv, q) /\ {} \cap Of(q) = {}
    BY DEF Tame, AllSafe
  <2> QED  BY <1>5, <1>11, <1>12, <2>1, <2>2, SafeKept
<1>14. Tame(g)
  BY <1>5, <1>6, <1>10, <1>13 DEF Tame, AllSafe
<1> QED  BY <1>1, <1>14

\* What a hibernated holder demotes is before its last row.
LEMMA SleepEbbs ==
  ASSUME NEW k, Good(k, {}), NEW s \in Ids, k.life[s] = "holder", NEW g, g = hibernate_seq(k, s)
  PROVE  \E e, f : f = MinOf(Rowed(k, s, 0) \div PageSize, k.num[s] - 1) /\ Ebbs(k, g, Reach(s, Layers, e, f))
<1>1. PICK h : h = Sleeps(k, s)
  OBVIOUS
<1>2. Good(h, {}) /\ Same(k, h, {"hibernated"})
  BY <1>1, SleepsKeeps
<1>3. PICK a : a = flush_pending(h, TRUE)
  OBVIOUS
<1>4. Good(a, {}) /\ Stays(h, a) /\ Ebbs(h, a, {})
  BY <1>2, <1>3, FlushKeeps, FlushEbbs
<1>5. PICK e : e = a.num[s] * PageSize
  OBVIOUS
<1>6. PICK f : f = MinOf(Rowed(a, s, 0) \div PageSize, a.num[s] - 1)
  OBVIOUS
<1>7. PICK b : b = collect_layer_range(a, s, Layers, e, f)
  OBVIOUS
<1>8. PICK R : R = Reach(s, Layers, e, f)
  OBVIOUS
<1>9. Good(b, {}) /\ Ebbs(a, b, R)
  BY <1>4, <1>7, <1>8, CollectRangeKeeps, CollectRangeEbbs
<1>10. PICK c : c = flush_pending(b, FALSE)
  OBVIOUS
<1>11. Good(c, {}) /\ Ebbs(b, c, {})
  BY <1>9, <1>10, FlushKeeps, FlushEbbs
<1>12. g = poll_demotions(c)
  BY <1>1, <1>3, <1>5, <1>6, <1>7, <1>10, Zenon DEF hibernate_seq, Sleeps
<1>13. Ebbs(c, g, {})
  BY <1>11, <1>12, PollEbbs
<1>14. h.st = k.st /\ h.pend = k.pend /\ a.txt = k.txt /\ a.num = k.num
  BY <1>2, <1>4 DEF Stays, Same, TierFields, Fields
<1>15. Ebbs(k, h, {})
  BY <1>14, EbbsSame
<1>16. Ebbs(k, g, R)
  BY <1>4, <1>9, <1>11, <1>13, <1>15 DEF Ebbs
<1>17. f = MinOf(Rowed(k, s, 0) \div PageSize, k.num[s] - 1)
  BY <1>6, <1>14 DEF Rowed
<1> QED  BY <1>8, <1>16, <1>17

LEMMA SleepSafe ==
  ASSUME NEW k, Tame(k), NEW s \in Ids, k.life[s] = "holder", NEW g, g = hibernate_seq(k, s)
  PROVE  Tame(g)
<1>1. Inv(k) /\ Good(k, {}) /\ k.fail = "none" /\ DOMAIN k.base = Ids /\ Safe(k, s)
  BY DEF Tame, Inv, AllSafe
<1>2. Good(g, {}) /\ Same(k, g, TierFields \cup {"hibernated"})
  BY <1>1, HibernateSeqKeeps
<1>3. /\ g.txt = k.txt /\ g.rewinds = k.rewinds /\ g.pass = k.pass /\ g.life = k.life /\ g.base = k.base
      /\ g.seen = k.seen /\ g.num = k.num /\ g.fail = k.fail
  BY <1>2 DEF Same, Fields, TierFields
<1>4. Inv(g)
  BY <1>1, <1>2, <1>3, ManagerInv
<1>5. k.pass[s] = "none"
  BY <1>1 DEF Inv, PassOk
<1>6. \A l \in Layers : Limit(k, s, l) = Rowed(k, s, 0)
  BY <1>1, <1>5, IdleRows DEF Limit
<1>7. PICK e, f : f = MinOf(Rowed(k, s, 0) \div PageSize, k.num[s] - 1) /\ Ebbs(k, g, Reach(s, Layers, e, f))
  BY <1>1, SleepEbbs
<1>8. PICK n : n = Rowed(k, s, 0)
  OBVIOUS
<1>9. n \in Nat /\ k.num[s] \in Nat /\ n \div PageSize \in Nat
  BY <1>1, <1>8, SafeTyped, DivIs
<1>10. f <= n \div PageSize /\ f \in Int
  BY <1>7, <1>8, <1>9 DEF MinOf
<1>11. ASSUME NEW x \in Reach(s, Layers, e, f) PROVE x \in Of(s) /\ PageEnd(x) <= n
  <2>1. x \in Cells /\ x[1] = s /\ x[3] < f /\ x[3] \in Nat
    BY CellParts DEF Reach
  <2>2. x[3] < n \div PageSize
    BY <1>9, <1>10, <2>1
  <2>3. (x[3] + 1) * PageSize <= n
    BY <1>9, <2>1, <2>2, DivIs
  <2> QED  BY <2>1, <2>3, CellParts DEF PageEnd
<1>12. Backward(g, s)
  <2>1. ASSUME NEW x \in Of(s), Going(g, x) PROVE PageEnd(x) <= Limit(g, s, x[2])
    <3>1. x \in Cells /\ x[2] \in Layers
      BY CellParts
    <3>2. Limit(g, s, x[2]) = Limit(k, s, x[2]) /\ Limit(k, s, x[2]) = n
      BY <1>3, <1>6, <1>8, <3>1 DEF Limit, Rowed
    <3>3. Going(k, x) \/ x \in Reach(s, Layers, e, f)
      BY <1>7, <2>1, <3>1 DEF Ebbs
    <3>4. CASE Going(k, x)
      BY <1>1, <3>2, <3>4 DEF Safe, Backward
    <3>5. CASE x \in Reach(s, Layers, e, f)
      BY <1>11, <3>2, <3>5
    <3> QED  BY <3>3, <3>4, <3>5
  <2> QED  BY <2>1 DEF Backward
<1>13. Safe(g, s)
  BY <1>1, <1>3, <1>12 DEF Safe, Paced, Rowed
<1>14. Ebbs(k, g, Stale(k) \cup Of(s))
  BY <1>7, <1>11 DEF Ebbs
<1>15. g.num \in [Ids -> Nat] /\ \A q \in Ids : k.num[q] <= g.num[q]
  BY <1>1, <1>3 DEF Good, Base, NumberedOk
<1>16. \A q \in Ids \ {s} : Rests(k, g, q)
  BY <1>3, <1>15 DEF Rests
<1>17. g.fail = "none"
  BY <1>1, <1>3
<1>18. AllSafe(g)
  BY <1>13, <1>14, <1>15, <1>16, <1>17, RestingSafe
<1> QED  BY <1>1, <1>3, <1>4, <1>18 DEF Tame

LEMMA HibernateSafe ==
  ASSUME Tame(kv), NEW s \in Ids, seq_hibernate(s)
  PROVE  Tame(kv')
<1>1. PICK g : g = kv'
  OBVIOUS
<1>2. PICK k : k = hibernate_seq(kv, s)
  OBVIOUS
<1>3. kv.life[s] = "holder"
  BY DEF seq_hibernate
<1>4. Tame(k)
  BY <1>2, <1>3, SleepSafe
<1>5. PICK d : d = drain_demotions(k)
  OBVIOUS
<1>6. Good(d, {}) /\ Calm(k, d)
  BY <1>4, <1>5, DrainCalm DEF Tame, Inv
<1>7. g = k \/ \E written \in BOOLEAN : g = spill_seq(d, s, written)
  BY <1>1, <1>2, <1>5, Zenon DEF seq_hibernate
<1>8. CASE g = k
  BY <1>1, <1>4, <1>8
<1>9. CASE \E written \in BOOLEAN : g = spill_seq(d, s, written)
  <2>1. PICK written \in BOOLEAN : g = spill_seq(d, s, written)
    BY <1>9
  <2>2. Good(g, {}) /\ Calm(d, g)
    BY <1>6, <2>1, SpillCalm
  <2>3. Calm(k, g)
    BY <1>6, <2>2, CalmTrans
  <2>4. Tame(g)
    BY <1>4, <2>2, <2>3, CalmTame
  <2> QED  BY <1>1, <2>4
<1> QED  BY <1>7, <1>8, <1>9

(* A sequence ends.                                                        *)

LEMMA RestsTrans ==
  ASSUME NEW a, NEW b, NEW q \in Ids, Rests(a, b, q), NEW c, Rests(b, c, q),
         a.num[q] \in Int, b.num[q] \in Int, c.num[q] \in Int
  PROVE  Rests(a, c, q)
BY DEF Rests

LEMMA AloneEbbs ==
  ASSUME NEW k, NEW g, NEW s \in Ids, Alone(k, g, s), AllHot(g, s)
  PROVE  Ebbs(k, g, {})
BY DEF Alone, AllHot, Ebbs, Going

\* A sequence that has nothing is safe.
LEMMA VoidSafe ==
  ASSUME NEW g, Good(g, {}), NEW s \in Ids, Void(g, s), g.pass[s] = "none", g.base[s] = 0,
         \A l \in Layers : g.txt[<<s, l>>] = <<>>
  PROVE  Safe(g, s)
<1>1. PendOk(g.pend, g.st, g.pg)
  BY DEF Good, Base
<1>2. ASSUME NEW x \in Of(s), Going(g, x) PROVE FALSE
  <2>1. g.pg[x] = Neutral /\ g.st[x].tier = "hot"
    BY DEF Void, Owned
  <2>2. PICK i \in g.pend.items : i.x = x
    BY <1>2, <2>1 DEF Going, Cargo
  <2>3. i.h \in Pages /\ g.pg[i.x] = i.h
    BY <1>1, <2>2 DEF PendOk, Todo
  <2> QED  BY <2>1, <2>2, <2>3, PagesPositive
<1>3. Backward(g, s)
  BY <1>2 DEF Backward
<1>4. 0 \in Layers /\ \A l \in Layers : Rowed(g, s, l) = 0
  BY KvAssumption DEF Layers, Rowed
<1>5. Paced(g, s)
  BY <1>4, KvAssumption DEF Paced, Void, Prefills
<1> QED  BY <1>3, <1>5 DEF Safe

\* What the end of s leaves.
Leaves(k, g, s) ==
  /\ Good(g, {}) /\ g.fail = k.fail /\ Safe(g, s) /\ DOMAIN g.base = Ids /\ Ebbs(k, g, {})
  /\ \A q \in Ids \ {s} : Rests(k, g, q)
LEMMA EndedLeaves ==
  ASSUME NEW k, NEW s \in Ids, NEW D \in SUBSET {s}, Good(k, D), Worded(k), DOMAIN k.pass = Ids, DOMAIN k.base = Ids,
         NEW life, NEW g, g = Ended(k, s, life)
  PROVE  Leaves(k, g, s)
<1>1. PICK a : a = discard_pending(k, s)
  OBVIOUS
<1>2. Good(a, D) /\ Stays(k, a) /\ NotPending(a, s) /\ IsKv(k)
  BY <1>1, DiscardKeeps DEF Good, Base
<1>3. PICK b : b = settled(a, s)
  OBVIOUS
<1>4. Good(b, D) /\ Stays(a, b) /\ Steady(b, s) /\ NotPending(b, s)
  BY <1>2, <1>3, SettledKeeps DEF NotPending
<1>5. PICK c : c = release_seq(b, s)
  OBVIOUS
<1>6. Good(c, D) /\ Same(b, c, Releases) /\ Bare(c, s) /\ Alone(b, c, s)
  BY <1>4, <1>5, ReleaseKeeps
<1>7. PICK d : d = free_handles(c, s)
  OBVIOUS
<1>8. Good(d, D) /\ Same(c, d, Releases) /\ Void(d, s) /\ Alone(c, d, s)
  BY <1>6, <1>7, FreeKeeps
<1>9. g = Erased(d, s, life)
  BY <1>1, <1>3, <1>5, <1>7, Zenon DEF Ended, on_seq_free
<1>10. Good(g, {})
  BY <1>8, <1>9, ErasedKeeps
<1>11. IsKv(d)
  BY <1>8 DEF Good, Base
<1>12. /\ Same(d, g, {"life", "pass", "base", "floor", "rewinds", "txt"})
       /\ g.pass = Put(d.pass, s, "none") /\ g.txt = Emptied(d.txt, s) /\ g.base = Put(d.base, s, 0)
  BY <1>9, <1>11, ErasedFields
<1>13. /\ d.pass = k.pass /\ d.txt = k.txt /\ d.base = k.base /\ d.fail = k.fail
       /\ b.seen = k.seen /\ b.num = k.num
  BY <1>2, <1>4, <1>6, <1>8 DEF Same, Stays, Fields, TierFields, Releases
<1>14. g.fail = d.fail /\ g.st = d.st /\ g.pg = d.pg /\ g.pend = d.pend /\ g.seen = d.seen /\ g.num = d.num
       /\ g.hibernated = d.hibernated
  BY <1>12 DEF Same, Fields
<1>15. Ebbs(k, g, {})
  <2>1. Ebbs(k, a, {})
    BY <1>1, <1>2, DiscardEbbs
  <2>2. Ebbs(a, b, {})
    BY <1>2, <1>3, SettledEbbs
  <2>3. Ebbs(b, c, {})
    BY <1>6, AloneEbbs DEF Bare
  <2>4. c.st = d.st \/ AllHot(d, s)
    <3>1. \A x \in Of(s) : d.st[x].tier = "hot" /\ x \in Cells
      BY <1>8, CellParts DEF Void, Owned
    <3>2. EntriesOk(d.st, d.pg)
      BY <1>8 DEF Good, Base
    <3> QED  BY <3>1, <3>2 DEF AllHot, EntriesOk, Slotted
  <2>5. Ebbs(c, d, {})
    <3>1. CASE AllHot(d, s)
      BY <1>8, <3>1, AloneEbbs
    <3>2. CASE c.st = d.st
      BY <1>8, <3>2, EbbsSame DEF Alone
    <3> QED  BY <2>4, <3>1, <3>2
  <2>6. Ebbs(d, g, {})
    BY <1>14, EbbsSame
  <2> QED  BY <2>1, <2>2, <2>3, <2>5, <2>6 DEF Ebbs
<1>16. /\ \A l \in Layers : g.txt[<<s, l>>] = <<>>
       /\ \A q \in Ids \ {s}, l \in Layers : g.txt[<<q, l>>] = k.txt[<<q, l>>]
  BY <1>12, <1>13 DEF Emptied, Worded, Texts
<1>17. /\ DOMAIN g.base = Ids /\ g.base[s] = 0 /\ g.pass[s] = "none"
       /\ \A q \in Ids \ {s} : g.base[q] = k.base[q] /\ g.pass[q] = k.pass[q]
  BY <1>12, <1>13 DEF Put
<1>18. Safe(g, s)
  <2>1. Void(g, s)
    BY <1>8, <1>14 DEF Void
  <2> QED  BY <1>10, <1>16, <1>17, <2>1, VoidSafe
<1>19. \A q \in Ids \ {s} : g.seen[q] = k.seen[q] /\ g.num[q] = k.num[q]
  BY <1>6, <1>8, <1>13, <1>14 DEF Alone
<1>20. k.num \in [Ids -> 0..MaxPages] /\ MaxPages \in Nat
  BY KvAssumption DEF Good, Base, NumberedOk
<1>21. \A q \in Ids \ {s} : Rests(k, g, q)
  BY <1>16, <1>17, <1>19, <1>20 DEF Rests
<1>22. g.fail = k.fail
  BY <1>13, <1>14
<1> QED  BY <1>10, <1>15, <1>17, <1>18, <1>21, <1>22 DEF Leaves

LEMMA FreeSafe ==
  ASSUME Tame(kv), NEW s \in Ids, seq_free(s)
  PROVE  Tame(kv')
<1>1. PICK g : g = kv'
  OBVIOUS
<1>2. PICK k : k = kv
  OBVIOUS
<1>3. g = Ended(k, s, "freed")
  BY <1>1, <1>2 DEF seq_free
<1>4. Tame(k) /\ Inv(k) /\ Good(k, {}) /\ Worded(k) /\ DOMAIN k.pass = Ids /\ DOMAIN k.base = Ids /\ k.fail = "none"
  BY <1>2 DEF Tame, Inv, AllSafe, PassOk
<1>5. Inv(g)
  BY <1>1, <1>2, <1>4, FreedKeeps
<1>6. {} \in SUBSET {s}
  OBVIOUS
<1>7. Leaves(k, g, s)
  BY <1>3, <1>4, <1>6, EndedLeaves
<1>8. g.num \in [Ids -> Nat]
  BY <1>5, KvAssumption DEF Inv, Good, Base, NumberedOk
<1>9. Ebbs(k, g, Stale(k) \cup Of(s))
  BY <1>7 DEF Leaves, Ebbs
<1>10. Safe(g, s) /\ g.fail = "none" /\ (\A q \in Ids \ {s} : Rests(k, g, q)) /\ DOMAIN g.base = Ids
  BY <1>4, <1>7 DEF Leaves
<1>11. AllSafe(g)
  BY <1>4, <1>8, <1>9, <1>10, RestingSafe
<1>12. Tame(g)
  BY <1>5, <1>10, <1>11 DEF Tame
<1> QED  BY <1>1, <1>12

-------------------------------------------------------------------------------
(* A fork.                                                                 *)

\* The child takes over cold slots; the others keep what they have.
Hands(k, g, src, dst, prefix) ==
  /\ g.pend = k.pend /\ (\A x \in Cells \ Of(dst) : g.st[x] = k.st[x])
  /\ \A q \in Ids \ {dst} : g.seen[q] = k.seen[q]
  /\ g.seen[dst] \in {k.seen[dst], HandedSeen(k, src, prefix)}
LEMMA ShareHands ==
  ASSUME NEW k, Good(k, {}), NEW src \in Ids, NEW dst \in Ids, src # dst, Ready(k, src),
         NEW prefix \in Nat, NEW g, g = share_slots(k, src, dst, prefix)
  PROVE  Hands(k, g, src, dst, prefix)
<1>1. PICK a : a = inherit(k, src, dst, prefix)
  OBVIOUS
<1>2. ~ (k.file[src] > 0)
  BY DEF Ready
<1>3. CASE a.demoted[dst] = 0
  <2>1. g = k
    BY <1>1, <1>2, <1>3, Zenon DEF share_slots
  <2> QED  BY <2>1 DEF Hands
<1>4. CASE a.demoted[dst] # 0
  <2>1. g = Taking(a, dst)
    BY <1>1, <1>2, <1>4, Zenon DEF share_slots, Taking
  <2>2. IsKv(k) /\ k.seen \in [Ids -> Nat]
    BY DEF Good, Base, DormantOk
  <2>3. PICK tt : tt = Inherited(k, src, dst, prefix)
    OBVIOUS
  <2>4. PICK v : v = HandedSeen(k, src, prefix)
    OBVIOUS
  <2>5. IsKv(a) /\ Same(k, a, Heirs) /\ a.st = tt /\ a.seen = Put(k.seen, dst, v)
    BY <1>1, <2>2, <2>3, <2>4, InheritFields
  <2>6. Same(a, g, {"cold_ref"})
    BY <2>1, <2>5, TakingFields
  <2>7. g.pend = k.pend /\ g.st = tt /\ g.seen = Put(k.seen, dst, v)
    BY <2>5, <2>6 DEF Same, Fields, Heirs
  <2>8. \A x \in Cells \ Of(dst) : tt[x] = k.st[x]
    BY <2>3, HandedCells
  <2>9. g.seen[dst] = v /\ \A q \in Ids \ {dst} : g.seen[q] = k.seen[q]
    BY <2>2, <2>7 DEF Put
  <2> QED  BY <2>4, <2>7, <2>8, <2>9 DEF Hands
<1> QED  BY <1>3, <1>4

\* A fork under way: nothing but the child was changed.
Sits(k, h, dst) ==
  /\ Ebbs(k, h, Stale(k) \cup Of(dst)) /\ h.fail = "none" /\ DOMAIN h.base = Ids /\ DOMAIN h.pass = Ids
  /\ h.num \in [Ids -> Nat] /\ \A q \in Ids \ {dst} : Rests(k, h, q)
LEMMA SitsSafe ==
  ASSUME NEW k, Tame(k), NEW dst \in Ids, NEW h, Sits(k, h, dst), Safe(h, dst)
  PROVE  AllSafe(h) /\ DOMAIN h.base = Ids
<1>1. /\ Ebbs(k, h, Stale(k) \cup Of(dst)) /\ h.fail = "none" /\ DOMAIN h.base = Ids
      /\ h.num \in [Ids -> Nat] /\ \A q \in Ids \ {dst} : Rests(k, h, q)
  BY DEF Sits
<1>2. AllSafe(h)
  BY <1>1, RestingSafe
<1> QED  BY <1>1, <1>2

\* The fork is undone.
LEMMA SitsUndone ==
  ASSUME NEW k, Tame(k), NEW dst \in Ids, NEW h, Sits(k, h, dst), NEW D \in SUBSET {dst}, Good(h, D), Worded(h),
         NEW g, g = undo_fork(h, dst)
  PROVE  AllSafe(g) /\ DOMAIN g.base = Ids
<1>1. g = Ended(h, dst, "unborn") /\ DOMAIN h.base = Ids /\ DOMAIN h.pass = Ids
  BY DEF undo_fork, Sits
<1>2. Leaves(h, g, dst)
  BY <1>1, EndedLeaves
<1>3. g.num \in [Ids -> 0..MaxPages] /\ k.num \in [Ids -> 0..MaxPages] /\ h.num \in [Ids -> 0..MaxPages]
  BY <1>2 DEF Leaves, Tame, Inv, Good, Base, NumberedOk
<1>4. MaxPages \in Nat
  BY KvAssumption
<1>5. ASSUME NEW q \in Ids \ {dst} PROVE Rests(k, g, q)
  <2>1. Rests(k, h, q) /\ Rests(h, g, q)
    BY <1>2 DEF Sits, Leaves
  <2>2. k.num[q] \in Int /\ h.num[q] \in Int /\ g.num[q] \in Int
    BY <1>3, <1>4
  <2> QED  BY <2>1, <2>2, RestsTrans
<1>6. Ebbs(k, g, Stale(k) \cup Of(dst))
  BY <1>2 DEF Leaves, Sits, Ebbs
<1>7. Safe(g, dst) /\ g.fail = "none" /\ DOMAIN g.base = Ids
  BY <1>2 DEF Leaves, Sits
<1>8. g.num \in [Ids -> Nat]
  BY <1>3, <1>4
<1>9. AllSafe(g)
  BY <1>5, <1>6, <1>7, <1>8, RestingSafe
<1> QED  BY <1>7, <1>9

\* The manager goes on.
LEMMA SitsCalm ==
  ASSUME NEW k, NEW dst \in Ids, NEW c, Sits(k, c, dst), NEW r, Calm(c, r)
  PROVE  Sits(k, r, dst)
<1>1. /\ r.txt = c.txt /\ r.pass = c.pass /\ r.base = c.base /\ r.seen = c.seen /\ r.num = c.num /\ r.fail = c.fail
  BY DEF Calm, Stays, Same, TierFields, Fields
<1>2. \A q \in Ids \ {dst} : Rests(k, r, q) /\ c.seen[q] = k.seen[q]
  BY <1>1 DEF Sits, Rests
<1>3. \A x \in Cells : x \in Stale(c) => x \in Stale(k) \cup Of(dst)
  BY <1>2, CellParts DEF Stale
<1>4. Ebbs(k, r, Stale(k) \cup Of(dst))
  BY <1>3 DEF Calm, Sits, Ebbs
<1> QED  BY <1>1, <1>2, <1>4 DEF Sits

\* The rows of a prefix fit into its pages.
LEMMA WholeCovers ==
  ASSUME NEW p \in Nat
  PROVE  Whole(p) \in Nat /\ p <= Whole(p) * PageSize
<1>1. PICK d : d = p + PageSize - 1
  OBVIOUS
<1>2. d \in Nat /\ PageSize \in Nat \ {0}
  BY <1>1, KvAssumption
<1>3. PICK w : w = d \div PageSize
  OBVIOUS
<1>4. w \in Nat /\ d < (w + 1) * PageSize
  BY <1>2, <1>3, DivIs
<1>5. (w + 1) * PageSize = w * PageSize + PageSize /\ w * PageSize \in Int
  BY <1>2, <1>4
<1>6. Whole(p) = w
  BY <1>1, <1>3 DEF Whole
<1> QED  BY <1>1, <1>2, <1>4, <1>5, <1>6

\* The rows and the pages of the child.
Bred(k, f, src, dst, prefix) ==
  /\ Sits(k, f, dst) /\ Child2(f, dst) /\ HeirOk(f, src, dst, prefix)
  /\ f.txt = k.txt /\ f.rewinds = k.rewinds /\ f.life = k.life /\ f.pass = k.pass /\ f.base = k.base
  /\ f.fail = k.fail
  /\ (\A x \in Of(src) : f.st[x] = k.st[x])
  /\ f.seen[dst] \in {0, HandedSeen(k, src, prefix)}
  /\ Gets(k, src, prefix, f.num[dst])
LEMMA ForkBred ==
  ASSUME NEW k, Tame(k), NEW src \in Ids, NEW dst \in Ids, src # dst, Ready(k, src),
         k.life[dst] \notin {"live", "holder"}, NEW prefix \in Nat, NEW b, b = share_slots(k, src, dst, prefix),
         NEW frozen, NEW r, r = fork_pages(b, src, dst, frozen, prefix)
  PROVE  Bred(k, r.k, src, dst, prefix)
<1>1. Inv(k) /\ Good(k, {}) /\ k.fail = "none" /\ DOMAIN k.base = Ids /\ DOMAIN k.pass = Ids
  BY DEF Tame, AllSafe, Inv, PassOk
<1>2. k.num[dst] = 0 /\ k.seen[dst] = 0
  BY <1>1 DEF Good, Base, DormantOk
<1>3. Newborn(k, dst)
  BY <1>1, CellParts DEF Newborn, Good, Base, DormantOk
<1>4. Child1(b, src, dst, prefix) /\ Same(k, b, Forks) /\ HeirOk(b, src, dst, prefix)
  <2>1. Child1(b, src, dst, prefix) /\ Same(k, b, Forks)
    BY <1>1, <1>3, ShareKeeps
  <2> QED  BY <2>1 DEF Child1
<1>5. Hands(k, b, src, dst, prefix)
  BY <1>1, ShareHands
<1>6. PICK f : f = r.k
  OBVIOUS
<1>7. PICK n : /\ Child2(f, dst) /\ Same(b, f, {"ref", "vram", "pg", "num"})
               /\ Gets(b, src, prefix, n) /\ f.num = Put(b.num, dst, n)
  BY <1>4, <1>6, ForkPagesKeeps
<1>8. /\ f.txt = k.txt /\ f.rewinds = k.rewinds /\ f.life = k.life /\ f.pass = k.pass /\ f.base = k.base
      /\ f.fail = k.fail /\ b.num = k.num /\ f.seen = b.seen /\ f.st = b.st /\ f.pend = b.pend
  BY <1>4, <1>7 DEF Same, Fields, Forks, TierFields
<1>9. k.num \in [Ids -> 0..MaxPages] /\ MaxPages \in Nat
  BY <1>1, KvAssumption DEF Good, Base, NumberedOk
<1>10. n \in Nat /\ f.num[dst] = n /\ f.num \in [Ids -> Nat] /\ \A q \in Ids \ {dst} : f.num[q] = k.num[q]
  BY <1>7, <1>8, <1>9 DEF Put, Gets
<1>11. Gets(k, src, prefix, f.num[dst])
  BY <1>7, <1>8, <1>10 DEF Gets
<1>12. \A q \in Ids \ {dst} : Rests(k, f, q)
  BY <1>5, <1>8, <1>9, <1>10 DEF Rests, Hands
<1>13. Ebbs(k, f, Stale(k) \cup Of(dst))
  BY <1>5, <1>8 DEF Ebbs, Going, Hands
<1>14. Sits(k, f, dst)
  BY <1>1, <1>8, <1>10, <1>12, <1>13 DEF Sits
<1>15. HeirOk(f, src, dst, prefix)
  BY <1>4, <1>8 DEF HeirOk
<1>16. \A x \in Of(src) : f.st[x] = k.st[x]
  <2>1. \A x \in Of(src) : x \in Cells \ Of(dst)
    BY CellParts
  <2> QED  BY <1>5, <1>8, <2>1 DEF Hands
<1>17. f.seen[dst] \in {0, HandedSeen(k, src, prefix)}
  BY <1>2, <1>5, <1>8 DEF Hands
<1>18. Bred(k, f, src, dst, prefix)
  BY <1>7, <1>8, <1>11, <1>14, <1>15, <1>16, <1>17 DEF Bred
<1> QED  BY <1>6, <1>18

\* The child has its rows, the other sequences theirs.
LEMMA ChildSits ==
  ASSUME NEW k, Tame(k), NEW src \in Ids, NEW dst \in Ids, src # dst, NEW prefix \in Nat, NEW frozen \in BOOLEAN,
         NEW f, Bred(k, f, src, dst, prefix), Parent(f, src, dst, prefix), NEW c, c = Child(f, src, dst, frozen, prefix)
  PROVE  /\ Sits(k, c, dst) /\ Same(f, c, {"life", "floor", "txt"})
         /\ \A m \in Layers : Rowed(c, dst, m) = Knows(k, src, prefix)
<1>1. IsKv(f) /\ f.txt = k.txt /\ Sits(k, f, dst)
  BY DEF Bred, Child2, Good, Base
<1>2. PICK n : n = Knows(f, src, prefix)
  OBVIOUS
<1>3. Same(f, c, {"life", "floor", "txt"}) /\ c.txt = Copied(f.txt, src, dst, n)
  BY <1>1, <1>2, ChildFields
<1>4. Texts(f.txt, f.rewinds)
  BY DEF Parent, Worded
<1>5. 0 \in Layers /\ (\A l \in Layers : Len(f.txt[<<src, l>>]) \in Nat)
  BY <1>4, Lens
<1>6. \A l \in Layers : Len(f.txt[<<src, l>>]) = Len(f.txt[<<src, 0>>])
  BY <1>4, Flat DEF Parent
<1>7. n \in Nat /\ \A m \in Layers : n <= Len(f.txt[<<src, m>>])
  BY <1>2, <1>5, <1>6 DEF Knows, Rowed, Parent
<1>8. OthersTexts(f.txt, c.txt, dst) /\ \A m \in Layers : Len(c.txt[<<dst, m>>]) = n
  BY <1>3, <1>4, <1>7, CopiedTexts
<1>9. n = Knows(k, src, prefix)
  BY <1>1, <1>2 DEF Knows, Rowed
<1>10. /\ c.st = f.st /\ c.pend = f.pend /\ c.pass = f.pass /\ c.base = f.base /\ c.seen = f.seen /\ c.num = f.num
       /\ c.fail = f.fail
  BY <1>3 DEF Same, Fields
<1>11. \A q \in Ids \ {dst} : Rests(k, c, q)
  BY <1>1, <1>8, <1>10 DEF Rests, Sits, OthersTexts
<1>12. Ebbs(k, c, Stale(k) \cup Of(dst))
  BY <1>1, <1>10 DEF Ebbs, Going, Sits
<1>13. Sits(k, c, dst)
  BY <1>1, <1>10, <1>11, <1>12 DEF Sits
<1> QED  BY <1>3, <1>8, <1>9, <1>13 DEF Rowed

\* What is demoted of the child is behind its rows.
LEMMA ChildSafe ==
  ASSUME NEW k, Tame(k), NEW src \in Ids, NEW dst \in Ids, NEW prefix \in Nat, prefix <= Rowed(k, src, 0),
         k.pass[src] = "none", k.pass[dst] = "none", NEW f, Bred(k, f, src, dst, prefix),
         NEW g, g.txt \in [Ids \X Layers -> Seq(Row)], \A m \in Layers : Rowed(g, dst, m) = Knows(k, src, prefix),
         g.seen = f.seen, g.num = f.num, g.pass = f.pass, g.base = f.base,
         Below(g, dst, Knows(k, src, prefix))
  PROVE  Safe(g, dst)
<1>1. Inv(k) /\ k.fail = "none" /\ Safe(k, src) /\ Safe(k, dst)
  BY DEF Tame, AllSafe
<1>2. PICK n : n = Knows(k, src, prefix)
  OBVIOUS
<1>3. PICK R : R = Rowed(k, src, 0)
  OBVIOUS
<1>4. R \in Nat /\ k.seen[src] \in Nat /\ k.num[src] \in Nat /\ k.num[src] * PageSize \in Nat /\ 0 \in Layers
  BY <1>1, <1>3, SafeTyped
<1>5. k.seen[src] <= R /\ R <= k.num[src] * PageSize
  BY <1>1, <1>3 DEF Safe, Paced
<1>6. n \in Nat /\ n <= R /\ (prefix > 0 => n = prefix) /\ (prefix = 0 => n = R)
  BY <1>2, <1>3, <1>4 DEF Knows
<1>7. g.seen[dst] <= n
  <2>1. g.seen[dst] \in {0, HandedSeen(k, src, prefix)}
    BY DEF Bred
  <2>2. HandedSeen(k, src, prefix) <= n
    BY <1>4, <1>5, <1>6 DEF HandedSeen, MinOf
  <2> QED  BY <1>6, <2>1, <2>2
<1>8. n <= g.num[dst] * PageSize
  <2>1. g.num[dst] = k.num[src] \/ (prefix > 0 /\ g.num[dst] = Whole(prefix))
    BY DEF Bred, Gets
  <2>2. CASE g.num[dst] = k.num[src]
    BY <1>4, <1>5, <1>6, <2>2
  <2>3. CASE prefix > 0 /\ g.num[dst] = Whole(prefix)
    BY <1>6, <2>3, WholeCovers
  <2> QED  BY <2>1, <2>2, <2>3
<1>9. g.pass[dst] = "none" /\ g.base[dst] = k.base[dst] /\ k.base[dst] \in Int
  BY <1>1 DEF Bred, Safe
<1>10. \A m \in Layers : Rowed(g, dst, m) = n /\ Limit(g, dst, m) = n
  BY <1>2, <1>9 DEF Limit
<1>11. Backward(g, dst)
  BY <1>2, <1>10, CellParts DEF Backward, Below
<1>12. Paced(g, dst)
  BY <1>4, <1>7, <1>8, <1>9, <1>10 DEF Paced, Prefills
<1> QED  BY <1>9, <1>11, <1>12 DEF Safe

\* A child with all pages of its parent.
LEMMA WholeBelow ==
  ASSUME NEW k, Tame(k), NEW src \in Ids, NEW dst \in Ids, k.pass[src] = "none",
         NEW f, Bred(k, f, src, dst, 0), NEW c, c.st = f.st, c.pend = f.pend
  PROVE  Below(c, dst, Rowed(k, src, 0))
<1>1. Inv(k) /\ k.fail = "none" /\ Safe(k, src)
  BY DEF Tame, AllSafe
<1>2. \A l \in Layers : Limit(k, src, l) = Rowed(k, src, 0)
  BY <1>1, IdleRows DEF Limit
<1> SUFFICES ASSUME NEW x \in Of(dst), Going(c, x) PROVE PageEnd(x) <= Rowed(k, src, 0)
  BY DEF Below
<1>3. c.pend.items = {} /\ c.st[x].tier \in {"hot", "cold"}
  BY DEF Bred, Child2, NoBatch
<1>4. c.st[x].tier = "cold"
  BY <1>3 DEF Going, Cargo
<1>5. PICK y : y = Twin(x, src)
  OBVIOUS
<1>6. y \in Of(src) /\ PageEnd(y) = PageEnd(x) /\ y[2] \in Layers
  BY <1>5, TwinIs, CellParts
<1>7. k.st[y].tier = "cold"
  BY <1>4, <1>5, <1>6 DEF Bred, HeirOk
<1>8. PageEnd(y) <= Limit(k, src, y[2])
  BY <1>1, <1>6, <1>7 DEF Safe, Backward, Going
<1> QED  BY <1>2, <1>6, <1>8

LEMMA BornSafe ==
  ASSUME NEW k, Tame(k), NEW src \in Ids, NEW dst \in Ids, src # dst, NEW prefix \in Nat, NEW frozen \in BOOLEAN, NEW reserved \in BOOLEAN,
         prefix <= Rowed(k, src, 0), k.pass[src] = "none", k.pass[dst] = "none",
         NEW f, Bred(k, f.k, src, dst, prefix), Parent(f.k, src, dst, prefix),
         NEW g, g = Born(f, src, dst, frozen, prefix, reserved)
  PROVE  AllSafe(g) /\ DOMAIN g.base = Ids
<1>1. PICK h : h = f.k
  OBVIOUS
<1>2. Bred(k, h, src, dst, prefix) /\ Parent(h, src, dst, prefix)
  BY <1>1
<1>3. /\ Worded(h) /\ Good(h, {dst}) /\ Sits(k, h, dst) /\ Child2(h, dst) /\ NoBatch(h)
      /\ {dst} \in SUBSET {dst} /\ {} \in SUBSET {dst}
  BY <1>2 DEF Parent, Bred, Child2
<1>4. PICK c : c = Child(h, src, dst, frozen, prefix)
  OBVIOUS
<1>5. Inv(c) /\ c.fail = "none"
  BY <1>2, <1>3, <1>4, ChildInv
<1>6. Good(c, {}) /\ Worded(c)
  BY <1>5 DEF Inv
<1>7. PICK n : n = Knows(k, src, prefix)
  OBVIOUS
<1>8. Sits(k, c, dst) /\ Same(h, c, {"life", "floor", "txt"}) /\ \A m \in Layers : Rowed(c, dst, m) = n
  BY <1>2, <1>4, <1>7, ChildSits
<1>9. c.st = h.st /\ c.pend = h.pend /\ c.seen = h.seen /\ c.num = h.num /\ c.pass = h.pass /\ c.base = h.base
  BY <1>8 DEF Same, Fields
<1>10. PICK r : r = IF prefix > 0 THEN repromote_for_rewind(c, dst, prefix) ELSE Done(c)
  OBVIOUS
<1>11. Good(r.k, {}) /\ Calm(c, r.k) /\ (r.ok => Below(r.k, dst, n))
  <2>1. CASE prefix > 0
    <3>1. r = repromote_for_rewind(c, dst, prefix) /\ n = prefix /\ prefix \in Int
      BY <1>7, <1>10, <2>1 DEF Knows
    <3> QED  BY <1>6, <3>1, RewindCalm
  <2>2. CASE prefix = 0
    <3>1. r.k = c /\ n = Rowed(k, src, 0)
      BY <1>7, <1>10, <2>2 DEF Done, Knows
    <3>2. Below(c, dst, n)
      BY <1>2, <1>9, <2>2, <3>1, WholeBelow
    <3> QED  BY <1>6, <3>1, <3>2, CalmSelf
  <2> QED  BY <2>1, <2>2
<1>12. PICK e : e = r.k
  OBVIOUS
<1>13. Good(e, {}) /\ Calm(c, e) /\ Sits(k, e, dst)
  BY <1>8, <1>11, <1>12, SitsCalm
<1>14. /\ e.txt = c.txt /\ e.rewinds = c.rewinds /\ e.seen = h.seen /\ e.num = h.num /\ e.pass = h.pass
       /\ e.base = h.base
  BY <1>9, <1>13 DEF Calm, Stays, Same, TierFields, Fields
<1>15. Worded(e)
  BY <1>6, <1>14 DEF Worded
<1>16. g = undo_fork(h, dst) \/ (g = e /\ r.ok) \/ g = undo_fork(e, dst)
  BY <1>1, <1>4, <1>10, <1>12, Zenon DEF Born, lift_child, undo_unless
<1>17. CASE g = undo_fork(h, dst)
  BY <1>3, <1>17, SitsUndone
<1>18. CASE g = e /\ r.ok
  <2>1. Below(e, dst, Knows(k, src, prefix))
    BY <1>7, <1>11, <1>12, <1>18
  <2>2. \A m \in Layers : Rowed(e, dst, m) = Knows(k, src, prefix)
    BY <1>7, <1>8, <1>14 DEF Rowed
  <2>3. e.txt \in [Ids \X Layers -> Seq(Row)]
    BY <1>15 DEF Worded, Texts
  <2>4. Safe(e, dst)
    BY <1>2, <1>14, <2>1, <2>2, <2>3, ChildSafe
  <2> QED  BY <1>13, <1>18, <2>4, SitsSafe
<1>19. CASE g = undo_fork(e, dst)
  BY <1>3, <1>13, <1>15, <1>19, SitsUndone
<1> QED  BY <1>16, <1>17, <1>18, <1>19

LEMMA HandleForkSafe ==
  ASSUME NEW k, Tame(k), NEW src \in Ids, NEW dst \in Ids, src # dst, NEW prefix \in Nat, NEW frozen \in BOOLEAN, NEW reserved \in BOOLEAN, NEW blocks \in Nat,
         Parent(k, src, dst, prefix), k.life[dst] \notin {"live", "holder"}, k.pass[src] = "none",
         NEW g, g = handle_seq_fork(k, src, dst, frozen, prefix, reserved, blocks)
  PROVE  AllSafe(g) /\ DOMAIN g.base = Ids
<1>1. Good(k, {})
  BY DEF Tame, Inv
<1>2. PICK u : u = unspill_seq(k, src, blocks)
  OBVIOUS
<1>3. Good(u.k, {}) /\ Calm(k, u.k) /\ (u.ok => u.k.file[src] = 0)
  <2>1. Good(u.k, {}) /\ Calm(k, u.k) /\ u.k.pend = k.pend /\ (u.ok => u.k.file[src] = 0)
    BY <1>1, <1>2, UnspillCalm, SMTT(60)
  <2> QED  BY <2>1
<1>4. Tame(u.k)
  BY <1>3, CalmTame
<1>5. CASE ~ u.ok
  <2>1. g = u.k
    BY <1>2, <1>5, Zenon DEF handle_seq_fork, fork_read
  <2> QED  BY <1>4, <2>1 DEF Tame
<1>6. CASE u.ok
  <2>1. PICK a : a = flush_pending(u.k, TRUE)
    OBVIOUS
  <2>2. Good(a, {}) /\ Calm(u.k, a) /\ NoBatch(a) /\ a.file = u.k.file
    BY <1>3, <2>1, FlushCalm, FlushKeeps
  <2>3. PICK b : b = settled(a, src)
    OBVIOUS
  <2>4. Good(b, {}) /\ Calm(a, b) /\ Steady(b, src) /\ b.file = a.file /\ NoBatch(b)
    BY <2>2, <2>3, SettledCalm, SettledKeeps
  <2>5. Tame(b)
    BY <1>4, <2>2, <2>4, CalmTame
  <2>6. Ready(b, src)
    BY <1>3, <1>6, <2>2, <2>4 DEF Ready
  <2>7. Calm(k, b)
    BY <1>3, <2>2, <2>4, CalmTrans
  <2>8. b.txt = k.txt /\ b.pass = k.pass /\ b.life = k.life /\ b.rewinds = k.rewinds /\ b.fail = k.fail
    BY <2>7 DEF Calm, Stays, Same, TierFields, Fields
  <2>9. PICK d : d = share_slots(b, src, dst, prefix)
    OBVIOUS
  <2>10. PICK f : f = fork_pages(d, src, dst, frozen, prefix)
    OBVIOUS
  <2>11. Bred(b, f.k, src, dst, prefix)
    BY <2>5, <2>6, <2>8, <2>9, <2>10, ForkBred
  <2>12. PICK h : h = f.k
    OBVIOUS
  <2>13. h.txt = k.txt /\ h.pass = k.pass /\ h.life = k.life /\ h.rewinds = k.rewinds /\ h.fail = k.fail
    BY <2>8, <2>11, <2>12 DEF Bred
  <2>14. Parent(f.k, src, dst, prefix)
    <3>1. Parent(h, src, dst, prefix)
      BY <2>13, ParentSame
    <3> QED  BY <2>12, <3>1
  <2>15. g = Born(f, src, dst, frozen, prefix, reserved)
    <3>1. g = Forked(d, src, dst, frozen, prefix, reserved)
      BY <1>2, <1>6, <2>1, <2>3, <2>9, Zenon DEF handle_seq_fork, fork_read, on_seq_fork
    <3>2. Same(b, d, Forks)
      <4>1. Newborn(b, dst)
        BY <2>4, <2>8, CellParts DEF Newborn, Good, Base, DormantOk
      <4> QED  BY <2>4, <2>6, <2>9, <4>1, ShareKeeps
    <3>3. d.fail = "none"
      BY <2>8, <3>2 DEF Same, Fields, Forks, TierFields, Parent
    <3> QED  BY <2>10, <3>1, <3>3, Zenon DEF Forked
  <2>16. prefix <= Rowed(b, src, 0) /\ b.pass[src] = "none" /\ b.pass[dst] = "none"
    BY <2>8 DEF Parent, Rowed
  <2> QED  BY <2>5, <2>11, <2>14, <2>15, <2>16, BornSafe
<1> QED  BY <1>5, <1>6

LEMMA ForkSafe ==
  ASSUME Tame(kv), NEW src \in Ids, NEW dst \in Ids, seq_fork(src, dst)
  PROVE  Tame(kv')
<1>1. PICK g : g = kv'
  OBVIOUS
<1>2. PICK frozen \in BOOLEAN, prefix \in {n \in PrefixLens \cup {0} : n < Rowed(kv, src, 0)}, reserved \in BOOLEAN,
            blocks \in 0..SpillCap :
        g = handle_seq_fork(kv, src, dst, frozen, prefix, reserved, blocks)
  BY <1>1, Zenon DEF seq_fork
<1>3. /\ kv.life[src] = "holder" \/ (kv.life[src] = "live" /\ kv.pass[src] = "none")
      /\ kv.life[dst] = "unborn"
  BY Zenon DEF seq_fork, Idle, NewId
<1>4. src # dst /\ kv.life[dst] \notin {"live", "holder"} /\ Inv(kv) /\ kv.fail = "none"
  BY <1>3 DEF Tame, AllSafe
<1>5. /\ Texts(kv.txt, kv.rewinds) /\ TrailsBy(kv.txt, src, Unit(kv.pass[src])) /\ Worded(kv)
      /\ kv.pass[src] # "none" => kv.life[src] = "live"
      /\ kv.pass[dst] # "none" => kv.life[dst] = "live"
  BY <1>4, InvParts
<1>6. kv.pass[src] = "none" /\ kv.pass[dst] = "none"
  BY <1>3, <1>5
<1>7. prefix \in Nat /\ prefix < Len(kv.txt[<<src, 0>>]) /\ Len(kv.txt[<<src, 0>>]) \in Nat
  <2>1. prefix \in Nat
    BY KvAssumption
  <2>2. prefix < Len(kv.txt[<<src, 0>>])
    BY DEF Rowed
  <2>3. Len(kv.txt[<<src, 0>>]) \in Nat
    BY <1>5, Lens, KvAssumption
  <2> QED  BY <2>1, <2>2, <2>3
<1>0. blocks \in Nat
  BY KvAssumption
<1>8. Unit("none") = 0
  BY DEF Unit
<1>9. Others(kv, dst)
  BY <1>4, OthersInv
<1>10. Parent(kv, src, dst, prefix)
  BY <1>4, <1>5, <1>6, <1>7, <1>8, <1>9 DEF Parent
<1>11. AllSafe(g) /\ DOMAIN g.base = Ids
  BY <1>0, <1>2, <1>4, <1>6, <1>7, <1>10, HandleForkSafe
<1>12. Inv(g)
  BY <1>1, <1>4, ForkKeeps
<1>13. Tame(g)
  BY <1>11, <1>12 DEF Tame
<1> QED  BY <1>1, <1>13

-------------------------------------------------------------------------------
(* Nothing fails loud.                                                     *)

LEMMA InitTame ==
  ASSUME Init
  PROVE  Tame(kv)
<1>1. Inv(kv) /\ kv.fail = "none"
  BY InitInv
<1>2. /\ kv.txt = [y \in Ids \X Layers |-> <<>>] /\ kv.pass = [s \in Ids |-> "none"] /\ kv.base = [s \in Ids |-> 0]
      /\ kv.num = [s \in Ids |-> 0] /\ kv.seen = [s \in Ids |-> 0] /\ kv.hibernated = [s \in Ids |-> "no"]
  BY Zenon DEF Init
<1>3. kv.st = [x \in Cells |-> Hot] /\ kv.pg = [x \in Cells |-> Neutral]
  BY Zenon DEF Init
<1>4. ASSUME NEW s \in Ids PROVE Safe(kv, s)
  <2>1. Void(kv, s)
    BY <1>2, <1>3, CellParts DEF Void, Owned, Hot
  <2>2. kv.pass[s] = "none" /\ kv.base[s] = 0 /\ \A l \in Layers : kv.txt[<<s, l>>] = <<>>
    BY <1>2
  <2>3. Good(kv, {})
    BY <1>1 DEF Inv
  <2> QED  BY <2>1, <2>2, <2>3, VoidSafe
<1> QED  BY <1>1, <1>2, <1>4 DEF Tame, AllSafe

\* Rewinds go to the start of a page or to hot rows, with no batch of the sequence
\* pending; the window is as long as a chunk and as a superchunk, so that it holds the
\* rows of the layers under way.
Windowed == ~AnyRewind /\ Chunk <= Retention /\ Superchunk <= Retention

LEMMA NextTame ==
  ASSUME Windowed, Tame(kv), [Next]_kv
  PROVE  Tame(kv')
<1>1. CASE UNCHANGED kv
  BY <1>1
<1>2. CASE Next
  <2>0. ~AnyRewind /\ Chunk <= Retention /\ Superchunk <= Retention
    BY DEF Windowed
  <2>1. CASE d2h
    BY <2>1, CopySafe
  <2>2. ASSUME NEW s \in Ids,
               \/ seq_create(s) \/ decode(s) \/ prefill(s, "chunk") \/ prefill(s, "dense")
               \/ seq_free(s) \/ seq_hibernate(s) \/ seq_snapshot(s)
        PROVE  Tame(kv')
    <3>1. CASE prefill(s, "chunk") \/ prefill(s, "dense")
      BY <2>0, <3>1, PrefillSafe DEF Prefills
    <3>2. CASE decode(s)
      BY <2>0, <3>2, DecodeSafe
    <3> QED  BY <2>2, <3>1, <3>2, CreateSafe, FreeSafe, HibernateSafe, SnapshotSafe
  <2>3. ASSUME NEW s \in Ids, NEW d \in Ids, seq_fork(s, d) PROVE Tame(kv')
    BY <2>3, ForkSafe
  <2> QED  BY <1>2, <2>1, <2>2, <2>3 DEF Next
<1> QED  BY <1>1, <1>2

KvTame == Tame(kv)

\* When the check INV-KVT-2 is not met either: a sufficient condition on the configuration
\* and on the orchestrator, which nothing in the code enforces.  The window has to be as
\* long as a chunk and a superchunk, and no rewind goes into the middle of a page that is
\* not hot or over a batch of the sequence that is still pending.  Then no layer is
\* dispatched to write into a demoted page, for any number of sequences, however their
\* steps are interleaved with the copies to the host and whatever pressure demotes.
THEOREM NeverFailsLoud ==
  ASSUME Windowed
  PROVE  Spec => []KvNeverFailsLoud
<1>1. Init => KvTame
  BY InitTame DEF KvTame
<1>2. KvTame /\ [Next]_kv => KvTame'
  <2> SUFFICES ASSUME KvTame, [Next]_kv PROVE KvTame'
    OBVIOUS
  <2>1. Tame(kv')
    BY NextTame DEF KvTame
  <2> QED  BY <2>1 DEF KvTame
<1>3. KvTame => KvNeverFailsLoud
  BY DEF KvTame, Tame, AllSafe, KvNeverFailsLoud
<1> QED  BY <1>1, <1>2, <1>3, PTL DEF Spec
===============================================================================
