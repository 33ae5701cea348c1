------------------------------ MODULE ZoneGeometry ------------------------------
(***************************************************************************)
(* The arithmetic of src/core/memory/expert_zone_math.h: how many expert   *)
(* slots a run of KV slabs holds, what it wastes, and how many slabs a     *)
(* grant asks for before it knows the address it will get.                 *)
(***************************************************************************)
EXTENDS Integers

CONSTANTS SlotBytes, SlabBytes,
          Align,                \* kExpertZoneSlotAlign
          WasteNum, WasteDen    \* max_waste as a fraction

ASSUME GeometryAssumption ==
  /\ SlotBytes \in Nat \ {0} /\ SlabBytes \in Nat \ {0} /\ Align \in Nat /\ Align > 1
  /\ WasteNum \in Nat /\ WasteDen \in Nat \ {0}

slot_stride == ((SlotBytes + Align - 1) \div Align) * Align
capacity_bytes(s) == s * SlabBytes

base_pad(misalign) == IF misalign = 0 THEN 0 ELSE Align - misalign

Worst == 1      \* the misalignment of the widest pad

usable(s, misalign) == capacity_bytes(s) - base_pad(misalign)
slots_in(s, misalign) ==
  IF usable(s, misalign) < SlotBytes THEN 0
  ELSE (usable(s, misalign) - SlotBytes) \div slot_stride + 1

slabs_for_slots(n, misalign) ==
  (base_pad(misalign) + (n - 1) * slot_stride + SlotBytes + SlabBytes - 1) \div SlabBytes

\* waste_frac <= max_waste
WithinWaste(s, n) ==
  (capacity_bytes(s) - n * SlotBytes) * WasteDen <= WasteNum * capacity_bytes(s)

admissible(s, misalign) ==
  slots_in(s, misalign) >= 1 /\ WithinWaste(s, slots_in(s, misalign))

\* The largest number of slots that a run of s slabs can hold within the bound.
best_fit(run, misalign) ==
  LET fits == {n \in 1..slots_in(run, misalign) :
                 /\ slabs_for_slots(n, misalign) <= run
                 /\ WithinWaste(slabs_for_slots(n, misalign), n)} IN
  IF fits = {} THEN 0 ELSE CHOOSE n \in fits : \A m \in fits : m <= n

\* The fewest slabs that hold ask slots wherever they begin; 0 if none will do.
grant_slabs(ask, run) ==
  LET good == {s \in slabs_for_slots(ask, Worst)..run : admissible(s, Worst)} IN
  IF ask < 1 \/ run < 1 \/ good = {} THEN 0 ELSE CHOOSE s \in good : \A r \in good : s <= r
===============================================================================
