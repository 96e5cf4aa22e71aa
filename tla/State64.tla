------------------------------ MODULE State64 -------------------------------
(***************************************************************************)
(* States of six bits and the transitions between them, as classified by   *)
(* packages/state64-adapter (hypercube.ts, regimes.ts) and, three times    *)
(* over, by packages/core-rs: by branches (lib.rs), by tables and in       *)
(* batches (tables.rs).  A state or a mask is the set of its positions     *)
(* that are 1; position 1 is the leftmost bit, and XOR is the symmetric    *)
(* difference.  A byte has two more bits, 7 and 8, which a state leaves    *)
(* zero.                                                                   *)
(***************************************************************************)
EXTENDS Integers, FiniteSets, TLC

Positions == 1..6
LowerModule == 1..3
UpperModule == 4..6

States64 == SUBSET Positions

MutationBetween(source, target) == (source \ target) \cup (target \ source)

NumberOf(state) ==
  LET Bit(position) == IF position \in state THEN 1 ELSE 0
  IN  32 * Bit(1) + 16 * Bit(2) + 8 * Bit(3) + 4 * Bit(4) + 2 * Bit(5) + Bit(6)

\* The bits of a number of up to 16, counted from the last.
Weights == <<1, 2, 4, 8, 16, 32, 64, 128, 256, 512, 1024, 2048, 4096, 8192, 16384, 32768>>

Digit(number, bit) == (number \div Weights[bit + 1]) % 2

StateNumbered(number) == {p \in Positions : Digit(number, 6 - p) = 1}

TransitionIndex(source, target) == 64 * NumberOf(source) + NumberOf(target)

-----------------------------------------------------------------------------
\* The numeric encoding both implementations share.
ModuleScopeCode == [none |-> 0, lower_only |-> 1, upper_only |-> 2, both_modules |-> 3]

RegimeClassCode ==
  [no_change |-> 0, bit_adjustment |-> 1, module_reconfiguration |-> 2,
   cross_module_regime_shift |-> 3, near_total_inversion |-> 4, full_bit_reversal |-> 5]

ModuleScope(lower, upper) ==
  CASE lower = 0 /\ upper = 0 -> "none"
    [] lower > 0 /\ upper = 0 -> "lower_only"
    [] lower = 0 /\ upper > 0 -> "upper_only"
    [] lower > 0 /\ upper > 0 -> "both_modules"

\* Mutation: three changes within one module count as a reconfiguration.
WideRegimeClass(distance, scope) ==
  CASE distance = 0 -> "no_change"
    [] distance = 1 -> "bit_adjustment"
    [] distance \in 2..3 /\ scope # "both_modules" -> "module_reconfiguration"
    [] distance \in 2..3 /\ scope = "both_modules" -> "cross_module_regime_shift"
    [] distance \in 4..5 -> "near_total_inversion"
    [] distance = 6 -> "full_bit_reversal"

\* classifyRegimeClass: the order of its tests, as disjoint cases.
RegimeClass(distance, scope) ==
  CASE distance = 0 -> "no_change"
    [] distance = 1 -> "bit_adjustment"
    [] distance = 2 /\ scope # "both_modules" -> "module_reconfiguration"
    [] distance = 2 /\ scope = "both_modules" -> "cross_module_regime_shift"
    [] distance = 3 -> "cross_module_regime_shift"
    [] distance \in 4..5 -> "near_total_inversion"
    [] distance = 6 -> "full_bit_reversal"

ModuleDistance(module, source, target) ==
  Cardinality({p \in module : (p \in source) # (p \in target)})

\* classifyState64RegimePair, with the mask of lookupState64Transition.
ClassifyPair(source, target) ==
  LET distance == ModuleDistance(Positions, source, target)
      lower == ModuleDistance(LowerModule, source, target)
      upper == ModuleDistance(UpperModule, source, target)
      scope == ModuleScope(lower, upper)
  IN  [mutationMask |-> MutationBetween(source, target),
       distance |-> distance, lowerDistance |-> lower, upperDistance |-> upper,
       moduleScope |-> scope, regimeClass |-> RegimeClass(distance, scope)]

\* The same entry in the numbers of the Rust core.
Encoded(entry) ==
  [mutationMask |-> NumberOf(entry.mutationMask),
   distance |-> entry.distance,
   lowerDistance |-> entry.lowerDistance,
   upperDistance |-> entry.upperDistance,
   moduleScope |-> ModuleScopeCode[entry.moduleScope],
   regimeClass |-> RegimeClassCode[entry.regimeClass]]

-----------------------------------------------------------------------------
\* module_scope_from_distances
ScopeFromDistances(lower, upper) ==
  (IF lower > 0 THEN 1 ELSE 0) + (IF upper > 0 THEN 2 ELSE 0)

\* regime_class_from_distances
RegimeFromDistances(distance, lower, upper) ==
  LET bothModules == lower > 0 /\ upper > 0
  IN  IF distance = 0 THEN 0
      ELSE IF distance = 1 THEN 1
      ELSE IF distance <= 2 /\ ~bothModules THEN 2
      ELSE IF distance = 6 THEN 5
      ELSE IF distance >= 4 THEN 4
      ELSE 3

\* Everything the Rust core says of a mask; the mask itself is a number there.
RowOf(mask) ==
  LET lower == Cardinality(mask \cap LowerModule)
      upper == Cardinality(mask \cap UpperModule)
  IN  [mutationMask |-> NumberOf(mask),
       distance |-> Cardinality(mask), lowerDistance |-> lower, upperDistance |-> upper,
       moduleScope |-> ScopeFromDistances(lower, upper),
       regimeClass |-> RegimeFromDistances(Cardinality(mask), lower, upper)]

\* The compile-time tables, as one with a row for every mask.
RowByMask == [mask \in States64 |-> RowOf(mask)]

\* classify_branchless: the bytes are masked, never refused.
ClassifyBranchless(source, target) ==
  RowByMask[MutationBetween(source, target) \cap Positions]

-----------------------------------------------------------------------------
\* Mutation: the distance has two bits, as the distances within a module do.
NarrowSlots ==
  [source |-> <<0, 6>>, target |-> <<6, 6>>, mutationMask |-> <<12, 6>>,
   distance |-> <<18, 2>>, lowerDistance |-> <<20, 2>>, upperDistance |-> <<22, 2>>,
   moduleScope |-> <<24, 2>>, regimeClass |-> <<26, 3>>, index |-> <<29, 12>>]

\* The layout of pack_transition64: the first bit and the width of a field.
Slots ==
  [source |-> <<0, 6>>, target |-> <<6, 6>>, mutationMask |-> <<12, 6>>,
   distance |-> <<18, 3>>, lowerDistance |-> <<21, 2>>, upperDistance |-> <<23, 2>>,
   moduleScope |-> <<25, 2>>, regimeClass |-> <<27, 3>>, index |-> <<30, 12>>]

\* The whole entry of a transition, in numbers.
Transition64Entry(source, target) ==
  LET row == RowOf(MutationBetween(source, target))
  IN  [f \in DOMAIN Slots |->
         CASE f = "source" -> NumberOf(source)
           [] f = "target" -> NumberOf(target)
           [] f = "index"  -> TransitionIndex(source, target)
           [] OTHER        -> row[f]]

BitsOf(number, width) == {b \in 0..(width - 1) : Digit(number, b) = 1}

\* A word of 64 bits is the set of its bits that are 1; masked fields are ORed in.
Pack(entry) ==
  UNION {{Slots[f][1] + b : b \in BitsOf(entry[f], Slots[f][2])} : f \in DOMAIN Slots}
=============================================================================
