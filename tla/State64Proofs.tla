--------------------------- MODULE State64Proofs ----------------------------
(***************************************************************************)
(* Facts about states and masks that the proofs of their loops rest on,    *)
(* and the agreement of the two implementations: the tables of the Rust    *)
(* core hold, for every mask, the row the reference computes from two      *)
(* states position by position.                                            *)
(***************************************************************************)
EXTENDS State64, FiniteSetTheorems, TLAPS

LEMMA StatesAreFinite ==
  ASSUME NEW s \in States64
  PROVE  IsFiniteSet(s) /\ Cardinality(s) \in 0..6
<1>0. IsFiniteSet(1..6) /\ Cardinality(1..6) = IF 1 > 6 THEN 0 ELSE 6 - 1 + 1
  BY 1 \in Int, 6 \in Int, FS_Interval
<1>1. IsFiniteSet(1..6) /\ Cardinality(1..6) = 6
  BY <1>0
<1>2. IsFiniteSet(s) /\ Cardinality(s) <= 6
  BY <1>1, FS_Subset DEF States64, Positions
<1> QED
  BY <1>2, FS_CardinalityType

LEMMA MutationIsMask ==
  ASSUME NEW s \in States64, NEW t \in States64
  PROVE  MutationBetween(s, t) \in States64
  BY DEF MutationBetween, States64

(* The distance within a module is the number of its bits in the mask. *)
LEMMA ModuleDistanceOfMask ==
  ASSUME NEW s \in States64, NEW t \in States64, NEW module \in SUBSET Positions
  PROVE  ModuleDistance(module, s, t) = Cardinality(MutationBetween(s, t) \cap module)
<1>1. ASSUME NEW p \in module
      PROVE  ((p \in s) # (p \in t)) <=> p \in MutationBetween(s, t)
  BY DEF MutationBetween
<1>2. {p \in module : (p \in s) # (p \in t)} = MutationBetween(s, t) \cap module
  BY <1>1
<1> QED
  BY <1>2 DEF ModuleDistance

LEMMA ScopesAgree ==
  ASSUME NEW lower \in Nat, NEW upper \in Nat
  PROVE  ModuleScopeCode[ModuleScope(lower, upper)] = ScopeFromDistances(lower, upper)
<1>1. CASE lower = 0 /\ upper = 0
  BY <1>1 DEF ModuleScopeCode, ModuleScope, ScopeFromDistances
<1>2. CASE lower > 0 /\ upper = 0
  BY <1>2 DEF ModuleScopeCode, ModuleScope, ScopeFromDistances
<1>3. CASE lower = 0 /\ upper > 0
  BY <1>3 DEF ModuleScopeCode, ModuleScope, ScopeFromDistances
<1>4. CASE lower > 0 /\ upper > 0
  BY <1>4 DEF ModuleScopeCode, ModuleScope, ScopeFromDistances
<1> QED
  BY <1>1, <1>2, <1>3, <1>4

LEMMA RegimesAgree ==
  ASSUME NEW distance \in 0..6, NEW lower \in Nat, NEW upper \in Nat
  PROVE  RegimeClassCode[RegimeClass(distance, ModuleScope(lower, upper))]
           = RegimeFromDistances(distance, lower, upper)
<1> DEFINE scope == ModuleScope(lower, upper)
<1>1. scope = "both_modules" <=> lower > 0 /\ upper > 0
  BY DEF ModuleScope
<1> HIDE DEF scope
<1>2. RegimeClassCode[RegimeClass(distance, scope)] = RegimeFromDistances(distance, lower, upper)
  <2>1. CASE distance = 0
    BY <2>1 DEF RegimeClassCode, RegimeClass, RegimeFromDistances
  <2>2. CASE distance = 1
    BY <2>2 DEF RegimeClassCode, RegimeClass, RegimeFromDistances
  <2>3. CASE distance = 2 /\ scope = "both_modules"
    BY <1>1, <2>3 DEF RegimeClassCode, RegimeClass, RegimeFromDistances
  <2>4. CASE distance = 2 /\ scope # "both_modules"
    BY <1>1, <2>4 DEF RegimeClassCode, RegimeClass, RegimeFromDistances
  <2>5. CASE distance = 3
    BY <2>5 DEF RegimeClassCode, RegimeClass, RegimeFromDistances
  <2>6. CASE distance \in 4..5
    BY <2>6 DEF RegimeClassCode, RegimeClass, RegimeFromDistances
  <2>7. CASE distance = 6
    BY <2>7 DEF RegimeClassCode, RegimeClass, RegimeFromDistances
  <2> QED
    BY <2>1, <2>2, <2>3, <2>4, <2>5, <2>6, <2>7
<1> QED
  BY <1>2 DEF scope

LEMMA EncodedFields ==
  ASSUME NEW mask, NEW distance, NEW lower, NEW upper, NEW scope, NEW regime
  PROVE  Encoded([mutationMask |-> mask, distance |-> distance, lowerDistance |-> lower,
                  upperDistance |-> upper, moduleScope |-> scope, regimeClass |-> regime])
           = [mutationMask |-> NumberOf(mask), distance |-> distance, lowerDistance |-> lower,
              upperDistance |-> upper, moduleScope |-> ModuleScopeCode[scope],
              regimeClass |-> RegimeClassCode[regime]]
  BY DEF Encoded

(* classify_branchless() answers for any two bytes what the reference       *)
(* classification answers for the states they mask to.                      *)
THEOREM TablesMirrorReference ==
  ASSUME NEW source \in SUBSET (1..8), NEW target \in SUBSET (1..8)
  PROVE  ClassifyBranchless(source, target)
           = Encoded(ClassifyPair(source \cap Positions, target \cap Positions))
<1> DEFINE s == source \cap Positions
           t == target \cap Positions
           mask == MutationBetween(s, t)
           lower == Cardinality(mask \cap LowerModule)
           upper == Cardinality(mask \cap UpperModule)
           distance == Cardinality(mask)
<1>1. s \in States64 /\ t \in States64
  BY DEF States64
<1>2. mask \in States64
  BY <1>1, MutationIsMask
<1>3. MutationBetween(source, target) \cap Positions = mask
  BY DEF MutationBetween
<1>4. ClassifyBranchless(source, target) = RowOf(mask)
  BY <1>2, <1>3 DEF ClassifyBranchless, RowByMask
<1>5. LowerModule \in SUBSET Positions /\ UpperModule \in SUBSET Positions
      /\ Positions \in SUBSET Positions
  BY DEF LowerModule, UpperModule, Positions
<1>6. /\ ModuleDistance(LowerModule, s, t) = lower
      /\ ModuleDistance(UpperModule, s, t) = upper
  BY <1>1, <1>5, ModuleDistanceOfMask
<1>7. ModuleDistance(Positions, s, t) = distance
  <2>1. mask \cap Positions = mask
    BY <1>2 DEF States64
  <2>2. ModuleDistance(Positions, s, t) = Cardinality(mask \cap Positions)
    BY <1>1, <1>5, ModuleDistanceOfMask
  <2> QED
    BY <2>1, <2>2
<1>8. mask \cap LowerModule \in States64 /\ mask \cap UpperModule \in States64
  BY <1>2 DEF States64
<1>9. lower \in Nat /\ upper \in Nat /\ distance \in 0..6
  BY <1>2, <1>8, StatesAreFinite
<1> HIDE DEF s, t, mask
<1>10. ClassifyPair(s, t)
         = [mutationMask |-> mask, distance |-> distance, lowerDistance |-> lower,
            upperDistance |-> upper, moduleScope |-> ModuleScope(lower, upper),
            regimeClass |-> RegimeClass(distance, ModuleScope(lower, upper))]
  BY <1>6, <1>7 DEF ClassifyPair, mask
<1> HIDE DEF lower, upper, distance
<1>11. Encoded(ClassifyPair(s, t))
         = [mutationMask |-> NumberOf(mask), distance |-> distance, lowerDistance |-> lower,
            upperDistance |-> upper,
            moduleScope |-> ModuleScopeCode[ModuleScope(lower, upper)],
            regimeClass |-> RegimeClassCode[RegimeClass(distance, ModuleScope(lower, upper))]]
  BY <1>10, EncodedFields
<1>12. RowOf(mask)
         = [mutationMask |-> NumberOf(mask), distance |-> distance, lowerDistance |-> lower,
            upperDistance |-> upper, moduleScope |-> ScopeFromDistances(lower, upper),
            regimeClass |-> RegimeFromDistances(distance, lower, upper)]
  BY DEF RowOf, lower, upper, distance
<1> QED
  BY <1>4, <1>9, <1>11, <1>12, ScopesAgree, RegimesAgree DEF s, t
=============================================================================
