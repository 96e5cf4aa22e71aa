------------------------- MODULE State64ChainProofs -------------------------
(***************************************************************************)
(* The properties of the compression of a chain, for chains of every       *)
(* length from every source.  The three folds are tied together: the net   *)
(* mask telescopes because every mask is the mutation between neighbours,  *)
(* and the distances follow from what cancels out of it.  The sums that    *)
(* the Rust core takes over a whole chain are then what was accumulated    *)
(* observation by observation; and what both packages say of its last      *)
(* transition (catalogue, modules, matrix, packed word, sentinels) follows *)
(* from the digits of the numbers of its two states.                       *)
(***************************************************************************)
EXTENDS State64Forms, State64Proofs, SequenceTheorems, WellFoundedInduction

ChainInv == TypeOK /\ MasksReplayChain /\ NetIsEndToEnd /\ DetoursAreEven

(* What two masks have in common cancels out, once in each of them. *)
LEMMA MutationCardinality ==
  ASSUME NEW s \in States64, NEW t \in States64
  PROVE  /\ Cardinality(s \cap t) \in Nat
         /\ Cardinality(s) + Cardinality(t)
              = Cardinality(MutationBetween(s, t)) + 2 * Cardinality(s \cap t)
<1> DEFINE left == s \ t
           right == t \ s
<1>1. /\ s \in States64 /\ t \in States64 /\ s \cap t \in States64
      /\ left \in States64 /\ right \in States64
  BY DEF States64
<1>2. /\ IsFiniteSet(s) /\ Cardinality(s) \in Nat
      /\ IsFiniteSet(t) /\ Cardinality(t) \in Nat
      /\ Cardinality(s \cap t) \in Nat
      /\ IsFiniteSet(left) /\ Cardinality(left) \in Nat
      /\ IsFiniteSet(right) /\ Cardinality(right) \in Nat
  BY <1>1, StatesAreFinite
<1>3. Cardinality(left) = Cardinality(s) - Cardinality(s \cap t)
  BY <1>2, FS_Difference
<1>4. Cardinality(right) = Cardinality(t) - Cardinality(s \cap t)
  <2>1. Cardinality(right) = Cardinality(t) - Cardinality(t \cap s)
    BY <1>2, FS_Difference
  <2>2. t \cap s = s \cap t
    OBVIOUS
  <2> QED
    BY <2>1, <2>2
<1>5. Cardinality(left \cup right) = Cardinality(left) + Cardinality(right)
  <2>1. Cardinality(left \cup right)
          = Cardinality(left) + Cardinality(right) - Cardinality(left \cap right)
    BY <1>2, FS_Union
  <2>2. left \cap right = {}
    OBVIOUS
  <2>3. Cardinality(left \cap right) = 0
    BY <2>2, FS_EmptySet
  <2> QED
    BY <1>2, <2>1, <2>3
<1>6. MutationBetween(s, t) = left \cup right
  BY DEF MutationBetween
<1> HIDE DEF left, right
<1> QED
  BY <1>2, <1>3, <1>4, <1>5, <1>6

LEMMA ChainInit == Init => ChainInv
<1> SUFFICES ASSUME Init PROVE ChainInv
  OBVIOUS
<1>1. PICK source \in Sources : states = <<source>>
  BY DEF Init
<1>2. source \in States64
  BY SourcesAssumption
<1>3. states \in Seq(States64) /\ Len(states) = 1 /\ states # <<>> /\ states[1] = source
  BY <1>1, <1>2
<1>4. orderedMutationMasks = <<>> /\ netMutationMask = {} /\ cumulativeDistance = 0
  BY DEF Init
<1>5. TypeOK
  BY <1>3, <1>4 DEF TypeOK, States64
<1>6. MasksReplayChain
  BY <1>3, <1>4 DEF MasksReplayChain
<1>7. NetIsEndToEnd
  BY <1>3, <1>4 DEF NetIsEndToEnd, Source, Target, MutationBetween
<1>8. DetoursAreEven
  BY <1>4, FS_EmptySet DEF DetoursAreEven
<1> QED
  BY <1>5, <1>6, <1>7, <1>8 DEF ChainInv

LEMMA FoldKeepsInv ==
  ASSUME ChainInv, NEW target \in States64, Fold(target)
  PROVE  ChainInv'
<1> DEFINE mask == MutationBetween(Target, target)
<1>1. /\ states \in Seq(States64) /\ Len(states) \in Nat /\ Len(states) > 0
      /\ orderedMutationMasks \in Seq(States64) /\ Len(orderedMutationMasks) \in Nat
      /\ netMutationMask \in States64 /\ cumulativeDistance \in Nat
      /\ Len(states) = Len(orderedMutationMasks) + 1
  BY LenProperties, EmptySeq DEF ChainInv, TypeOK, MasksReplayChain
<1>2. /\ states' = Append(states, target)
      /\ orderedMutationMasks' = Append(orderedMutationMasks, mask)
      /\ netMutationMask' = MutationBetween(netMutationMask, mask)
      /\ cumulativeDistance' = cumulativeDistance + Cardinality(mask)
  BY DEF Fold
<1>3. Source \in States64 /\ Target \in States64
  BY <1>1, ElementOfSeq DEF Source, Target
<1>4. mask \in States64
  BY <1>3, MutationIsMask
<1>5. Source' = Source /\ Target' = target
  BY <1>1, <1>2, AppendProperties DEF Source, Target
<1> HIDE DEF mask
<1>6. TypeOK'
  <2>1. netMutationMask' \in States64
    BY <1>1, <1>2, <1>4, MutationIsMask
  <2>2. Cardinality(mask) \in Nat
    BY <1>4, StatesAreFinite
  <2>3. states' \in Seq(States64) /\ states' # <<>>
    BY <1>1, <1>2, AppendProperties
  <2>4. orderedMutationMasks' \in Seq(States64)
    BY <1>1, <1>2, <1>4, AppendProperties
  <2> QED
    BY <1>1, <1>2, <2>1, <2>2, <2>3, <2>4 DEF TypeOK
<1>7. MasksReplayChain'
  <2>1. Len(states') = Len(orderedMutationMasks') + 1
    BY <1>1, <1>2, <1>4, AppendProperties
  <2>2. ASSUME NEW i \in 1..Len(orderedMutationMasks')
        PROVE  states'[i + 1] = MutationBetween(states'[i], orderedMutationMasks'[i])
    <3>1. Len(orderedMutationMasks') = Len(orderedMutationMasks) + 1
      BY <1>1, <1>2, <1>4, AppendProperties
    <3>2. CASE i <= Len(orderedMutationMasks)
      <4>1. /\ states'[i] = states[i] /\ states'[i + 1] = states[i + 1]
            /\ orderedMutationMasks'[i] = orderedMutationMasks[i]
        BY <1>1, <1>2, <1>4, <3>2, AppendProperties
      <4> QED
        BY <4>1, <3>2 DEF ChainInv, MasksReplayChain
    <3>3. CASE i = Len(orderedMutationMasks) + 1
      <4>1. /\ states'[i] = Target /\ states'[i + 1] = target
            /\ orderedMutationMasks'[i] = mask
        BY <1>1, <1>2, <1>4, <3>3, AppendProperties DEF Target
      <4>2. target = MutationBetween(Target, mask)
        BY <1>3 DEF mask, MutationBetween, States64
      <4> QED
        BY <4>1, <4>2
    <3> QED
      BY <1>1, <3>1, <3>2, <3>3
  <2> QED
    BY <2>1, <2>2 DEF MasksReplayChain
<1>8. NetIsEndToEnd'
  <2>1. netMutationMask = MutationBetween(Source, Target)
    BY DEF ChainInv, NetIsEndToEnd
  <2>2. MutationBetween(netMutationMask, mask) = MutationBetween(Source, target)
    BY <2>1 DEF mask, MutationBetween
  <2> QED
    BY <1>2, <1>5, <2>2 DEF NetIsEndToEnd
<1>9. DetoursAreEven'
  <2>1. PICK detours \in 0..cumulativeDistance :
          cumulativeDistance = Cardinality(netMutationMask) + 2 * detours
    BY DEF ChainInv, DetoursAreEven
  <2> DEFINE common == Cardinality(netMutationMask \cap mask)
  <2>2. /\ common \in Nat
        /\ Cardinality(netMutationMask) + Cardinality(mask)
             = Cardinality(netMutationMask') + 2 * common
    BY <1>1, <1>2, <1>4, MutationCardinality
  <2>3. /\ Cardinality(netMutationMask) \in Nat /\ Cardinality(mask) \in Nat
        /\ Cardinality(netMutationMask') \in Nat
    BY <1>1, <1>2, <1>4, MutationIsMask, StatesAreFinite
  <2>0. cumulativeDistance' = cumulativeDistance + Cardinality(mask)
    BY <1>2
  <2> HIDE DEF common
  <2>4. cumulativeDistance' = Cardinality(netMutationMask') + 2 * (detours + common)
    BY <2>0, <2>1, <2>2, <2>3
  <2>5. detours + common \in 0..cumulativeDistance'
    BY <2>1, <2>2, <2>3, <2>4
  <2> QED
    BY <2>4, <2>5 DEF DetoursAreEven
<1> QED
  BY <1>6, <1>7, <1>8, <1>9 DEF ChainInv

(* The folds stay tied together along every chain. *)
THEOREM ChainInvariant == Spec => []ChainInv
<1>1. ChainInv /\ [Next]_vars => ChainInv'
  <2> SUFFICES ASSUME ChainInv, [Next]_vars PROVE ChainInv'
    OBVIOUS
  <2>1. CASE Next
    BY <2>1, FoldKeepsInv DEF Next
  <2>2. CASE UNCHANGED vars
    BY <2>2 DEF vars, ChainInv, TypeOK, MasksReplayChain, NetIsEndToEnd,
                DetoursAreEven, Source, Target
  <2> QED
    BY <2>1, <2>2
<1> QED
  BY ChainInit, <1>1, PTL DEF Spec

(* A chain, its masks and its folds have their types at every length. *)
THEOREM ChainTypeCorrect == Spec => []TypeOK
<1>1. ChainInv => TypeOK
  BY DEF ChainInv
<1> QED
  BY <1>1, ChainInvariant, PTL

(* A signature determines the chain it was computed from. *)
THEOREM SignatureReplaysChain == Spec => []MasksReplayChain
<1>1. ChainInv => MasksReplayChain
  BY DEF ChainInv
<1> QED
  BY <1>1, ChainInvariant, PTL

(* The net mask of a chain of any length is the mutation between its ends. *)
THEOREM NetMaskTelescopes == Spec => []NetIsEndToEnd
<1>1. ChainInv => NetIsEndToEnd
  BY DEF ChainInv
<1> QED
  BY <1>1, ChainInvariant, PTL

(* The cumulative distance exceeds the net distance by an even number. *)
THEOREM DetoursCountTwice == Spec => []DetoursAreEven
<1>1. ChainInv => DetoursAreEven
  BY DEF ChainInv
<1> QED
  BY <1>1, ChainInvariant, PTL

LEMMA ChainClassified == TypeOK => ClassificationsAgree
<1> SUFFICES ASSUME TypeOK, Len(states) > 1, NEW stray \in SUBSET {7, 8}
             PROVE  ClassifyBranchless(states[Len(states) - 1] \cup stray, Target)
                      = Encoded(ClassifyPair(states[Len(states) - 1], Target))
  BY DEF ClassificationsAgree
<1> DEFINE source == states[Len(states) - 1]
<1>1. Len(states) - 1 \in 1..Len(states) /\ Len(states) \in 1..Len(states)
  BY DEF TypeOK
<1>2. source \in States64 /\ Target \in States64
  BY <1>1, ElementOfSeq DEF TypeOK, Target
<1> HIDE DEF source
<1>3. source \cup stray \in SUBSET (1..8) /\ Target \in SUBSET (1..8)
  BY <1>2 DEF States64, Positions
<1>4. (source \cup stray) \cap Positions = source /\ Target \cap Positions = Target
  <2>1. \A b \in stray : b \notin Positions
    BY DEF Positions
  <2>2. source \subseteq Positions /\ Target \subseteq Positions
    BY <1>2 DEF States64
  <2> QED
    BY <2>1, <2>2
<1> QED
  BY <1>3, <1>4, TablesMirrorReference DEF source

(* Whatever chain is observed, its last transition has in the tables of the *)
(* Rust core the row of the reference classification, high bits or not.     *)
THEOREM ChainsAreClassifiedAlike == Spec => []ClassificationsAgree
BY ChainTypeCorrect, ChainClassified, PTL

-----------------------------------------------------------------------------
(* A set of numbers that holds a number has a least one.                    *)
LEMMA LeastNatural ==
  ASSUME NEW S \in SUBSET Nat, S # {}
  PROVE  \E n \in S : \A m \in S : n <= m
<1> DEFINE R == OpToRel(<, Nat)
<1>1. \A x, y \in Nat : <<x, y>> \in R <=> x < y
  BY DEF OpToRel
<1>2. IsWellFoundedOn(R, Nat)
  BY NatLessThanWellFounded
<1> HIDE DEF R
<1>3. PICK n \in S : \A m \in S : ~ (<<m, n>> \in R)
  BY <1>2, WFMin
<1>4. ASSUME NEW m \in S PROVE n <= m
  <2>1. m \in Nat /\ n \in Nat /\ ~ (<<m, n>> \in R)
    BY <1>3
  <2>2. ~ (m < n)
    BY <1>1, <2>1
  <2> QED
    BY <2>1, <2>2
<1> QED
  BY <1>4

(* Induction over the numbers, as a fact about a set of them.               *)
LEMMA NatSetInduction ==
  ASSUME NEW S, 0 \in S, \A n \in Nat : n \in S => n + 1 \in S
  PROVE  Nat \subseteq S
<1> SUFFICES ASSUME Nat \ S # {} PROVE FALSE
  OBVIOUS
<1>1. PICK n \in Nat \ S : \A m \in Nat \ S : n <= m
  BY LeastNatural
<1>2. n # 0 /\ n - 1 \in Nat /\ n - 1 \notin Nat \ S
  BY <1>1
<1> QED
  BY <1>1, <1>2

-----------------------------------------------------------------------------
\* The sum that a chain's distances are added up to, pair by pair.
Adds(masks, sum) ==
  sum = [i \in 0..Len(masks) |-> IF i = 0 THEN 0 ELSE sum[i - 1] + Cardinality(masks[i])]

\* The net mask that they are folded into.
Folds(masks, net) ==
  net = [i \in 0..Len(masks) |-> IF i = 0 THEN {} ELSE MutationBetween(net[i - 1], masks[i])]

\* What is left of both in the end.
SumOf(masks) == (CHOOSE sum : Adds(masks, sum))[Len(masks)]

NetOf(masks) == (CHOOSE net : Folds(masks, net))[Len(masks)]

(* Whatever the masks are, their distances have a sum: the recursion of     *)
(* lib.rs is well defined on every length.                                  *)
LEMMA SumsExist ==
  ASSUME NEW masks, Len(masks) \in Nat
  PROVE  \E sum : Adds(masks, sum)
<1> DEFINE n == Len(masks)
           Partial(m, g) == g = [i \in 0..n |-> IF i = 0 THEN 0
                                                ELSE IF i <= m THEN g[i - 1] + Cardinality(masks[i])
                                                ELSE 0]
           Good == {m \in Nat : \E g : Partial(m, g)}
<1>1. 0 \in Good
  <2>1. Partial(0, [i \in 0..n |-> 0])
    OBVIOUS
  <2> HIDE DEF Partial
  <2> QED
    BY <2>1
<1>2. ASSUME NEW m \in Nat, m \in Good PROVE m + 1 \in Good
  <2>1. PICK g : Partial(m, g)
    <3> HIDE DEF Partial
    <3> QED
      BY <1>2
  <2> DEFINE h == [i \in 0..n |-> IF i = m + 1 THEN g[m] + Cardinality(masks[i]) ELSE g[i]]
  <2>2. ASSUME NEW i \in 0..n
        PROVE  h[i] = IF i = 0 THEN 0
                      ELSE IF i <= m + 1 THEN h[i - 1] + Cardinality(masks[i]) ELSE 0
    <3>1. g[i] = IF i = 0 THEN 0 ELSE IF i <= m THEN g[i - 1] + Cardinality(masks[i]) ELSE 0
      BY <2>1
    <3>2. CASE i = 0
      BY <3>1, <3>2
    <3>3. CASE i # 0 /\ i <= m
      <4>1. i - 1 \in 0..n /\ i # m + 1 /\ i - 1 # m + 1
        BY <3>3
      <4>2. h[i] = g[i] /\ h[i - 1] = g[i - 1]
        BY <4>1
      <4> QED
        BY <3>1, <3>3, <4>2
    <3>4. CASE i = m + 1
      <4>1. i - 1 = m /\ m \in 0..n /\ m # m + 1
        BY <3>4
      <4>2. h[i] = g[m] + Cardinality(masks[i]) /\ h[i - 1] = g[m]
        BY <3>4, <4>1
      <4> QED
        BY <3>4, <4>2
    <3>5. CASE i > m + 1
      BY <3>1, <3>5
    <3> QED
      BY <3>2, <3>3, <3>4, <3>5
  <2>3. Partial(m + 1, h)
    BY <2>2
  <2> HIDE DEF Partial
  <2> QED
    BY <2>3
<1>3. n \in Good
  <2> HIDE DEF Good
  <2> QED
    BY <1>1, <1>2, NatSetInduction
<1>4. PICK g : Partial(n, g)
  <2> HIDE DEF Partial
  <2> QED
    BY <1>3
<1>5. Adds(masks, g)
  BY <1>4 DEF Adds
<1> QED
  BY <1>5

(* One more mask adds its distance.                                         *)
LEMMA SumGrows ==
  ASSUME NEW masks, NEW n \in Nat, Len(masks) = n, NEW later, Len(later) = n + 1,
         \A i \in 1..n : later[i] = masks[i]
  PROVE  SumOf(later) = SumOf(masks) + Cardinality(later[n + 1])
<1>1. PICK f : f = CHOOSE sum : Adds(masks, sum)
  OBVIOUS
<1>2. PICK g : g = CHOOSE sum : Adds(later, sum)
  OBVIOUS
<1>3. Adds(masks, f)
  BY <1>1, SumsExist
<1>4. Adds(later, g)
  BY <1>2, SumsExist
<1>5. \A i \in 0..n : f[i] = IF i = 0 THEN 0 ELSE f[i - 1] + Cardinality(masks[i])
  BY <1>3 DEF Adds
<1>6. \A i \in 0..(n + 1) : g[i] = IF i = 0 THEN 0 ELSE g[i - 1] + Cardinality(later[i])
  BY <1>4 DEF Adds
<1> DEFINE Good == {m \in Nat : m <= n => f[m] = g[m]}
<1>7. 0 \in Good
  BY <1>5, <1>6
<1>8. ASSUME NEW m \in Nat, m \in Good PROVE m + 1 \in Good
  <2> SUFFICES ASSUME m + 1 <= n PROVE f[m + 1] = g[m + 1]
    OBVIOUS
  <2>1. m + 1 \in 1..n /\ m + 1 \in 0..n /\ m + 1 \in 0..(n + 1) /\ (m + 1) - 1 = m /\ m <= n
    OBVIOUS
  <2>2. f[m] = g[m] /\ later[m + 1] = masks[m + 1]
    BY <1>8, <2>1
  <2>3. f[m + 1] = f[m] + Cardinality(masks[m + 1])
    BY <1>5, <2>1
  <2>4. g[m + 1] = g[m] + Cardinality(later[m + 1])
    BY <1>6, <2>1
  <2> QED
    BY <2>2, <2>3, <2>4
<1>9. f[n] = g[n]
  <2>1. n \in Good
    <3> HIDE DEF Good
    <3> QED
      BY <1>7, <1>8, NatSetInduction
  <2> QED
    BY <2>1
<1>10. g[n + 1] = g[n] + Cardinality(later[n + 1])
  <2>1. n + 1 \in 0..(n + 1) /\ (n + 1) - 1 = n /\ n + 1 # 0
    OBVIOUS
  <2> QED
    BY <1>6, <2>1
<1> QED
  BY <1>1, <1>2, <1>9, <1>10 DEF SumOf

(* No masks, no distance.                                                   *)
LEMMA SumOfNone == SumOf(<<>>) = 0
<1>1. Len(<<>>) = 0
  BY EmptySeq
<1>2. PICK f : f = CHOOSE sum : Adds(<<>>, sum)
  OBVIOUS
<1>3. Adds(<<>>, f)
  BY <1>1, <1>2, SumsExist
<1> QED
  BY <1>1, <1>2, <1>3 DEF SumOf, Adds

(* The net mask of a chain telescopes.                                      *)
LEMMA NetTelescopes ==
  ASSUME NEW masks, NEW n \in Nat, Len(masks) = n, NEW chain,
         \A i \in 1..n : masks[i] = MutationBetween(chain[i], chain[i + 1])
  PROVE  NetOf(masks) = MutationBetween(chain[1], chain[n + 1])
<1> DEFINE ends == [i \in 0..n |-> MutationBetween(chain[1], chain[i + 1])]
<1>1. Folds(masks, ends)
  <2>1. ASSUME NEW i \in 1..n
        PROVE  ends[i] = MutationBetween(ends[i - 1], masks[i])
    <3>1. i - 1 \in 0..n /\ i \in 0..n /\ (i - 1) + 1 = i
      OBVIOUS
    <3>2. ends[i] = MutationBetween(chain[1], chain[i + 1])
          /\ ends[i - 1] = MutationBetween(chain[1], chain[i])
      BY <3>1
    <3> HIDE DEF ends
    <3> QED
      BY <3>2 DEF MutationBetween
  <2>2. ends[0] = {}
    BY DEF MutationBetween
  <2>3. \A i \in 0..n : i = 0 \/ i \in 1..n
    OBVIOUS
  <2>4. ends = [i \in 0..n |-> ends[i]]
    OBVIOUS
  <2> HIDE DEF ends
  <2>5. \A i \in 0..n : ends[i] = IF i = 0 THEN {} ELSE MutationBetween(ends[i - 1], masks[i])
    BY <2>1, <2>2, <2>3
  <2> QED
    BY <2>4, <2>5 DEF Folds
<1>2. PICK net : net = CHOOSE fold : Folds(masks, fold)
  OBVIOUS
<1>3. Folds(masks, net)
  BY <1>1, <1>2
<1>4. \A i \in 0..n : net[i] = IF i = 0 THEN {} ELSE MutationBetween(net[i - 1], masks[i])
  BY <1>3 DEF Folds
<1>5. \A i \in 0..n : ends[i] = IF i = 0 THEN {} ELSE MutationBetween(ends[i - 1], masks[i])
  <2> HIDE DEF ends
  <2> QED
    BY <1>1 DEF Folds
<1> HIDE DEF ends
<1> DEFINE Good == {m \in Nat : m <= n => net[m] = ends[m]}
<1>6. 0 \in Good
  BY <1>4, <1>5
<1>7. ASSUME NEW m \in Nat, m \in Good PROVE m + 1 \in Good
  <2> SUFFICES ASSUME m + 1 <= n PROVE net[m + 1] = ends[m + 1]
    OBVIOUS
  <2>1. m + 1 \in 0..n /\ (m + 1) - 1 = m /\ m <= n /\ m + 1 # 0
    OBVIOUS
  <2> QED
    BY <1>4, <1>5, <1>7, <2>1
<1>8. net[n] = ends[n]
  <2>1. n \in Good
    <3> HIDE DEF Good
    <3> QED
      BY <1>6, <1>7, NatSetInduction
  <2> QED
    BY <2>1
<1>9. ends[n] = MutationBetween(chain[1], chain[n + 1])
  BY DEF ends
<1> QED
  BY <1>2, <1>8, <1>9 DEF NetOf

\* The accumulated distance is the sum over the masks.
SumInv == cumulativeDistance = SumOf(orderedMutationMasks)

\* The inductive invariant of a chain with what it is summed up to.
CompressionInv == ChainInv /\ SumInv

(* What is accumulated observation by observation (cumulativeDistance of    *)
(* compressState64Chain) is the sum over the ordered masks that             *)
(* compress_chain64 adds up in one pass: ChainInv and this sum together are *)
(* inductive, for chains of every length.                                   *)
THEOREM CompressionInvariant == Spec => []CompressionInv
<1>1. Init => SumInv
  BY SumOfNone DEF Init, SumInv
<1>2. ChainInv /\ SumInv /\ [Next]_vars => SumInv'
  <2> SUFFICES ASSUME ChainInv, SumInv, [Next]_vars PROVE SumInv'
    OBVIOUS
  <2>1. CASE UNCHANGED vars
    BY <2>1 DEF vars, SumInv
  <2>2. CASE Next
    <3>1. PICK target \in States64 : Fold(target)
      BY <2>2 DEF Next
    <3>2. PICK mask : mask = MutationBetween(Target, target)
      OBVIOUS
    <3>3. PICK n \in Nat : n = Len(orderedMutationMasks)
      BY LenProperties DEF ChainInv, TypeOK
    <3>4. PICK later : later = orderedMutationMasks'
      OBVIOUS
    <3>5. later = Append(orderedMutationMasks, mask)
          /\ cumulativeDistance' = cumulativeDistance + Cardinality(mask)
      BY <3>1, <3>2, <3>4 DEF Fold
    <3>6. mask \in States64
      <4>1. Target \in States64
        BY EmptySeq, LenProperties, ElementOfSeq DEF ChainInv, TypeOK, Target
      <4> QED
        BY <3>2, <4>1, MutationIsMask
    <3>7. /\ Len(later) = n + 1 /\ later[n + 1] = mask
          /\ \A i \in 1..n : later[i] = orderedMutationMasks[i]
      BY <3>3, <3>5, <3>6, AppendProperties DEF ChainInv, TypeOK
    <3>8. SumOf(later) = SumOf(orderedMutationMasks) + Cardinality(mask)
      BY <3>3, <3>7, SumGrows
    <3> QED
      BY <3>4, <3>5, <3>8 DEF SumInv
  <2> QED
    BY <2>1, <2>2
<1> QED
  BY <1>1, <1>2, ChainInvariant, PTL DEF Spec, CompressionInv

\* The masks between neighbouring bytes.
MasksOf(bytes) == [i \in 1..(Len(bytes) - 1) |-> MutationBetween(bytes[i], bytes[i + 1])]

(* What compress_chain64 gives for bytes that are states, in the sum and    *)
(* the fold over their masks.                                               *)
LEMMA CompressedChain ==
  ASSUME NEW bytes, Len(bytes) \in Nat, Len(bytes) >= 2,
         \A i \in DOMAIN bytes : IsValidState64(bytes[i])
  PROVE  CompressChain64(bytes) =
           Ok([source |-> bytes[1], target |-> bytes[Len(bytes)],
               net_mutation_mask |-> NetOf(MasksOf(bytes)),
               cumulative_distance |-> SumOf(MasksOf(bytes)),
               transition_count |-> Len(MasksOf(bytes))])
<1>1. ~(Len(bytes) < 2) /\ ~\E i \in DOMAIN bytes : ~IsValidState64(bytes[i])
  OBVIOUS
<1> QED
  BY <1>1, Zenon DEF CompressChain64, NetOf, SumOf, Folds, Adds, MasksOf

(* However the chain is handed over, the Rust core folds it to what has     *)
(* been accumulated observation by observation.                             *)
LEMMA CoreFoldsTheChain ==
  ASSUME CompressionInv, Len(states) > 1
  PROVE  CompressChain64(states) =
           Ok([source |-> Source, target |-> Target, net_mutation_mask |-> netMutationMask,
               cumulative_distance |-> cumulativeDistance,
               transition_count |-> Len(orderedMutationMasks)])
<1>1. PICK n \in Nat : n = Len(orderedMutationMasks)
  BY LenProperties DEF CompressionInv, ChainInv, TypeOK
<1>2. PICK masks : masks = orderedMutationMasks
  OBVIOUS
<1>3. /\ states \in Seq(States64) /\ Len(states) = n + 1 /\ masks \in Seq(States64)
      /\ DOMAIN states = 1..(n + 1) /\ masks = [i \in 1..n |-> masks[i]] /\ Len(masks) = n
  <2>1. states \in Seq(States64) /\ Len(states) = n + 1 /\ masks \in Seq(States64)
    BY <1>1, <1>2 DEF CompressionInv, ChainInv, TypeOK, MasksReplayChain
  <2> QED
    BY <1>1, <1>2, <2>1, LenProperties
<1>4. ASSUME NEW i \in 1..(n + 1) PROVE states[i] \in States64 /\ IsValidState64(states[i])
  <2>1. states[i] \in States64
    BY <1>3
  <2> QED
    BY <2>1 DEF States64, IsValidState64
<1>5. ASSUME NEW i \in 1..n PROVE masks[i] = MutationBetween(states[i], states[i + 1])
  <2>1. states[i + 1] = MutationBetween(states[i], masks[i])
    BY <1>1, <1>2 DEF CompressionInv, ChainInv, MasksReplayChain
  <2> QED
    BY <2>1 DEF MutationBetween
<1>6. masks = MasksOf(states)
  <2>1. Len(states) - 1 = n
    BY <1>3
  <2> QED
    BY <1>3, <1>5, <2>1 DEF MasksOf
<1>7. NetOf(masks) = MutationBetween(states[1], states[n + 1])
  <2>1. PICK chain : chain = states
    OBVIOUS
  <2>2. \A i \in 1..n : masks[i] = MutationBetween(chain[i], chain[i + 1])
    BY <1>5, <2>1
  <2>3. NetOf(masks) = MutationBetween(chain[1], chain[n + 1])
    BY <1>3, <2>2, NetTelescopes
  <2> QED
    BY <2>1, <2>3
<1>8. netMutationMask = NetOf(masks) /\ cumulativeDistance = SumOf(masks)
  BY <1>2, <1>3, <1>7 DEF CompressionInv, ChainInv, NetIsEndToEnd, Source, Target, SumInv
<1>9. CompressChain64(states) =
        Ok([source |-> states[1], target |-> states[Len(states)], net_mutation_mask |-> NetOf(masks),
            cumulative_distance |-> SumOf(masks), transition_count |-> Len(masks)])
  <2>1. \A i \in DOMAIN states : IsValidState64(states[i])
    BY <1>3, <1>4
  <2>2. Len(states) \in Nat /\ Len(states) >= 2
    BY <1>3
  <2> QED
    BY <1>6, <2>1, <2>2, CompressedChain
<1> QED
  BY <1>2, <1>8, <1>9 DEF Source, Target

(* The number of a state has six bits.                                      *)
LEMMA NumbersOfStates ==
  ASSUME NEW s
  PROVE  NumberOf(s) \in 0..63
BY DEF NumberOf

\* The numbers that a slot is wide enough for.
Bound == [source |-> 63, target |-> 63, mutationMask |-> 63, distance |-> 7, lowerDistance |-> 3,
          upperDistance |-> 3, moduleScope |-> 3, regimeClass |-> 7, index |-> 4095]

(* Every field of an entry is a number that its slot is wide enough for.    *)
LEMMA EntriesFit ==
  ASSUME NEW s \in States64, NEW t \in States64
  PROVE  \A f \in DOMAIN Slots :
           Transition64Entry(s, t)[f] \in Nat /\ Transition64Entry(s, t)[f] <= Bound[f]
<1> DEFINE mask == MutationBetween(s, t)
           row == RowOf(mask)
           entry == Transition64Entry(s, t)
<1>1. mask \in States64
  BY MutationIsMask
<1>2. Cardinality(mask) \in 0..6
  BY <1>1, StatesAreFinite
<1>3. ASSUME NEW module, module = LowerModule \/ module = UpperModule
      PROVE  Cardinality(mask \cap module) \in 0..3
  <2>1. IsFiniteSet(module) /\ Cardinality(module) = 3
    <3>1. /\ IsFiniteSet(1..3) /\ Cardinality(1..3) = IF 1 > 3 THEN 0 ELSE 3 - 1 + 1
          /\ IsFiniteSet(4..6) /\ Cardinality(4..6) = IF 4 > 6 THEN 0 ELSE 6 - 4 + 1
      BY 1 \in Int, 3 \in Int, 4 \in Int, 6 \in Int, FS_Interval
    <3>2. Cardinality(1..3) = 3 /\ Cardinality(4..6) = 3
      BY <3>1
    <3> QED
      BY <1>3, <3>1, <3>2 DEF LowerModule, UpperModule
  <2>2. IsFiniteSet(mask \cap module) /\ Cardinality(mask \cap module) <= 3
    BY <2>1, FS_Subset
  <2> QED
    BY <2>2, FS_CardinalityType
<1>4. NumberOf(s) \in 0..63 /\ NumberOf(t) \in 0..63 /\ NumberOf(mask) \in 0..63
  BY NumbersOfStates
<1>5. TransitionIndex(s, t) \in 0..4095
  BY <1>4 DEF TransitionIndex
<1>6. PICK lower \in 0..3 : lower = Cardinality(mask \cap LowerModule)
  BY <1>3
<1>7. PICK upper \in 0..3 : upper = Cardinality(mask \cap UpperModule)
  BY <1>3
<1>8. PICK distance \in 0..6 : distance = Cardinality(mask)
  BY <1>2
<1>9. row = [mutationMask |-> NumberOf(mask), distance |-> distance, lowerDistance |-> lower,
             upperDistance |-> upper, moduleScope |-> ScopeFromDistances(lower, upper),
             regimeClass |-> RegimeFromDistances(distance, lower, upper)]
  BY <1>6, <1>7, <1>8 DEF RowOf
<1>10. ScopeFromDistances(lower, upper) \in 0..3 /\ RegimeFromDistances(distance, lower, upper) \in 0..5
  BY DEF ScopeFromDistances, RegimeFromDistances
<1> HIDE DEF mask, row
<1>11. DOMAIN Slots = {"source", "target", "mutationMask", "distance", "lowerDistance",
                       "upperDistance", "moduleScope", "regimeClass", "index"}
  BY DEF Slots
<1>12. /\ entry["source"] = NumberOf(s) /\ entry["target"] = NumberOf(t)
       /\ entry["index"] = TransitionIndex(s, t)
       /\ \A f \in DOMAIN Slots \ {"source", "target", "index"} : entry[f] = row[f]
  BY <1>11 DEF Transition64Entry, row, mask
<1> HIDE DEF entry
<1>13. /\ entry["mutationMask"] = NumberOf(mask) /\ entry["distance"] = distance
       /\ entry["lowerDistance"] = lower /\ entry["upperDistance"] = upper
       /\ entry["moduleScope"] = ScopeFromDistances(lower, upper)
       /\ entry["regimeClass"] = RegimeFromDistances(distance, lower, upper)
  BY <1>9, <1>11, <1>12
<1> SUFFICES \A f \in DOMAIN Slots : entry[f] \in Nat /\ entry[f] <= Bound[f]
  BY DEF entry
<1>14. /\ entry["source"] \in 0..63 /\ entry["target"] \in 0..63 /\ entry["index"] \in 0..4095
       /\ entry["mutationMask"] \in 0..63 /\ entry["distance"] \in 0..6
       /\ entry["lowerDistance"] \in 0..3 /\ entry["upperDistance"] \in 0..3
       /\ entry["moduleScope"] \in 0..3 /\ entry["regimeClass"] \in 0..5
  BY <1>4, <1>5, <1>10, <1>12, <1>13
<1>15. /\ Bound["source"] = 63 /\ Bound["target"] = 63 /\ Bound["index"] = 4095
       /\ Bound["mutationMask"] = 63 /\ Bound["distance"] = 7
       /\ Bound["lowerDistance"] = 3 /\ Bound["upperDistance"] = 3
       /\ Bound["moduleScope"] = 3 /\ Bound["regimeClass"] = 7
  BY DEF Bound
<1> QED
  <2> TAKE f \in DOMAIN Slots
  <2>1. CASE f \in {"source", "target"}
    BY <1>14, <1>15, <2>1
  <2>4. CASE f = "index"
    <3>1. PICK n : n = entry["index"]
      OBVIOUS
    <3>2. n \in 0..4095
      BY <1>14, <3>1
    <3>3. n \in Nat /\ n <= 4095
      BY <3>2
    <3>4. entry[f] = n /\ Bound[f] = 4095
      BY <1>15, <2>4, <3>1
    <3> QED
      BY <3>3, <3>4
  <2>2. CASE f \in {"mutationMask", "distance", "lowerDistance"}
    BY <1>14, <1>15, <2>2
  <2>3. CASE f \in {"upperDistance", "moduleScope", "regimeClass"}
    BY <1>14, <1>15, <2>3
  <2> QED
    BY <1>11, <2>1, <2>2, <2>3, <2>4

\* Where a slot begins and how wide it is.
LEMMA SlotsOfFields ==
  /\ DOMAIN Slots = {"source", "target", "mutationMask", "distance", "lowerDistance",
                     "upperDistance", "moduleScope", "regimeClass", "index"}
  /\ Slots["source"][1] = 0 /\ Slots["source"][2] = 6
  /\ Slots["target"][1] = 6 /\ Slots["target"][2] = 6
  /\ Slots["mutationMask"][1] = 12 /\ Slots["mutationMask"][2] = 6
  /\ Slots["distance"][1] = 18 /\ Slots["distance"][2] = 3
  /\ Slots["lowerDistance"][1] = 21 /\ Slots["lowerDistance"][2] = 2
  /\ Slots["upperDistance"][1] = 23 /\ Slots["upperDistance"][2] = 2
  /\ Slots["moduleScope"][1] = 25 /\ Slots["moduleScope"][2] = 2
  /\ Slots["regimeClass"][1] = 27 /\ Slots["regimeClass"][2] = 3
  /\ Slots["index"][1] = 30 /\ Slots["index"][2] = 12
BY DEF Slots

(* No two slots share a bit, and no slot reaches bit 42.                    *)
LEMMA SlotsAreApart ==
  /\ \A f \in DOMAIN Slots : Slots[f][1] \in Nat /\ Slots[f][2] \in 1..12
                             /\ Slots[f][1] + Slots[f][2] <= 42
  /\ \A f, g \in DOMAIN Slots : \/ f = g
                                \/ Slots[f][1] + Slots[f][2] <= Slots[g][1]
                                \/ Slots[g][1] + Slots[g][2] <= Slots[f][1]
<1>1. \A f \in DOMAIN Slots : Slots[f][1] \in Nat /\ Slots[f][2] \in 1..12
                              /\ Slots[f][1] + Slots[f][2] <= 42
  BY SlotsOfFields
<1>2. \A f, g \in DOMAIN Slots : \/ f = g
                                 \/ Slots[f][1] + Slots[f][2] <= Slots[g][1]
                                 \/ Slots[g][1] + Slots[g][2] <= Slots[f][1]
  BY SlotsOfFields
<1> QED
  BY <1>1, <1>2

(* A number that a slot is wide enough for has no digit beyond it.          *)
LEMMA NoDigitBeyond ==
  ASSUME NEW f \in DOMAIN Slots, NEW n \in Nat, n <= Bound[f],
         NEW b \in 0..15, Digit(n, b) = 1
  PROVE  b < Slots[f][2]
<1>1. CASE n <= 3 /\ Slots[f][2] = 2
  BY <1>1 DEF Digit, Weights
<1>2. CASE n <= 7 /\ Slots[f][2] = 3
  BY <1>2 DEF Digit, Weights
<1>3. CASE n <= 63 /\ Slots[f][2] = 6
  BY <1>3 DEF Digit, Weights
<1>4. CASE n <= 4095 /\ Slots[f][2] = 12
  BY <1>4 DEF Digit, Weights
<1> QED
  BY <1>1, <1>2, <1>3, <1>4, SlotsOfFields DEF Bound

(* What is read from a slot of a packed word is the field that was put      *)
(* there.                                                                   *)
LEMMA WordDecodes ==
  ASSUME NEW s \in States64, NEW t \in States64, NEW entry, entry = Transition64Entry(s, t),
         NEW f \in DOMAIN Slots
  PROVE  {b \in 0..(Slots[f][2] - 1) : Slots[f][1] + b \in Pack(entry)} = BitsOf(entry[f], 16)
<1>1. entry[f] \in Nat /\ entry[f] <= Bound[f]
  BY EntriesFit
<1>2. ASSUME NEW b \in 0..(Slots[f][2] - 1)
      PROVE  Slots[f][1] + b \in Pack(entry) <=> Digit(entry[f], b) = 1
  <2>1. ASSUME NEW g \in DOMAIN Slots, NEW c \in 0..(Slots[g][2] - 1),
               Slots[g][1] + c = Slots[f][1] + b
        PROVE  g = f /\ c = b
    BY <2>1, SlotsAreApart
  <2>2. ASSUME Slots[f][1] + b \in Pack(entry) PROVE Digit(entry[f], b) = 1
    <3>1. PICK g \in DOMAIN Slots : \E c \in BitsOf(entry[g], Slots[g][2]) :
                                      Slots[g][1] + c = Slots[f][1] + b
      BY <2>2 DEF Pack
    <3>2. PICK c \in BitsOf(entry[g], Slots[g][2]) : Slots[g][1] + c = Slots[f][1] + b
      BY <3>1
    <3>3. c \in 0..(Slots[g][2] - 1) /\ Digit(entry[g], c) = 1
      BY DEF BitsOf
    <3> QED
      BY <2>1, <3>2, <3>3
  <2>3. ASSUME Digit(entry[f], b) = 1 PROVE Slots[f][1] + b \in Pack(entry)
    <3>1. b \in BitsOf(entry[f], Slots[f][2])
      BY <2>3 DEF BitsOf
    <3> QED
      BY <3>1 DEF Pack
  <2> QED
    BY <2>2, <2>3
<1>3. \A b \in 0..(16 - 1) : Digit(entry[f], b) = 1 => b \in 0..(Slots[f][2] - 1)
  BY <1>1, NoDigitBeyond, SlotsAreApart
<1>4. \A b \in 0..(Slots[f][2] - 1) : b \in 0..(16 - 1)
  BY SlotsAreApart
<1> QED
  BY <1>2, <1>3, <1>4 DEF BitsOf

(* Bit 63 is in no packed word.                                             *)
LEMMA WordsAreNotNoWord ==
  ASSUME NEW entry
  PROVE  Pack(entry) # NoWord
<1>1. 63 \notin Pack(entry)
  <2> SUFFICES ASSUME NEW g \in DOMAIN Slots, NEW c \in BitsOf(entry[g], Slots[g][2])
               PROVE  Slots[g][1] + c # 63
    BY DEF Pack
  <2>1. c \in 0..(Slots[g][2] - 1)
    BY DEF BitsOf
  <2> QED
    BY <2>1, SlotsAreApart
<1> QED
  BY <1>1 DEF NoWord

\* The last transition of a chain is between two states.
LEMMA LastTransition ==
  ASSUME CompressionInv, Len(states) > 1
  PROVE  /\ Len(states) \in Nat /\ Len(orderedMutationMasks) = Len(states) - 1
         /\ states[Len(states) - 1] \in States64 /\ Target \in States64
         /\ orderedMutationMasks[Len(orderedMutationMasks)]
              = MutationBetween(states[Len(states) - 1], Target)
<1>1. PICK n \in Nat : n = Len(orderedMutationMasks)
  BY LenProperties DEF CompressionInv, ChainInv, TypeOK
<1>2. states \in Seq(States64) /\ Len(states) = n + 1
  BY <1>1 DEF CompressionInv, ChainInv, TypeOK, MasksReplayChain
<1>3. n \in 1..n /\ n \in 1..(n + 1) /\ n + 1 \in 1..(n + 1)
  BY <1>2
<1>4. states[n] \in States64 /\ states[n + 1] \in States64
  BY <1>2, <1>3, ElementOfSeq
<1>5. states[n + 1] = MutationBetween(states[n], orderedMutationMasks[n])
  BY <1>1, <1>3 DEF CompressionInv, ChainInv, MasksReplayChain
<1>6. orderedMutationMasks[n] = MutationBetween(states[n], states[n + 1])
  BY <1>5 DEF MutationBetween
<1> QED
  BY <1>1, <1>2, <1>4, <1>6 DEF Target

(* The packed word of the last transition of a chain of any length          *)
(* (pack_transition64) gives every field back, digit by digit.              *)
THEOREM PackedWordsDecode == Spec => []PackedWordDecodes
<1>1. CompressionInv => PackedWordDecodes
  BY LastTransition, WordDecodes DEF PackedWordDecodes
<1> QED
  BY <1>1, CompressionInvariant, PTL

(* The two parts of an answer.                                              *)
LEMMA OkIsAnAnswer == \A value : Ok(value).ok /\ Ok(value).value = value
BY DEF Ok

(* What the entry points answer for any two bytes.                          *)
LEMMA RefusalsShow ==
  ASSUME NEW s, NEW t
  PROVE  RefusalIsTold(s, t)
<1> DEFINE refused == \E byte \in {s, t} : sg64_is_valid_state(byte) = 0
<1> DEFINE told ==
             /\ refused <=> ~(s \cup t \subseteq Positions)
             /\ refused <=> sg64_apply_mutation(s, t) = NoByte
             /\ refused <=> ~ApplyMutation64(s, t).ok
             /\ refused <=> sg64_hamming_distance(s, t) = NoByte
             /\ refused <=> sg64_transition_index(s, t) = NoIndex
             /\ refused <=> sg64_transition_packed(s, t) = NoWord
             /\ refused => ~CompressChain64(<<s, t>>).ok
             /\ ~refused => /\ HammingDistance64(s, t) = Ok(sg64_hamming_distance(s, t))
                            /\ TransitionIndex64(s, t) = Ok(sg64_transition_index(s, t))
<1>2. told => RefusalIsTold(s, t)
  BY DEF RefusalIsTold
<1>3. refused <=> ~IsValidState64(s) \/ ~IsValidState64(t)
  BY DEF sg64_is_valid_state
<1>4. refused <=> ~(s \cup t \subseteq Positions)
  BY <1>3 DEF IsValidState64
<1> HIDE DEF refused
<1>5. ASSUME ~refused PROVE told
  <2>1. /\ IsValidState64(s) /\ IsValidState64(t) /\ s \in States64 /\ t \in States64
    BY <1>3, <1>5 DEF IsValidState64, States64
  <2>2. MutationBetween(s, t) \in States64
    BY <2>1, MutationIsMask
  <2>3. /\ NumberOf(MutationBetween(s, t)) \in 0..63
        /\ NumberOf(s) \in 0..63 /\ NumberOf(t) \in 0..63
    BY NumbersOfStates
  <2>4. Cardinality(MutationBetween(s, t)) \in 0..6
    BY <2>2, StatesAreFinite
  <2>5. TransitionIndex(s, t) \in 0..4095
    BY <2>3 DEF TransitionIndex
  <2>6. sg64_apply_mutation(s, t) # NoByte
    BY <2>1, <2>3 DEF sg64_apply_mutation, NoByte
  <2>7. sg64_hamming_distance(s, t) # NoByte
    BY <2>1, <2>4 DEF sg64_hamming_distance, NoByte
  <2>8. sg64_transition_index(s, t) # NoIndex
    BY <2>1, <2>5 DEF sg64_transition_index, NoIndex
  <2>9. sg64_transition_packed(s, t) # NoWord
    <3>1. LookupTransition64(s, t) = Ok(Transition64Entry(s, t))
      BY <2>1 DEF LookupTransition64, OfStates
    <3>2. LookupTransition64(s, t).ok
      BY <3>1, OkIsAnAnswer
    <3>3. sg64_transition_packed(s, t) = Pack(LookupTransition64(s, t).value)
      BY <3>2 DEF sg64_transition_packed
    <3> QED
      BY <3>3, WordsAreNotNoWord
  <2>10. ApplyMutation64(s, t).ok
    BY <2>1 DEF ApplyMutation64, Ok
  <2>11. HammingDistance64(s, t) = Ok(sg64_hamming_distance(s, t))
    BY <2>1 DEF HammingDistance64, OfStates, sg64_hamming_distance
  <2>12. TransitionIndex64(s, t) = Ok(sg64_transition_index(s, t))
    BY <2>1 DEF TransitionIndex64, OfStates, sg64_transition_index
  <2> QED
    BY <1>4, <1>5, <2>6, <2>7, <2>8, <2>9, <2>10, <2>11, <2>12
<1>6. ASSUME refused PROVE told
  <2>1. ~IsValidState64(s) \/ ~IsValidState64(t)
    BY <1>3, <1>6
  <2>2. sg64_apply_mutation(s, t) = NoByte
    BY <2>1 DEF sg64_apply_mutation
  <2>3. sg64_hamming_distance(s, t) = NoByte
    BY <2>1 DEF sg64_hamming_distance
  <2>4. sg64_transition_index(s, t) = NoIndex
    BY <2>1 DEF sg64_transition_index
  <2>5. sg64_transition_packed(s, t) = NoWord
    <3>1. LookupTransition64(s, t) = Err("InvalidState")
      BY <2>1 DEF LookupTransition64, OfStates
    <3> QED
      BY <3>1 DEF sg64_transition_packed, Err
  <2>6. ~ApplyMutation64(s, t).ok
    BY <2>1 DEF ApplyMutation64, Err
  <2>7. ~CompressChain64(<<s, t>>).ok
    <3>1. PICK bytes : bytes = <<s, t>>
      OBVIOUS
    <3>2. ~(Len(bytes) < 2) /\ \E i \in DOMAIN bytes : ~IsValidState64(bytes[i])
      BY <2>1, <3>1
    <3>3. CompressChain64(bytes) = Err("InvalidState")
      BY <3>2, Zenon DEF CompressChain64
    <3> QED
      BY <3>1, <3>3 DEF Err
  <2> QED
    BY <1>4, <1>6, <2>2, <2>3, <2>4, <2>5, <2>6, <2>7
<1> QED
  BY <1>2, <1>5, <1>6

(* For chains of every length, compress_chain64 gives what was accumulated, *)
(* and the sentinels of the C entry points stand for exactly the refusals:  *)
(* no answer for two states, nor for bytes with stray high bits, is         *)
(* mistaken for one.                                                        *)
THEOREM RefusalsAreTold == Spec => []SentinelsAreNoAnswers
<1>1. CompressionInv => SentinelsAreNoAnswers
  BY CoreFoldsTheChain, RefusalsShow DEF SentinelsAreNoAnswers
<1> QED
  BY <1>1, CompressionInvariant, PTL

\* The digit that a bit of a state stands for.
LEMMA DigitsOfStates ==
  ASSUME NEW s, NEW p \in Positions
  PROVE  Digit(NumberOf(s), 6 - p) = 1 <=> p \in s
<1> DEFINE Bit(position) == IF position \in s THEN 1 ELSE 0
<1>1. \A position : Bit(position) \in 0..1
  OBVIOUS
<1>2. NumberOf(s) = 32 * Bit(1) + 16 * Bit(2) + 8 * Bit(3) + 4 * Bit(4) + 2 * Bit(5) + Bit(6)
  BY DEF NumberOf
<1> HIDE DEF Bit
<1>3. PICK a \in 0..1, b \in 0..1, c \in 0..1, d \in 0..1, e \in 0..1, f \in 0..1 :
        a = Bit(1) /\ b = Bit(2) /\ c = Bit(3) /\ d = Bit(4) /\ e = Bit(5) /\ f = Bit(6)
  BY <1>1
<1>4. PICK n \in Nat : n = NumberOf(s)
  BY NumbersOfStates
<1>5. n = 32 * a + 16 * b + 8 * c + 4 * d + 2 * e + f
  BY <1>2, <1>3, <1>4
<1>6. /\ (n \div 32) % 2 = a /\ (n \div 16) % 2 = b /\ (n \div 8) % 2 = c
      /\ (n \div 4) % 2 = d /\ (n \div 2) % 2 = e /\ (n \div 1) % 2 = f
  BY <1>5
<1>7. /\ Digit(n, 5) = a /\ Digit(n, 4) = b /\ Digit(n, 3) = c
      /\ Digit(n, 2) = d /\ Digit(n, 1) = e /\ Digit(n, 0) = f
  BY <1>6 DEF Digit, Weights
<1>8. Digit(n, 6 - p) = Bit(p)
  BY <1>3, <1>7 DEF Positions
<1> QED
  BY <1>4, <1>8 DEF Bit

(* A state is read back from its number ...                                 *)
LEMMA NumbersRoundTrip ==
  ASSUME NEW s \in States64
  PROVE  StateNumbered(NumberOf(s)) = s
BY DigitsOfStates DEF StateNumbered, States64

(* ... and a number from its state.                                         *)
LEMMA StatesRoundTrip ==
  ASSUME NEW n \in 0..63
  PROVE  StateNumbered(n) \in States64 /\ NumberOf(StateNumbered(n)) = n
<1>1. /\ 1 \in StateNumbered(n) <=> (n \div 32) % 2 = 1
      /\ 2 \in StateNumbered(n) <=> (n \div 16) % 2 = 1
      /\ 3 \in StateNumbered(n) <=> (n \div 8) % 2 = 1
      /\ 4 \in StateNumbered(n) <=> (n \div 4) % 2 = 1
      /\ 5 \in StateNumbered(n) <=> (n \div 2) % 2 = 1
      /\ 6 \in StateNumbered(n) <=> (n \div 1) % 2 = 1
  BY DEF StateNumbered, Positions, Digit, Weights
<1>2. n = 32 * ((n \div 32) % 2) + 16 * ((n \div 16) % 2) + 8 * ((n \div 8) % 2)
            + 4 * ((n \div 4) % 2) + 2 * ((n \div 2) % 2) + ((n \div 1) % 2)
  OBVIOUS
<1>3. \A w \in {1, 2, 4, 8, 16, 32} : (n \div w) % 2 \in 0..1
  OBVIOUS
<1>4. StateNumbered(n) \in States64
  BY DEF StateNumbered, States64
<1>7. PICK S : S = StateNumbered(n)
  OBVIOUS
<1>8. PICK a \in 0..1, b \in 0..1, c \in 0..1, d \in 0..1, e \in 0..1, f \in 0..1 :
        /\ a = (n \div 32) % 2 /\ b = (n \div 16) % 2 /\ c = (n \div 8) % 2
        /\ d = (n \div 4) % 2 /\ e = (n \div 2) % 2 /\ f = (n \div 1) % 2
  BY <1>3
<1>9. /\ 1 \in S <=> a = 1
      /\ 2 \in S <=> b = 1
      /\ 3 \in S <=> c = 1
      /\ 4 \in S <=> d = 1
      /\ 5 \in S <=> e = 1
      /\ 6 \in S <=> f = 1
  BY <1>1, <1>7, <1>8
<1>10. NumberOf(S) = 32 * a + 16 * b + 8 * c + 4 * d + 2 * e + f
  BY <1>9 DEF NumberOf
<1> QED
  BY <1>2, <1>4, <1>7, <1>8, <1>10

\* The entry of a state.
EntryOf(s) == CatalogEntry(s, NumberOf(s))

(* The catalogue lists every state once, at its number.                     *)
LEMMA CatalogueOfStates ==
  /\ DOMAIN Catalogue = 1..64
  /\ \A s \in States64 : NumberOf(s) + 1 \in 1..64 /\ Catalogue[NumberOf(s) + 1] = EntryOf(s)
  /\ \A i \in 1..64 : \E s \in States64 : NumberOf(s) = i - 1 /\ Catalogue[i] = EntryOf(s)
  /\ ToSet(Catalogue) = {EntryOf(s) : s \in States64}
<1>1. DOMAIN Catalogue = 1..64
  BY DEF Catalogue
<1>2. ASSUME NEW s \in States64
      PROVE  NumberOf(s) + 1 \in 1..64 /\ Catalogue[NumberOf(s) + 1] = EntryOf(s)
  <2>1. PICK n \in 0..63 : n = NumberOf(s)
    BY NumbersOfStates
  <2>2. n + 1 \in 1..64 /\ (n + 1) - 1 = n
    OBVIOUS
  <2>3. Catalogue[n + 1] = CatalogEntry(StateNumbered(n), n)
    BY <2>2 DEF Catalogue
  <2> QED
    BY <2>1, <2>2, <2>3, NumbersRoundTrip DEF EntryOf
<1>3. ASSUME NEW i \in 1..64
      PROVE  \E s \in States64 : NumberOf(s) = i - 1 /\ Catalogue[i] = EntryOf(s)
  <2>1. i - 1 \in 0..63
    OBVIOUS
  <2>2. StateNumbered(i - 1) \in States64 /\ NumberOf(StateNumbered(i - 1)) = i - 1
    BY <2>1, StatesRoundTrip
  <2>3. Catalogue[i] = EntryOf(StateNumbered(i - 1))
    BY <2>2 DEF Catalogue, EntryOf
  <2> QED
    BY <2>2, <2>3
<1>4. ToSet(Catalogue) = {EntryOf(s) : s \in States64}
  BY <1>1, <1>2, <1>3 DEF ToSet
<1> QED
  BY <1>1, <1>2, <1>3, <1>4

(* The fields of the entry of a state.                                      *)
LEMMA FieldsOfEntries ==
  ASSUME NEW s
  PROVE  /\ EntryOf(s).state = s /\ EntryOf(s).ordinal = NumberOf(s) + 1
         /\ EntryOf(s).lowerModuleId = LowerOf(s) /\ EntryOf(s).upperModuleId = UpperOf(s)
BY DEF EntryOf, CatalogEntry

(* A state has a single entry under its id, its number and its modules.     *)
LEMMA LookupsFind ==
  ASSUME NEW s \in States64
  PROVE  /\ GetById(s) = {EntryOf(s)}
         /\ GetByOrdinal(NumberOf(s) + 1) = {EntryOf(s)}
         /\ StatesByModulePair(LowerOf(s), UpperOf(s)) = {EntryOf(s)}
<1>1. EntryOf(s) \in ToSet(Catalogue) /\ \A e \in ToSet(Catalogue) : \E t \in States64 : e = EntryOf(t)
  BY CatalogueOfStates
<1>2. GetById(s) = {EntryOf(s)}
  BY <1>1, FieldsOfEntries DEF GetById, Found
<1>3. ASSUME NEW t \in States64, NumberOf(t) + 1 = NumberOf(s) + 1 PROVE t = s
  <2>1. NumberOf(t) = NumberOf(s)
    BY <1>3, NumbersOfStates
  <2> QED
    BY <2>1, NumbersRoundTrip
<1>4. GetByOrdinal(NumberOf(s) + 1) = {EntryOf(s)}
  BY <1>1, <1>3, FieldsOfEntries DEF GetByOrdinal, Found
<1>5. ASSUME NEW t \in States64, LowerOf(t) = LowerOf(s), UpperOf(t) = UpperOf(s) PROVE t = s
  <2>1. \A p \in 1..3 : p \in t <=> p \in s
    BY <1>5 DEF LowerOf, LowerModule
  <2>2. ASSUME NEW p \in 4..6, NEW a, NEW b, UpperOf(a) = UpperOf(b), p \in a PROVE p \in b
    <3>1. p - 3 \in UpperOf(b)
      BY <2>2 DEF UpperOf, UpperModule
    <3>2. PICK q \in b \cap UpperModule : p - 3 = q - 3
      BY <3>1 DEF UpperOf
    <3> QED
      BY <3>2 DEF UpperModule
  <2>3. \A p \in 4..6 : p \in t <=> p \in s
    BY <1>5, <2>2
  <2>4. t \subseteq 1..6 /\ s \subseteq 1..6
    BY DEF States64, Positions
  <2>5. \A p \in 1..6 : p \in 1..3 \/ p \in 4..6
    OBVIOUS
  <2> QED
    BY <2>1, <2>3, <2>4, <2>5
<1>6. StatesByModulePair(LowerOf(s), UpperOf(s)) = {EntryOf(s)}
  BY <1>1, <1>5, FieldsOfEntries DEF StatesByModulePair, Found
<1> QED
  BY <1>2, <1>4, <1>6

\* The place of a module.
ModuleNumber(m) == CHOOSE l \in 0..7 : ModuleCatalogue[l + 1] = m

(* A module has one place in the catalogue: the number its bits make.       *)
LEMMA ModulesNumbered ==
  ASSUME NEW m \in SUBSET (1..3), NEW a \in 0..1, NEW b \in 0..1, NEW c \in 0..1,
         a = 1 <=> 1 \in m, b = 1 <=> 2 \in m, c = 1 <=> 3 \in m
  PROVE  ModuleNumber(m) = 4 * a + 2 * b + c
<1>1. ASSUME NEW l \in 0..7
      PROVE  ModuleCatalogue[l + 1] = m <=> l = 4 * a + 2 * b + c
  <2>1. PICK d \in 0..1, e \in 0..1, f \in 0..1 :
          d = (l \div 4) % 2 /\ e = (l \div 2) % 2 /\ f = (l \div 1) % 2
    OBVIOUS
  <2>2. l = 4 * d + 2 * e + f
    BY <2>1
  <2>3. l + 1 \in 1..8 /\ (l + 1) - 1 = l
    OBVIOUS
  <2>4. ModuleCatalogue[l + 1] = {p \in 1..3 : Digit(l, 3 - p) = 1}
    BY <2>3 DEF ModuleCatalogue
  <2>5. Digit(l, 3 - 1) = d /\ Digit(l, 3 - 2) = e /\ Digit(l, 3 - 3) = f
    BY <2>1 DEF Digit, Weights
  <2>6. /\ 1 \in ModuleCatalogue[l + 1] <=> d = 1
        /\ 2 \in ModuleCatalogue[l + 1] <=> e = 1
        /\ 3 \in ModuleCatalogue[l + 1] <=> f = 1
        /\ ModuleCatalogue[l + 1] \subseteq 1..3
    BY <2>4, <2>5
  <2>7. ModuleCatalogue[l + 1] = m <=> d = a /\ e = b /\ f = c
    <3>1. ModuleCatalogue[l + 1] = m
            <=> \A p \in 1..3 : p \in ModuleCatalogue[l + 1] <=> p \in m
      BY <2>6
    <3>2. \A p : p \in 1..3 <=> p = 1 \/ p = 2 \/ p = 3
      OBVIOUS
    <3> QED
      BY <2>6, <3>1, <3>2
  <2>8. 4 * d + 2 * e + f = 4 * a + 2 * b + c <=> d = a /\ e = b /\ f = c
    OBVIOUS
  <2> QED
    BY <2>2, <2>7, <2>8
<1>2. 4 * a + 2 * b + c \in 0..7
  OBVIOUS
<1>3. PICK n \in 0..7 : n = 4 * a + 2 * b + c
  BY <1>2
<1>4. \A l \in 0..7 : ModuleCatalogue[l + 1] = m <=> l = n
  BY <1>1, <1>3
<1>5. ModuleNumber(m) = n
  BY <1>4 DEF ModuleNumber
<1> QED
  BY <1>3, <1>5

(* The number of a state is made of those of its two modules.               *)
LEMMA NumberOfModules ==
  ASSUME NEW s \in States64
  PROVE  NumberOf(s) = 8 * ModuleNumber(LowerOf(s)) + ModuleNumber(UpperOf(s))
<1>1. ASSUME NEW p PROVE \E i \in 0..1 : i = 1 <=> p \in s
  <2>1. CASE p \in s
    BY <2>1
  <2>2. CASE p \notin s
    BY <2>2
  <2> QED
    BY <2>1, <2>2
<1>2. PICK a \in 0..1, b \in 0..1, c \in 0..1, d \in 0..1, e \in 0..1, f \in 0..1 :
        /\ (a = 1 <=> 1 \in s) /\ (b = 1 <=> 2 \in s) /\ (c = 1 <=> 3 \in s)
        /\ (d = 1 <=> 4 \in s) /\ (e = 1 <=> 5 \in s) /\ (f = 1 <=> 6 \in s)
  BY <1>1
<1>3. NumberOf(s) = 32 * a + 16 * b + 8 * c + 4 * d + 2 * e + f
  BY <1>2 DEF NumberOf
<1>4. /\ LowerOf(s) \in SUBSET (1..3)
      /\ (a = 1 <=> 1 \in LowerOf(s)) /\ (b = 1 <=> 2 \in LowerOf(s)) /\ (c = 1 <=> 3 \in LowerOf(s))
  BY <1>2 DEF LowerOf, LowerModule
<1>5. /\ UpperOf(s) \in SUBSET (1..3)
      /\ (d = 1 <=> 1 \in UpperOf(s)) /\ (e = 1 <=> 2 \in UpperOf(s)) /\ (f = 1 <=> 3 \in UpperOf(s))
  <2>1. ASSUME NEW q \in 1..3 PROVE q \in UpperOf(s) <=> q + 3 \in s
    <3>1. ASSUME q + 3 \in s PROVE q \in UpperOf(s)
      <4>1. q + 3 \in s \cap UpperModule /\ q = (q + 3) - 3
        BY <3>1 DEF UpperModule
      <4> QED
        BY <4>1 DEF UpperOf
    <3>2. ASSUME q \in UpperOf(s) PROVE q + 3 \in s
      <4>1. PICK p \in s \cap UpperModule : q = p - 3
        BY <3>2 DEF UpperOf
      <4>2. p = q + 3
        BY <4>1 DEF UpperModule
      <4> QED
        BY <4>1, <4>2
    <3> QED
      BY <3>1, <3>2
  <2>2. UpperOf(s) \in SUBSET (1..3)
    BY DEF UpperOf, UpperModule
  <2>3. 1 + 3 = 4 /\ 2 + 3 = 5 /\ 3 + 3 = 6
    OBVIOUS
  <2>4. (1 \in UpperOf(s) <=> 4 \in s) /\ (2 \in UpperOf(s) <=> 5 \in s) /\ (3 \in UpperOf(s) <=> 6 \in s)
    BY <2>1, <2>3
  <2> QED
    BY <1>2, <2>2, <2>4
<1>6. ModuleNumber(LowerOf(s)) = 4 * a + 2 * b + c
  BY <1>4, ModulesNumbered
<1>7. ModuleNumber(UpperOf(s)) = 4 * d + 2 * e + f
  BY <1>5, ModulesNumbered
<1> QED
  BY <1>3, <1>6, <1>7

(* The members of a finite set, one by one.                                 *)
LEMMA MembersInOrder ==
  ASSUME NEW S, IsFiniteSet(S)
  PROVE  LET n == Cardinality(S)
             s == SetToSeq(S)
         IN  /\ n \in Nat /\ s \in [1..n -> S]
             /\ \A i, j \in 1..n : s[i] = s[j] => i = j
             /\ \A k \in S : \E i \in 1..n : s[i] = k
<1> DEFINE n == Cardinality(S)
           s == SetToSeq(S)
<1>1. n \in Nat /\ ExistsBijection(1..n, S)
  BY FS_CardinalityType
<1>2. PICK f : f \in Bijection(1..n, S)
  BY <1>1 DEF ExistsBijection
<1>3. f \in [1..n -> S] /\ IsInjective(f)
  BY <1>2 DEF Bijection, Injection, Surjection
<1>4. s \in [1..n -> S] /\ IsInjective(s)
  BY <1>3 DEF SetToSeq
<1> HIDE DEF s
<1>5. s \in Injection(1..n, S)
  BY <1>4 DEF Injection
<1>6. IsFiniteSet(1..n) /\ Cardinality(1..n) = n
  BY <1>1, FS_Interval
<1>7. s \in Surjection(1..n, S)
  BY <1>5, <1>6, FS_Injection
<1>8. \A k \in S : \E i \in 1..n : s[i] = k
  BY <1>7 DEF Surjection
<1>9. \A i, j \in 1..n : s[i] = s[j] => i = j
  BY <1>4 DEF IsInjective
<1> QED
  BY <1>1, <1>4, <1>8, <1>9 DEF s

(* Positions that are each named once, in whatever order, flip their mask;  *)
(* one more of them is refused.                                             *)
LEMMA FlipsInAnyOrder ==
  ASSUME NEW mask \in States64, NEW positions,
         positions \in {SetToSeq(mask), Reverse(SetToSeq(mask))}
  PROVE  /\ AdmitsPositions(positions) /\ ToSet(positions) = mask
         /\ mask # {} => ~AdmitsPositions(Append(positions, positions[1]))
<1>1. PICK n \in Nat : n = Cardinality(mask)
  BY StatesAreFinite
<1>2. PICK f : f = SetToSeq(mask)
  OBVIOUS
<1>3. /\ f \in [1..n -> mask]
      /\ \A i, j \in 1..n : f[i] = f[j] => i = j
      /\ \A k \in mask : \E i \in 1..n : f[i] = k
  BY <1>1, <1>2, MembersInOrder, StatesAreFinite
<1>4. f \in Seq(mask) /\ Len(f) = n
  BY <1>3, SeqDef, LenProperties
<1>5. PICK g : g = Reverse(f)
  OBVIOUS
<1>6. g = [i \in 1..n |-> f[(n - i) + 1]]
  BY <1>4, <1>5 DEF Reverse
<1>7. \A i \in 1..n : (n - i) + 1 \in 1..n
  OBVIOUS
<1>8. /\ g \in [1..n -> mask]
      /\ \A i, j \in 1..n : g[i] = g[j] => i = j
      /\ \A k \in mask : \E i \in 1..n : g[i] = k
  <2>1. g \in [1..n -> mask]
    BY <1>3, <1>6, <1>7
  <2>2. ASSUME NEW i \in 1..n, NEW j \in 1..n, g[i] = g[j] PROVE i = j
    <3>1. (n - i) + 1 = (n - j) + 1
      BY <1>3, <1>6, <1>7, <2>2
    <3> QED
      BY <3>1
  <2>3. ASSUME NEW k \in mask PROVE \E i \in 1..n : g[i] = k
    <3>1. PICK i \in 1..n : f[i] = k
      BY <1>3
    <3>2. (n - i) + 1 \in 1..n /\ (n - ((n - i) + 1)) + 1 = i
      OBVIOUS
    <3> QED
      BY <1>6, <3>1, <3>2
  <2> QED
    BY <2>1, <2>2, <2>3
<1>9. /\ positions \in [1..n -> mask]
      /\ \A i, j \in 1..n : positions[i] = positions[j] => i = j
      /\ \A k \in mask : \E i \in 1..n : positions[i] = k
  <2>1. positions = f \/ positions = g
    BY <1>2, <1>5
  <2>2. CASE positions = f
    BY <1>3, <2>2
  <2>3. CASE positions = g
    BY <1>8, <2>3
  <2> QED
    BY <2>1, <2>2, <2>3
<1>10. ToSet(positions) = mask
  BY <1>9 DEF ToSet
<1>11. AdmitsPositions(positions)
  BY <1>9, <1>10 DEF AdmitsPositions, IsInjective, States64
<1>12. ASSUME mask # {} PROVE ~AdmitsPositions(Append(positions, positions[1]))
  <2>1. n >= 1
    BY <1>9, <1>12
  <2>2. positions[1] \in mask /\ positions \in Seq(mask) /\ Len(positions) = n
    BY <1>9, <2>1, SeqDef, LenProperties
  <2>3. PICK more : more = Append(positions, positions[1])
    OBVIOUS
  <2>4. /\ more \in Seq(mask) /\ Len(more) = n + 1 /\ more[n + 1] = positions[1]
        /\ more[1] = positions[1]
    BY <2>1, <2>2, <2>3, AppendProperties
  <2>5. DOMAIN more = 1..(n + 1)
    BY <2>4, LenProperties
  <2>6. 1 \in DOMAIN more /\ n + 1 \in DOMAIN more /\ 1 # n + 1
    BY <2>1, <2>5
  <2>7. ~IsInjective(more)
    BY <2>4, <2>6 DEF IsInjective
  <2> QED
    BY <2>3, <2>7 DEF AdmitsPositions
<1> QED
  BY <1>10, <1>11, <1>12

(* The elementary neighbours of a state are the states one bit away.        *)
LEMMA NeighboursAreOneAway ==
  ASSUME NEW s \in States64, NEW t \in States64
  PROVE  t \in Range(ElementaryNeighbours(s)) <=> Cardinality(MutationBetween(s, t)) = 1
<1> DEFINE mask == MutationBetween(s, t)
<1>1. \A p \in Positions : t = MutationBetween(s, {p}) <=> mask = {p}
  BY DEF MutationBetween
<1>2. t \in Range(ElementaryNeighbours(s)) <=> \E p \in Positions : t = MutationBetween(s, {p})
  BY DEF Range, ElementaryNeighbours
<1>3. mask \in States64 /\ IsFiniteSet(mask)
  BY MutationIsMask, StatesAreFinite
<1>4. Cardinality(mask) = 1 <=> \E p : mask = {p}
  BY <1>3, FS_Singleton
<1>5. (\E p : mask = {p}) <=> \E p \in Positions : mask = {p}
  BY <1>3 DEF States64
<1> QED
  BY <1>1, <1>2, <1>4, <1>5

(* A bit further away is a bit less similar.                                *)
LEMMA FurtherIsLessSimilar ==
  ASSUME NEW s \in States64, NEW t \in States64, NEW p \in Positions \ MutationBetween(s, t)
  PROVE  StateSimilarity(s, MutationBetween(t, {p})) < StateSimilarity(s, t)
<1> DEFINE mask == MutationBetween(s, t)
           u == MutationBetween(t, {p})
<1>1. u \in States64 /\ mask \in States64 /\ {p} \in States64
  BY MutationIsMask DEF States64
<1>2. MutationBetween(s, u) = mask \cup {p}
  BY DEF MutationBetween
<1>3. ASSUME NEW v \in States64
      PROVE  ModuleDistance(Positions, s, v) = Cardinality(MutationBetween(s, v))
  <2>1. MutationBetween(s, v) \cap Positions = MutationBetween(s, v)
    BY <1>3, MutationIsMask DEF States64
  <2> QED
    BY <1>3, <2>1, ModuleDistanceOfMask
<1>4. Cardinality(mask \cup {p}) = Cardinality(mask) + 1
  BY <1>1, StatesAreFinite, FS_AddElement
<1>5. ModuleDistance(Positions, s, u) = ModuleDistance(Positions, s, t) + 1
      /\ ModuleDistance(Positions, s, t) \in Nat
  BY <1>1, <1>2, <1>3, <1>4, StatesAreFinite
<1>6. p \in s <=> p \in t
  BY DEF MutationBetween
<1>7. LowerOf(s) = LowerOf(u) => LowerOf(s) = LowerOf(t)
  <2>1. CASE p \in LowerModule
    <3>1. p \in LowerOf(u) <=> p \notin LowerOf(s)
      BY <1>6, <2>1 DEF LowerOf, MutationBetween
    <3> QED
      BY <3>1
  <2>2. CASE p \notin LowerModule
    BY <2>2 DEF LowerOf, MutationBetween
  <2> QED
    BY <2>1, <2>2
<1>8. UpperOf(s) = UpperOf(u) => UpperOf(s) = UpperOf(t)
  <2>1. CASE p \in UpperModule
    <3>1. ASSUME NEW v \in States64 PROVE p - 3 \in UpperOf(v) <=> p \in v
      <4>1. ASSUME p - 3 \in UpperOf(v) PROVE p \in v
        <5>1. PICK q \in v \cap UpperModule : p - 3 = q - 3
          BY <4>1 DEF UpperOf
        <5>2. q = p
          BY <2>1, <5>1 DEF UpperModule
        <5> QED
          BY <5>1, <5>2
      <4>2. ASSUME p \in v PROVE p - 3 \in UpperOf(v)
        BY <2>1, <4>2 DEF UpperOf
      <4> QED
        BY <4>1, <4>2
    <3>2. p \in u <=> p \notin s
      BY <1>6 DEF MutationBetween
    <3>3. p - 3 \in UpperOf(u) <=> p - 3 \notin UpperOf(s)
      BY <1>1, <3>1, <3>2
    <3> QED
      BY <3>3
  <2>2. CASE p \notin UpperModule
    <3>1. u \cap UpperModule = t \cap UpperModule
      BY <2>2 DEF MutationBetween
    <3> QED
      BY <3>1 DEF UpperOf
  <2> QED
    BY <2>1, <2>2
<1>9. SharedModuleScore(s, u) <= SharedModuleScore(s, t)
  <2> HIDE DEF u
  <2> QED
    BY <1>7, <1>8 DEF SharedModuleScore
<1>10. \A a, b : SharedModuleScore(a, b) \in 0..2
  BY DEF SharedModuleScore
<1>11. PICK d \in Nat, k \in 0..2, l \in 0..2 :
         /\ d = ModuleDistance(Positions, s, t) /\ ModuleDistance(Positions, s, u) = d + 1
         /\ k = SharedModuleScore(s, u) /\ l = SharedModuleScore(s, t) /\ k <= l
  BY <1>5, <1>9, <1>10
<1>12. StateSimilarity(s, u) = 1250 * (6 - (d + 1) + k) /\ StateSimilarity(s, t) = 1250 * (6 - d + l)
  BY <1>11 DEF StateSimilarity
<1>13. 1250 * (6 - (d + 1) + k) < 1250 * (6 - d + l)
  BY <1>11
<1> QED
  BY <1>12, <1>13

\* A row of the matrix, by its place.
StateAt(k) == Catalogue[k + 1].state

RowAt(i) ==
  [source |-> StateAt((i - 1) \div 64), target |-> StateAt((i - 1) % 64),
   classified |-> ClassifyPair(StateAt((i - 1) \div 64), StateAt((i - 1) % 64))]

(* The matrix has a transition where the core's index says.                 *)
LEMMA MatrixFollowsIndex ==
  ASSUME NEW s \in States64, NEW t \in States64
  PROVE  LET row == TransitionMatrix[TransitionIndex(s, t) + 1]
         IN  row.source = s /\ row.target = t /\ row.classified.mutationMask = MutationBetween(s, t)
<1>1. PICK a \in 0..63, b \in 0..63 : a = NumberOf(s) /\ b = NumberOf(t)
  BY NumbersOfStates
<1>2. PICK i \in 1..(64 * 64) : i = 64 * a + b + 1
  OBVIOUS
<1>3. TransitionIndex(s, t) + 1 = i
  BY <1>1, <1>2 DEF TransitionIndex
<1>4. ((i - 1) \div 64) + 1 = a + 1 /\ ((i - 1) % 64) + 1 = b + 1
  BY <1>2
<1>5. Catalogue[a + 1].state = s /\ Catalogue[b + 1].state = t
  BY <1>1, CatalogueOfStates, FieldsOfEntries
<1>6. TransitionMatrix[i] = [source |-> s, target |-> t, classified |-> ClassifyPair(s, t)]
  <2>1. TransitionMatrix = [j \in 1..(64 * 64) |-> RowAt(j)]
    BY DEF TransitionMatrix, RowAt, StateAt
  <2>2. TransitionMatrix[i] = RowAt(i)
    BY <2>1
  <2>3. StateAt((i - 1) \div 64) = s /\ StateAt((i - 1) % 64) = t
    BY <1>4, <1>5 DEF StateAt
  <2> QED
    BY <2>2, <2>3 DEF RowAt
<1>7. ClassifyPair(s, t).mutationMask = MutationBetween(s, t)
  BY DEF ClassifyPair
<1>8. PICK row : row = TransitionMatrix[i]
  OBVIOUS
<1>9. row.source = s /\ row.target = t /\ row.classified = ClassifyPair(s, t)
  BY <1>6, <1>8
<1>10. TransitionMatrix[TransitionIndex(s, t) + 1] = row
  BY <1>3, <1>8
<1> QED
  BY <1>7, <1>9, <1>10

(* For chains of every length: the adapter's catalogue, modules,            *)
(* transformations, neighbours, similarity and matrix speak of the last     *)
(* transition as the chain and the Rust core's index do.                    *)
THEOREM CatalogueFollows == Spec => []CatalogueFollowsChain
<1>1. CompressionInv => CatalogueFollowsChain
  <2> SUFFICES ASSUME CompressionInv, Len(states) > 1
               PROVE  CatalogueFollowsChain
    BY DEF CatalogueFollowsChain
  <2>1. PICK s \in States64, t \in States64, mask \in States64 :
          /\ s = states[Len(states) - 1] /\ t = Target /\ mask = MutationBetween(s, t)
          /\ mask = orderedMutationMasks[Len(orderedMutationMasks)]
    BY LastTransition, MutationIsMask
  <2> DEFINE flips == SetToSeq(mask)
             entry == Catalogue[NumberOf(s) + 1]
             row == TransitionMatrix[TransitionIndex(s, t) + 1]
  <2>2. entry = EntryOf(s)
    BY CatalogueOfStates
  <2>3. \A found \in {GetById(s), GetByOrdinal(NumberOf(s) + 1),
                      StatesByModulePair(LowerOf(s), UpperOf(s))} : found = {entry}
    BY <2>2, LookupsFind
  <2>4. entry.state = s
    BY <2>2, FieldsOfEntries
  <2>5. NumberOf(s) = 8 * ModuleNumber(entry.lowerModuleId) + ModuleNumber(entry.upperModuleId)
    BY <2>2, FieldsOfEntries, NumberOfModules
  <2>6. ASSUME NEW positions \in {flips, Reverse(flips)}
        PROVE  /\ AdmitsPositions(positions)
               /\ TransformState64(s, positions).target = t
               /\ mask # {} => ~AdmitsPositions(Append(positions, positions[1]))
    <3>1. /\ AdmitsPositions(positions) /\ ToSet(positions) = mask
          /\ mask # {} => ~AdmitsPositions(Append(positions, positions[1]))
      BY <2>6, FlipsInAnyOrder
    <3>2. TransformState64(s, positions).target = MutationBetween(s, mask)
      BY <3>1 DEF TransformState64
    <3>3. MutationBetween(s, mask) = t
      BY <2>1 DEF MutationBetween
    <3> QED
      BY <3>1, <3>2, <3>3
  <2>7. t \in Range(ElementaryNeighbours(s)) <=> Cardinality(mask) = 1
    BY <2>1, NeighboursAreOneAway
  <2>8. \A p \in Positions \ mask : StateSimilarity(s, MutationBetween(t, {p})) < StateSimilarity(s, t)
    BY <2>1, FurtherIsLessSimilar
  <2>9. row.source = s /\ row.target = t /\ row.classified.mutationMask = mask
    BY <2>1, MatrixFollowsIndex
  <2> HIDE DEF flips, entry, row
  <2> QED
    BY <2>1, <2>3, <2>4, <2>5, <2>6, <2>7, <2>8, <2>9, Zenon
       DEF CatalogueFollowsChain, flips, entry, row, ModuleNumber
<1> QED
  BY <1>1, CompressionInvariant, PTL

-----------------------------------------------------------------------------
\* The truth of the nodes of an expression, of which an evaluation takes the first.
Evaluates(truth, expression, snapshot) ==
  truth = [i \in DOMAIN expression |->
            LET node == expression[i]
            IN  IF node.kind = "test"
                THEN Kernel!EvaluatePredicate(node, snapshot)
                ELSE /\ \A j \in node.all : truth[j]
                     /\ node.hasAny => \E j \in node.any : truth[j]
                     /\ \A j \in node.none : ~truth[j]]

(* An expression that reads one parameter is as true of two snapshots that  *)
(* agree on it.                                                             *)
LEMMA EvaluationIsLocal ==
  ASSUME NEW expression, NEW key, ReadsOnly(expression, key),
         NEW P, NEW Q, key \in DOMAIN P, key \in DOMAIN Q, P[key] = Q[key]
  PROVE  Kernel!EvaluatePredicateSet(expression, P) = Kernel!EvaluatePredicateSet(expression, Q)
<1>1. ASSUME NEW i \in DOMAIN expression, expression[i].kind = "test"
      PROVE  Kernel!EvaluatePredicate(expression[i], P) = Kernel!EvaluatePredicate(expression[i], Q)
  <2>1. expression[i].variable = key
    BY <1>1 DEF ReadsOnly
  <2> QED
    BY <2>1 DEF Kernel!EvaluatePredicate
<1>2. ASSUME NEW truth PROVE Evaluates(truth, expression, P) <=> Evaluates(truth, expression, Q)
  BY <1>1, Zenon DEF Evaluates
<1>3. (CHOOSE truth : Evaluates(truth, expression, P)) = (CHOOSE truth : Evaluates(truth, expression, Q))
  BY <1>2, Zenon
<1>4. ASSUME NEW snapshot
      PROVE  Kernel!EvaluatePredicateSet(expression, snapshot)
               = (CHOOSE truth : Evaluates(truth, expression, snapshot))[1]
  BY Zenon DEF Evaluates, Kernel!EvaluatePredicateSet, Kernel!TruthOf
<1> QED
  BY <1>3, <1>4

(* So is the decision of a rule: another parameter never moves its bit.     *)
LEMMA DecisionIsLocal ==
  ASSUME NEW rule, NEW key, ReadsOnly(rule.predicate, key),
         NEW P, NEW Q, key \in DOMAIN P, key \in DOMAIN Q, P[key] = Q[key]
  PROVE  Decision(rule, P) = Decision(rule, Q)
<1>1. Kernel!EvaluatePredicateSet(rule.predicate, P) = Kernel!EvaluatePredicateSet(rule.predicate, Q)
  BY EvaluationIsLocal
<1> QED
  BY <1>1, Zenon DEF Decision

(* A definition that validates names each parameter once, and none of them  *)
(* blank.                                                                   *)
LEMMA KeysAreApart ==
  ASSUME NEW e, ReadsBits(e)
  PROVE  LET d == e.parameterDefinitions
         IN  /\ DOMAIN d = 1..6
             /\ \A i \in 1..6 : d[i].key # Kernel!Blank
             /\ \A i, j \in 1..6 : d[i].key = d[j].key => i = j
<1> DEFINE d == e.parameterDefinitions
<1>1. DOMAIN d = 1..6 /\ Kernel!ValidateParameterDefinitions(d) = {}
  BY DEF ReadsBits
<1> HIDE DEF d
<1>2. ASSUME NEW i \in 1..6, d[i].key = Kernel!Blank PROVE FALSE
  <2>1. Kernel!Issue(d[i].key, "empty") \in Kernel!ValidateParameterDefinitions(d)
    BY <1>1, <1>2 DEF Kernel!ValidateParameterDefinitions, Kernel!Issues
  <2> QED
    BY <1>1, <2>1
<1>3. ASSUME NEW i \in 1..6, NEW j \in 1..(i - 1), d[j].key = d[i].key PROVE FALSE
  <2>1. Kernel!Issue(d[i].key, "repeated") \in Kernel!ValidateParameterDefinitions(d)
    BY <1>1, <1>3 DEF Kernel!ValidateParameterDefinitions, Kernel!Issues
  <2> QED
    BY <1>1, <2>1
<1>4. ASSUME NEW i \in 1..6, NEW j \in 1..6, d[i].key = d[j].key PROVE i = j
  <2>1. i = j \/ j \in 1..(i - 1) \/ i \in 1..(j - 1)
    OBVIOUS
  <2> QED
    BY <1>3, <1>4, <2>1
<1> QED
  BY <1>1, <1>2, <1>4 DEF d

(* Six rules that write six positions write each of them once.              *)
LEMMA RulesAreApart ==
  ASSUME NEW e, ReadsBits(e)
  PROVE  LET r == e.bitRules
         IN  /\ DOMAIN r = 1..6
             /\ \A i \in 1..6 : r[i].position \in Positions
             /\ \A i, j \in 1..6 : r[i].position = r[j].position => i = j
             /\ \A p \in Positions : \E i \in 1..6 : r[i].position = p
<1> DEFINE r == e.bitRules
           f == [i \in 1..6 |-> r[i].position]
<1>1. DOMAIN r = 1..6 /\ {q.position : q \in ToSet(r)} = Positions
  BY DEF ReadsBits, AdmitsRules
<1> HIDE DEF r
<1>2. {r[i].position : i \in 1..6} = Positions
  BY <1>1 DEF ToSet
<1>3. f \in Surjection(1..6, 1..6)
  BY <1>2 DEF Surjection, Positions
<1>4. IsFiniteSet(1..6)
  BY 1 \in Int, 6 \in Int, FS_Interval
<1>5. f \in Injection(1..6, 1..6)
  BY <1>3, <1>4, FS_Surjection
<1>6. \A i, j \in 1..6 : f[i] = f[j] => i = j
  BY <1>5 DEF Injection, IsInjective
<1>7. \A i \in 1..6 : f[i] = r[i].position
  OBVIOUS
<1> HIDE DEF f
<1>8. \A i, j \in 1..6 : r[i].position = r[j].position => i = j
  BY <1>6, <1>7
<1> QED
  BY <1>1, <1>2, <1>8 DEF r

\* The bit at a position of a state.
BitOf(state, position) == IF position \in state THEN 1 ELSE 0

(* What is measured of a state reads as its bits, rule by rule.             *)
LEMMA MeasuredBits ==
  ASSUME NEW e, ReadsBits(e), NEW s
  PROVE  LET m == Measured(e, s)
             d == e.parameterDefinitions
             r == e.bitRules
         IN  /\ DOMAIN m = 1..6 /\ m \in Seq(ToSet(m)) /\ Len(m) = 6
             /\ \A i \in 1..6 :
                  /\ m[i].key = d[i].key /\ m[i].value \in Readings
                  /\ Decision(r[i], [k \in {d[i].key} |-> m[i].value]).value = BitOf(s, r[i].position)
<1> DEFINE m == Measured(e, s)
           d == e.parameterDefinitions
           r == e.bitRules
           read(i) == CHOOSE v \in Readings :
                        Decision(r[i], [k \in {d[i].key} |-> v]).value = BitOf(s, r[i].position)
<1>1. DOMAIN r = 1..6
  BY RulesAreApart
<1>2. m = [i \in 1..6 |-> [key |-> d[i].key, value |-> read(i)]]
  BY <1>1, Zenon DEF Measured, BitOf
<1>3. \A i \in 1..6 : \A bit \in 0..1 : \E v \in Readings :
        Decision(r[i], [k \in {d[i].key} |-> v]).value = bit
  BY DEF ReadsBits
<1>4. \A i \in 1..6 : BitOf(s, r[i].position) \in 0..1
  BY DEF BitOf
<1>5. ASSUME NEW i \in 1..6
      PROVE  /\ read(i) \in Readings
             /\ Decision(r[i], [k \in {d[i].key} |-> read(i)]).value = BitOf(s, r[i].position)
  <2>1. \E v \in Readings : Decision(r[i], [k \in {d[i].key} |-> v]).value = BitOf(s, r[i].position)
    BY <1>3, <1>4
  <2> QED
    BY <2>1, Zenon
<1> HIDE DEF read, m, r, d
<1>6. \A i \in 1..6 : m[i] = [key |-> d[i].key, value |-> read(i)]
  BY <1>2, Zenon
<1>7. DOMAIN m = 1..6
  BY <1>2, Zenon
<1>8. \A i \in 1..6 : m[i].key = d[i].key /\ m[i].value = read(i)
  BY <1>6
<1>9. m \in [1..6 -> ToSet(m)]
  <2>1. m = [i \in DOMAIN m |-> m[i]]
    BY <1>2, <1>7
  <2> QED
    BY <1>7, <2>1 DEF ToSet
<1>10. m \in Seq(ToSet(m)) /\ Len(m) = 6
  <2>1. m \in Seq(ToSet(m))
    BY <1>9, SeqDef
  <2>2. Len(m) \in Nat /\ DOMAIN m = 1..Len(m)
    BY <2>1, LenProperties
  <2>3. 1..Len(m) = 1..6
    BY <1>7, <2>2
  <2> QED
    BY <2>1, <2>2, <2>3
<1> QED
  BY <1>5, <1>7, <1>8, <1>10 DEF m, d, r

(* Measurements in either order hold the same values, each key once.        *)
LEMMA OrdersOfMeasurements ==
  ASSUME NEW e, ReadsBits(e), NEW s, NEW order,
         order \in {Measured(e, s), Reverse(Measured(e, s))}
  PROVE  /\ DOMAIN order = 1..6 /\ ToSet(order) = ToSet(Measured(e, s))
         /\ AdmitsMeasurements(order)
<1> DEFINE d == e.parameterDefinitions
<1>1. PICK m : m = Measured(e, s)
  OBVIOUS
<1>2. /\ DOMAIN m = 1..6 /\ Len(m) = 6
      /\ \A i \in 1..6 : m[i].key = d[i].key
  BY <1>1, MeasuredBits
<1>3. /\ \A i \in 1..6 : d[i].key # Kernel!Blank
      /\ \A i, j \in 1..6 : d[i].key = d[j].key => i = j
  BY KeysAreApart
<1> HIDE DEF d
<1>4. \A i \in 1..6 : (6 - i) + 1 \in 1..6 /\ (6 - ((6 - i) + 1)) + 1 = i
  OBVIOUS
<1>5. ASSUME order = Reverse(m)
      PROVE  /\ DOMAIN order = 1..6 /\ ToSet(order) = ToSet(m)
             /\ \A i, j \in 1..6 : order[i].key = order[j].key => i = j
  <2>1. order = [i \in 1..6 |-> m[(6 - i) + 1]]
    BY <1>2, <1>5 DEF Reverse
  <2>2. DOMAIN order = 1..6 /\ \A i \in 1..6 : order[i] = m[(6 - i) + 1]
    BY <2>1
  <2>3. ASSUME NEW i \in 1..6, NEW j \in 1..6, order[i].key = order[j].key PROVE i = j
    <3>1. (6 - i) + 1 = (6 - j) + 1
      BY <1>2, <1>3, <1>4, <2>2, <2>3
    <3> QED
      BY <3>1
  <2>4. ToSet(order) = ToSet(m)
    <3>1. \A i \in 1..6 : \E j \in 1..6 : order[i] = m[j]
      BY <1>4, <2>2
    <3>2. \A i \in 1..6 : \E j \in 1..6 : m[i] = order[j]
      BY <1>4, <2>2
    <3> QED
      BY <1>2, <2>2, <3>1, <3>2 DEF ToSet
  <2> QED
    BY <2>2, <2>3, <2>4
<1>6. /\ DOMAIN order = 1..6 /\ ToSet(order) = ToSet(m)
      /\ \A i, j \in 1..6 : order[i].key = order[j].key => i = j
  BY <1>1, <1>2, <1>3, <1>5
<1>7. PICK keys : keys = [i \in DOMAIN order |-> order[i].key]
  OBVIOUS
<1>8. IsInjective(keys)
  BY <1>6, <1>7 DEF IsInjective
<1>9. Kernel!Blank \notin ToSet(keys)
  <2>1. \A i \in 1..6 : \E j \in 1..6 : order[i] = m[j]
    BY <1>2, <1>6 DEF ToSet
  <2> QED
    BY <1>2, <1>3, <1>6, <1>7, <2>1 DEF ToSet
<1>10. AdmitsMeasurements(order)
  BY <1>7, <1>8, <1>9 DEF AdmitsMeasurements
<1> QED
  BY <1>1, <1>6, <1>10

(* A snapshot holds, under each key, what was measured for it.              *)
LEMMA SnapshotOfMeasured ==
  ASSUME NEW e, ReadsBits(e), NEW s, NEW order, ToSet(order) = ToSet(Measured(e, s))
  PROVE  LET d == e.parameterDefinitions
             snapshot == SnapshotOf(order)
         IN  /\ DOMAIN snapshot = {d[i].key : i \in 1..6}
             /\ \A i \in 1..6 : snapshot[d[i].key] = Measured(e, s)[i].value
<1> DEFINE d == e.parameterDefinitions
<1>1. PICK m : m = Measured(e, s)
  OBVIOUS
<1>2. /\ DOMAIN m = 1..6
      /\ \A i \in 1..6 : m[i].key = d[i].key
  BY <1>1, MeasuredBits
<1>3. \A i, j \in 1..6 : d[i].key = d[j].key => i = j
  BY KeysAreApart
<1>4. PICK S : S = ToSet(order)
  OBVIOUS
<1>5. S = {m[i] : i \in 1..6}
  BY <1>1, <1>2, <1>4 DEF ToSet
<1>6. PICK snapshot : snapshot = SnapshotOf(order)
  OBVIOUS
<1>7. snapshot = [key \in {a.key : a \in S} |-> (CHOOSE a \in S : a.key = key).value]
  BY <1>4, <1>6 DEF SnapshotOf
<1> HIDE DEF d
<1>8. {a.key : a \in S} = {d[i].key : i \in 1..6}
  <2>1. \A i \in 1..6 : m[i] \in S /\ d[i].key = m[i].key
    BY <1>2, <1>5
  <2>2. \A a \in S : \E i \in 1..6 : a.key = d[i].key
    BY <1>2, <1>5
  <2> QED
    BY <2>1, <2>2
<1>9. ASSUME NEW i \in 1..6 PROVE snapshot[d[i].key] = m[i].value
  <2>1. ASSUME NEW a \in S, a.key = d[i].key PROVE a = m[i]
    BY <1>2, <1>3, <1>5, <2>1
  <2>2. m[i] \in S /\ m[i].key = d[i].key
    BY <1>2, <1>5
  <2>3. (CHOOSE a \in S : a.key = d[i].key) = m[i]
    BY <2>1, <2>2
  <2>4. snapshot[d[i].key] = (CHOOSE a \in S : a.key = d[i].key).value
    BY <1>7, <1>8, Zenon
  <2> QED
    BY <2>3, <2>4
<1>10. DOMAIN snapshot = {d[i].key : i \in 1..6}
  <2>1. DOMAIN snapshot = {a.key : a \in S}
    BY <1>7, Zenon
  <2> QED
    BY <1>8, <2>1
<1> QED
  BY <1>1, <1>6, <1>9, <1>10 DEF d

\* A snapshot that holds a valid value under every key is valid.
LEMMA CompleteSnapshotsAreValid ==
  ASSUME NEW d, NEW snapshot, DOMAIN d = 1..6, Kernel!ValidateParameterDefinitions(d) = {},
         DOMAIN snapshot = {d[i].key : i \in 1..6},
         \A i \in 1..6 : Kernel!IsValidValue(d[i], snapshot[d[i].key])
  PROVE  Kernel!ValidSnapshot(d, snapshot)
<1>1. \A i \in DOMAIN d : d[i].key \in DOMAIN snapshot /\ Kernel!IsValidValue(d[i], snapshot[d[i].key])
  OBVIOUS
<1>2. Kernel!DefinedKeys(d) = DOMAIN snapshot
  BY DEF Kernel!DefinedKeys, Kernel!Elements
<1>3. Kernel!SnapshotIssues(d, snapshot) = {}
  BY <1>1, <1>2 DEF Kernel!SnapshotIssues, Kernel!Issues
<1> QED
  BY <1>3 DEF Kernel!ValidSnapshot, Kernel!ValidateParameterSnapshot

\* One that holds none under a key is not.
LEMMA MissingValuesShow ==
  ASSUME NEW d, NEW snapshot, NEW i \in DOMAIN d, d[i].key \notin DOMAIN snapshot
  PROVE  ~Kernel!ValidSnapshot(d, snapshot)
<1>1. Kernel!Issue(d[i].key, "missing") \in Kernel!SnapshotIssues(d, snapshot)
  BY DEF Kernel!SnapshotIssues, Kernel!Issues
<1> QED
  BY <1>1 DEF Kernel!ValidSnapshot, Kernel!ValidateParameterSnapshot

(* What is measured of a state, in either order, is encoded as that state.  *)
LEMMA OrdersEncode ==
  ASSUME NEW e, ReadsBits(e), NEW s \in States64, NEW order,
         order \in {Measured(e, s), Reverse(Measured(e, s))}
  PROVE  AdmitsEncoding(e, order) /\ EncodedState(e, order) = s
<1>1. PICK d, r, m : d = e.parameterDefinitions /\ r = e.bitRules /\ m = Measured(e, s)
  OBVIOUS
<1>2. ToSet(order) = ToSet(m) /\ AdmitsMeasurements(order)
  BY <1>1, OrdersOfMeasurements
<1>3. PICK snapshot : snapshot = SnapshotOf(order)
  OBVIOUS
<1>4. /\ DOMAIN snapshot = {d[i].key : i \in 1..6}
      /\ \A i \in 1..6 : snapshot[d[i].key] = m[i].value
  BY <1>1, <1>2, <1>3, SnapshotOfMeasured
<1>5. \A i \in 1..6 :
        /\ m[i].value \in Readings
        /\ Decision(r[i], [k \in {d[i].key} |-> m[i].value]).value = BitOf(s, r[i].position)
  BY <1>1, MeasuredBits
<1>6. /\ DOMAIN d = 1..6 /\ DOMAIN r = 1..6
      /\ \A i \in 1..6 : r[i].position \in Positions
      /\ \A i, j \in 1..6 : r[i].position = r[j].position => i = j
      /\ \A p \in Positions : \E i \in 1..6 : r[i].position = p
  BY <1>1, KeysAreApart, RulesAreApart
<1>7. /\ Kernel!ValidateParameterDefinitions(d) = {}
      /\ AdmitsRules(r)
      /\ \A i \in 1..6 :
           /\ ReadsOnly(r[i].predicate, d[i].key)
           /\ Kernel!ReferencedKeys(r[i].predicate) \subseteq {d[i].key}
           /\ \A reading \in Readings : Kernel!IsValidValue(d[i], reading)
  BY <1>1 DEF ReadsBits
<1>8. Kernel!ValidSnapshot(d, snapshot)
  <2>1. \A i \in 1..6 : Kernel!IsValidValue(d[i], snapshot[d[i].key])
    BY <1>4, <1>5, <1>7
  <2> QED
    BY <1>4, <1>6, <1>7, <2>1, CompleteSnapshotsAreValid
<1>9. Kernel!ValidatePredicateParameterReferences(d, {q.predicate : q \in ToSet(r)}) = {}
  <2>1. \A i \in 1..6 : d[i].key \in Kernel!DefinedKeys(d)
    BY <1>6 DEF Kernel!DefinedKeys, Kernel!Elements
  <2>2. ASSUME NEW f \in {q.predicate : q \in ToSet(r)}
        PROVE  Kernel!ReferencedKeys(f) \subseteq Kernel!DefinedKeys(d)
    <3>1. PICK i \in 1..6 : f = r[i].predicate
      BY <1>6 DEF ToSet
    <3> QED
      BY <1>7, <2>1, <3>1
  <2> QED
    BY <1>7, <2>2 DEF Kernel!ValidatePredicateParameterReferences
<1>10. AdmitsEncoding(e, order)
  BY <1>1, <1>2, <1>3, <1>7, <1>8, <1>9 DEF AdmitsEncoding
<1>11. ASSUME NEW p \in Positions
       PROVE  Decision(CHOOSE q \in ToSet(r) : q.position = p, snapshot).value = BitOf(s, p)
  <2>1. PICK i \in 1..6 : r[i].position = p
    BY <1>6
  <2>2. (CHOOSE q \in ToSet(r) : q.position = p) = r[i]
    <3>1. ASSUME NEW q \in ToSet(r), q.position = p PROVE q = r[i]
      BY <1>6, <2>1, <3>1 DEF ToSet
    <3>2. r[i] \in ToSet(r)
      BY <1>6 DEF ToSet
    <3> QED
      BY <2>1, <3>1, <3>2
  <2>3. PICK single : single = [k \in {d[i].key} |-> m[i].value]
    OBVIOUS
  <2>4. /\ d[i].key \in DOMAIN single /\ d[i].key \in DOMAIN snapshot
        /\ single[d[i].key] = snapshot[d[i].key]
    BY <1>4, <2>3
  <2>5. Decision(r[i], snapshot) = Decision(r[i], single)
    BY <1>7, <2>4, DecisionIsLocal
  <2>6. Decision(r[i], single).value = BitOf(s, p)
    BY <1>5, <2>1, <2>3
  <2> QED
    BY <2>2, <2>5, <2>6
<1>12. PICK decisions : decisions = Decisions(e, snapshot)
  OBVIOUS
<1>13. /\ DOMAIN decisions = Positions
       /\ \A p \in Positions : decisions[p].value = BitOf(s, p)
  <2>1. decisions = [p \in Positions |->
                      Decision(CHOOSE q \in ToSet(e.bitRules) : q.position = p, snapshot)]
    BY <1>12 DEF Decisions
  <2>2. ASSUME NEW p \in Positions
        PROVE  decisions[p] = Decision(CHOOSE q \in ToSet(r) : q.position = p, snapshot)
    BY <1>1, <2>1, Zenon
  <2>3. DOMAIN decisions = Positions
    BY <2>1, Zenon
  <2> QED
    BY <1>11, <2>2, <2>3
<1>14. EncodedState(e, order) = {i \in DOMAIN decisions : decisions[i].value = 1}
  BY <1>3, <1>12 DEF EncodedState
<1>15. \A p \in Positions : BitOf(s, p) = 1 <=> p \in s
  BY DEF BitOf
<1>16. EncodedState(e, order) = s
  BY <1>13, <1>14, <1>15 DEF States64
<1> QED
  BY <1>10, <1>16

(* What is left of a sequence without one of its places.                    *)
LEMMA RestOfSequence ==
  ASSUME NEW S, NEW m \in Seq(S), Len(m) = 6, NEW i \in 1..6
  PROVE  \A x \in ToSet(RemoveAt(m, i)) : \E j \in 1..6 : j # i /\ x = m[j]
<1> DEFINE left == SubSeq(m, 1, i - 1)
           right == SubSeq(m, i + 1, 6)
<1>1. \A j \in 1..6 : m[j] \in S
  BY ElementOfSeq
<1>2. /\ left \in Seq(S) /\ Len(left) = i - 1
      /\ \A k \in 1..(i - 1) : left[k] = m[k]
  <2>1. \A j \in 1..(i - 1) : m[j] \in S
    BY <1>1
  <2>2. /\ left \in Seq(S) /\ Len(left) = IF 1 <= i - 1 THEN (i - 1) - 1 + 1 ELSE 0
        /\ \A k \in 1..((i - 1) - 1 + 1) : left[k] = m[1 + k - 1]
    BY <2>1, SubSeqProperties
  <2>3. (i - 1) - 1 + 1 = i - 1 /\ (i = 1 \/ 1 <= i - 1) /\ \A k \in 1..(i - 1) : 1 + k - 1 = k
    OBVIOUS
  <2> QED
    BY <2>2, <2>3
<1>3. /\ right \in Seq(S) /\ Len(right) = 6 - i
      /\ \A k \in 1..(6 - i) : right[k] = m[i + k]
  <2>1. \A j \in (i + 1)..6 : m[j] \in S
    BY <1>1
  <2>2. /\ right \in Seq(S) /\ Len(right) = IF i + 1 <= 6 THEN 6 - (i + 1) + 1 ELSE 0
        /\ \A k \in 1..(6 - (i + 1) + 1) : right[k] = m[(i + 1) + k - 1]
    BY <2>1, SubSeqProperties
  <2>3. 6 - (i + 1) + 1 = 6 - i /\ (i = 6 \/ i + 1 <= 6) /\ \A k \in 1..(6 - i) : (i + 1) + k - 1 = i + k
    OBVIOUS
  <2> QED
    BY <2>2, <2>3
<1>4. PICK a, b : a = left /\ b = right
  OBVIOUS
<1>5. RemoveAt(m, i) = a \o b
  BY <1>4 DEF RemoveAt
<1>6. /\ a \in Seq(S) /\ Len(a) = i - 1 /\ \A k \in 1..(i - 1) : a[k] = m[k]
      /\ b \in Seq(S) /\ Len(b) = 6 - i /\ \A k \in 1..(6 - i) : b[k] = m[i + k]
  BY <1>2, <1>3, <1>4
<1> HIDE DEF left, right
<1>7. PICK c : c = a \o b
  OBVIOUS
<1>8. /\ c \in Seq(S) /\ Len(c) = Len(a) + Len(b)
      /\ \A k \in 1..(Len(a) + Len(b)) : c[k] = IF k <= Len(a) THEN a[k] ELSE b[k - Len(a)]
  BY <1>6, <1>7, ConcatProperties
<1>9. DOMAIN c = 1..5 /\ \A k \in 1..5 : c[k] = IF k <= i - 1 THEN a[k] ELSE b[k - (i - 1)]
  <2>1. Len(a) + Len(b) = 5
    BY <1>6
  <2>2. DOMAIN c = 1..5
    BY <1>8, <2>1, LenProperties
  <2> QED
    BY <1>6, <1>8, <2>1, <2>2
<1>10. ASSUME NEW k \in 1..5 PROVE \E j \in 1..6 : j # i /\ c[k] = m[j]
  <2>1. CASE k <= i - 1
    <3>1. k \in 1..(i - 1) /\ k \in 1..6 /\ k # i
      BY <2>1
    <3> QED
      BY <1>6, <1>9, <2>1, <3>1
  <2>2. CASE ~(k <= i - 1)
    <3>1. k - (i - 1) \in 1..(6 - i) /\ i + (k - (i - 1)) = k + 1 /\ k + 1 \in 1..6 /\ k + 1 # i
      BY <2>2
    <3> QED
      BY <1>6, <1>9, <2>2, <3>1
  <2> QED
    BY <2>1, <2>2
<1>11. \A x \in ToSet(c) : \E j \in 1..6 : j # i /\ x = m[j]
  BY <1>9, <1>10 DEF ToSet
<1> QED
  BY <1>5, <1>7, <1>11

(* A sequence with one more member.                                         *)
LEMMA OneMore ==
  ASSUME NEW S, NEW m \in Seq(S), NEW x \in S, NEW more, more = Append(m, x)
  PROVE  /\ more \in Seq(S) /\ Len(more) = Len(m) + 1 /\ more[Len(m) + 1] = x
         /\ \A j \in 1..Len(m) : more[j] = m[j]
BY AppendProperties

(* A measurement that is missing or repeated is refused, and so is a rule   *)
(* that writes another's position.                                          *)
LEMMA HalvesAreRefused ==
  ASSUME NEW e, ReadsBits(e), NEW s \in States64, NEW i \in DOMAIN Measured(e, s)
  PROVE  LET m == Measured(e, s)
         IN  /\ ~AdmitsEncoding(e, RemoveAt(m, i))
             /\ ~AdmitsEncoding(e, Append(m, m[i]))
             /\ ~AdmitsEncoding([e EXCEPT !.bitRules[i].position = (@ % 6) + 1], m)
<1>1. PICK d, r, m : d = e.parameterDefinitions /\ r = e.bitRules /\ m = Measured(e, s)
  OBVIOUS
<1>2. /\ DOMAIN m = 1..6 /\ m \in Seq(ToSet(m)) /\ Len(m) = 6 /\ i \in 1..6
      /\ \A j \in 1..6 : m[j].key = d[j].key
  BY <1>1, MeasuredBits
<1>3. DOMAIN d = 1..6 /\ \A j, k \in 1..6 : d[j].key = d[k].key => j = k
  BY <1>1, KeysAreApart
<1>4. ~AdmitsEncoding(e, RemoveAt(m, i))
  <2>1. PICK rest : rest = RemoveAt(m, i)
    OBVIOUS
  <2>2. \A x \in ToSet(rest) : \E j \in 1..6 : j # i /\ x = m[j]
    BY <1>2, <2>1, RestOfSequence
  <2>3. \A x \in ToSet(rest) : x.key # d[i].key
    BY <1>2, <1>3, <2>2
  <2>4. d[i].key \notin DOMAIN SnapshotOf(rest)
    BY <2>3 DEF SnapshotOf
  <2>5. ~Kernel!ValidSnapshot(d, SnapshotOf(rest))
    BY <1>2, <1>3, <2>4, MissingValuesShow
  <2> QED
    BY <1>1, <2>1, <2>5 DEF AdmitsEncoding
<1>5. ~AdmitsEncoding(e, Append(m, m[i]))
  <2>1. PICK more : more = Append(m, m[i])
    OBVIOUS
  <2>2. m[i] \in ToSet(m)
    BY <1>2 DEF ToSet
  <2>3. /\ more \in Seq(ToSet(m)) /\ Len(more) = 7 /\ more[7] = m[i] /\ more[i] = m[i]
    <3>1. PICK S, x : S = ToSet(m) /\ x = m[i]
      OBVIOUS
    <3>2. m \in Seq(S) /\ Len(m) = 6 /\ x \in S /\ more = Append(m, x)
      BY <1>2, <2>1, <2>2, <3>1
    <3>3. /\ more \in Seq(S) /\ Len(more) = Len(m) + 1 /\ more[Len(m) + 1] = x
          /\ \A j \in 1..Len(m) : more[j] = m[j]
      BY <3>2, OneMore
    <3>4. Len(more) = 7 /\ more[7] = x /\ \A j \in 1..6 : more[j] = m[j]
      BY <3>2, <3>3
    <3>5. more[i] = m[i]
      BY <1>2, <3>4
    <3> QED
      BY <3>1, <3>3, <3>4, <3>5
  <2>4. DOMAIN more = 1..7
    BY <2>3, LenProperties, Zenon
  <2>5. PICK keys : keys = [j \in DOMAIN more |-> more[j].key]
    OBVIOUS
  <2>6. DOMAIN keys = 1..7 /\ keys[i] = keys[7] /\ i # 7 /\ i \in 1..7 /\ 7 \in 1..7
    BY <1>2, <2>3, <2>4, <2>5
  <2>7. ~IsInjective(keys)
    BY <2>6 DEF IsInjective
  <2> QED
    BY <2>1, <2>5, <2>7 DEF AdmitsEncoding, AdmitsMeasurements
<1>6. ~AdmitsEncoding([e EXCEPT !.bitRules[i].position = (@ % 6) + 1], m)
  <2>1. /\ DOMAIN r = 1..6
        /\ \A j \in 1..6 : r[j].position \in Positions
        /\ \A j, k \in 1..6 : r[j].position = r[k].position => j = k
    BY <1>1, RulesAreApart
  <2>2. PICK other : other = [e EXCEPT !.bitRules[i].position = (@ % 6) + 1]
    OBVIOUS
  <2>3. "bitRules" \in DOMAIN e /\ "position" \in DOMAIN r[i]
    BY <1>1, <1>2 DEF ReadsBits
  <2>4. other.bitRules = [r EXCEPT ![i].position = (@ % 6) + 1]
    BY <1>1, <2>2, <2>3
  <2>5. PICK changed : changed = [r EXCEPT ![i].position = (@ % 6) + 1]
    OBVIOUS
  <2>6. /\ DOMAIN changed = 1..6 /\ changed[i].position = (r[i].position % 6) + 1
        /\ \A j \in 1..6 : j # i => changed[j] = r[j]
    BY <1>2, <2>1, <2>3, <2>5
  <2>7. PICK p \in 1..6 : p = r[i].position
    BY <1>2, <2>1 DEF Positions
  <2>8. (p % 6) + 1 # p
    BY <2>7
  <2>9. \A j \in 1..6 : changed[j].position # p
    BY <1>2, <2>1, <2>6, <2>7, <2>8
  <2>10. p \notin {q.position : q \in ToSet(changed)} /\ p \in Positions
    BY <2>6, <2>9 DEF ToSet, Positions
  <2>11. ~AdmitsRules(changed)
    BY <2>10 DEF AdmitsRules
  <2> QED
    BY <2>2, <2>4, <2>5, <2>11 DEF AdmitsEncoding
<1> QED
  BY <1>1, <1>4, <1>5, <1>6

(* Whatever chain has been observed, of any length: what is measured of its *)
(* last state is encoded as that state, in either order, and never half of  *)
(* it (encodeMeasurementsToState64), for all encoders that read bits.       *)
THEOREM MeasuredStatesEncode == Spec => []MeasurementsEncode
<1>1. CompressionInv => MeasurementsEncode
  <2> SUFFICES ASSUME CompressionInv, NEW e \in Encoders
               PROVE  LET m == Measured(e, Target)
                      IN  /\ \A order \in {m, Reverse(m)} :
                               AdmitsEncoding(e, order) /\ EncodedState(e, order) = Target
                          /\ \A i \in DOMAIN m :
                               /\ ~AdmitsEncoding(e, RemoveAt(m, i))
                               /\ ~AdmitsEncoding(e, Append(m, m[i]))
                               /\ ~AdmitsEncoding([e EXCEPT !.bitRules[i].position = (@ % 6) + 1], m)
    BY DEF MeasurementsEncode
  <2>1. ReadsBits(e)
    BY EncodersReadBits
  <2>2. Target \in States64
    BY EmptySeq, LenProperties, ElementOfSeq DEF CompressionInv, ChainInv, TypeOK, Target
  <2>3. PICK s \in States64 : s = Target
    BY <2>2
  <2>4. \A order \in {Measured(e, s), Reverse(Measured(e, s))} :
          AdmitsEncoding(e, order) /\ EncodedState(e, order) = s
    BY <2>1, OrdersEncode
  <2>5. \A i \in DOMAIN Measured(e, s) :
          /\ ~AdmitsEncoding(e, RemoveAt(Measured(e, s), i))
          /\ ~AdmitsEncoding(e, Append(Measured(e, s), Measured(e, s)[i]))
          /\ ~AdmitsEncoding([e EXCEPT !.bitRules[i].position = (@ % 6) + 1], Measured(e, s))
    BY <2>1, HalvesAreRefused
  <2> QED
    BY <2>3, <2>4, <2>5, Zenon
<1> QED
  BY <1>1, CompressionInvariant, PTL

(* Whatever chain has been observed, of any length, its states survive      *)
(* every form the two packages give them.                                   *)
THEOREM StatesSurvive == Spec => []StatesSurviveEveryForm
<1>1. PackedWordDecodes /\ CatalogueFollowsChain /\ SentinelsAreNoAnswers /\ MeasurementsEncode
        => StatesSurviveEveryForm
  BY DEF StatesSurviveEveryForm
<1> QED
  BY <1>1, PackedWordsDecode, CatalogueFollows, RefusalsAreTold, MeasuredStatesEncode, PTL
=============================================================================
