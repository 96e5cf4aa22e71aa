---------------------- MODULE BatchClassificationProofs ----------------------
(***************************************************************************)
(* The batch loops return the reference classification for arrays of every *)
(* length and vectors of every width.  The loop invariant is what the      *)
(* columns hold behind each item; at the return nothing is left that all   *)
(* arrays have room for, and State64Proofs says what a row is.             *)
(***************************************************************************)
EXTENDS BatchClassification, State64Proofs, SequenceTheorems

LoopInv ==
  /\ TypeOK
  /\ ColumnsFollowItems
  /\ pc = "returned" => ~Fits(i + 1)

LEMMA CallShape ==
  ASSUME NEW theCall \in Calls
  PROVE  /\ theCall.sources \in Seq(SUBSET (1..8)) /\ theCall.targets \in Seq(SUBSET (1..8))
         /\ DOMAIN theCall.out \subseteq AllColumns
         /\ \A c \in DOMAIN theCall.out : theCall.out[c] \in Seq(0..255)
  BY CallsAssumption DEF Columns, Routines, AllColumns

LEMMA FunctionIsSeq ==
  ASSUME NEW S, NEW n \in Nat, NEW f \in [1..n -> S]
  PROVE  f \in Seq(S) /\ Len(f) = n
  OBVIOUS

(* A call fits a number of items if it fits a larger one. *)
LEMMA FitsDownward ==
  ASSUME call \in Calls, NEW n \in Nat, NEW k \in Nat, k <= n, Fits(n)
  PROVE  Fits(k)
<1>1. /\ Len(call.sources) \in Nat /\ Len(call.targets) \in Nat
      /\ \A c \in DOMAIN call.out : Len(call.out[c]) \in Nat
  BY CallShape
<1> QED
  BY <1>1 DEF Fits

LEMMA ByteOfMask ==
  ASSUME NEW mask \in States64
  PROVE  NumberOf(mask) \in 0..63
<1> DEFINE Bit(position) == IF position \in mask THEN 1 ELSE 0
<1>1. NumberOf(mask)
        = 32 * Bit(1) + 16 * Bit(2) + 8 * Bit(3) + 4 * Bit(4) + 2 * Bit(5) + Bit(6)
  BY DEF NumberOf
<1>2. /\ Bit(1) \in 0..1 /\ Bit(2) \in 0..1 /\ Bit(3) \in 0..1
      /\ Bit(4) \in 0..1 /\ Bit(5) \in 0..1 /\ Bit(6) \in 0..1
  OBVIOUS
<1> HIDE DEF Bit
<1> QED
  BY <1>1, <1>2

(* Every entry of the tables is a byte. *)
LEMMA RowHoldsBytes ==
  ASSUME call \in Calls, NEW n \in Nat \ {0}, Fits(n), NEW c \in AllColumns
  PROVE  Row(n)[c] \in 0..255
<1> DEFINE mask == MutationBetween(call.sources[n], call.targets[n]) \cap Positions
<1>1. mask \in States64
  BY DEF States64
<1>2. Row(n) = RowOf(mask)
  BY <1>1 DEF Row, ClassifyBranchless, RowByMask
<1> HIDE DEF mask
<1>3. mask \cap LowerModule \in States64 /\ mask \cap UpperModule \in States64
  BY <1>1 DEF States64
<1>4. /\ NumberOf(mask) \in 0..63 /\ Cardinality(mask) \in 0..6
      /\ Cardinality(mask \cap LowerModule) \in 0..6
      /\ Cardinality(mask \cap UpperModule) \in 0..6
  BY <1>1, <1>3, StatesAreFinite, ByteOfMask
<1>5. \A lower, upper \in 0..6 : ScopeFromDistances(lower, upper) \in 0..3
  BY DEF ScopeFromDistances
<1>6. \A distance, lower, upper \in 0..6 : RegimeFromDistances(distance, lower, upper) \in 0..5
  BY DEF RegimeFromDistances
<1> QED
  BY <1>2, <1>4, <1>5, <1>6 DEF RowOf, AllColumns

LEMMA LoopInit == Init => LoopInv
<1> SUFFICES ASSUME Init PROVE LoopInv
  OBVIOUS
<1>1. /\ call \in Calls /\ out = call.out /\ i = 0 /\ pc = "loop"
  BY DEF Init
<1>2. Fits(0)
  BY <1>1, CallShape DEF Fits
<1>3. TypeOK
  BY <1>1, <1>2, CallShape DEF TypeOK
<1>4. ColumnsFollowItems
  BY <1>1, CallShape DEF ColumnsFollowItems
<1> QED
  BY <1>1, <1>3, <1>4 DEF LoopInv

(* Both loops write the next items, one or Lanes of them, and nothing else. *)
LEMMA WritingKeepsInv ==
  ASSUME LoopInv, NEW next \in Nat, i <= next, Fits(next), UNCHANGED <<call, pc>>,
         pc = "loop", i' = next, DOMAIN out' = DOMAIN out,
         \A c \in DOMAIN out :
           out'[c] = [k \in 1..Len(out[c]) |->
                        IF k \in (i + 1)..next THEN Row(k)[c] ELSE out[c][k]]
  PROVE  LoopInv'
<1>1. /\ call \in Calls /\ i \in Nat /\ DOMAIN out = DOMAIN call.out
      /\ \A c \in DOMAIN out : /\ c \in AllColumns
                               /\ out[c] \in Seq(0..255) /\ Len(out[c]) = Len(call.out[c])
  BY CallShape DEF LoopInv, TypeOK
<1>2. ASSUME NEW c \in DOMAIN out
      PROVE  out'[c] \in Seq(0..255) /\ Len(out'[c]) = Len(out[c])
  <2>1. Len(out[c]) \in Nat
    BY <1>1
  <2>2. ASSUME NEW k \in 1..Len(out[c]) PROVE out'[c][k] \in 0..255
    <3>0. /\ out'[c][k] = IF k \in (i + 1)..next THEN Row(k)[c] ELSE out[c][k]
          /\ out[c][k] \in 0..255
      <4>1. out'[c] = [j \in 1..Len(out[c]) |->
                         IF j \in (i + 1)..next THEN Row(j)[c] ELSE out[c][j]]
        OBVIOUS
      <4>2. out'[c][k] = IF k \in (i + 1)..next THEN Row(k)[c] ELSE out[c][k]
        BY <4>1
      <4>3. out[c] \in Seq(0..255)
        BY <1>1
      <4>4. out[c][k] \in 0..255
        BY <4>3, ElementOfSeq, Zenon
      <4> QED
        BY <4>2, <4>4
    <3>1. CASE k \in (i + 1)..next
      <4>1. k \in Nat \ {0} /\ k <= next
        BY <1>1, <3>1
      <4>2. Fits(k)
        BY <1>1, <4>1, FitsDownward
      <4>3. Row(k)[c] \in 0..255
        BY <1>1, <4>1, <4>2, RowHoldsBytes
      <4> QED
        BY <3>0, <3>1, <4>3
    <3>2. CASE k \notin (i + 1)..next
      BY <3>0, <3>2
    <3> QED
      BY <3>1, <3>2
  <2>3. out'[c] = [k \in 1..Len(out[c]) |-> out'[c][k]]
    OBVIOUS
  <2>4. out'[c] \in [1..Len(out[c]) -> 0..255]
    BY <2>2, <2>3
  <2> DEFINE n == Len(out[c])
             column == out'[c]
  <2>5. n \in Nat /\ column \in [1..n -> 0..255]
    BY <2>1, <2>4
  <2>6. ASSUME NEW m \in Nat, NEW f \in [1..m -> 0..255]
        PROVE  f \in Seq(0..255) /\ Len(f) = m
    BY FunctionIsSeq
  <2> HIDE DEF n, column
  <2>7. column \in Seq(0..255) /\ Len(column) = n
    BY <2>5, <2>6, Zenon
  <2> QED
    BY <2>7 DEF n, column
<1>3. Fits(i)'
  BY DEF Fits
<1>4. TypeOK'
  BY <1>1, <1>2, <1>3 DEF TypeOK, LoopInv
<1>5. ASSUME NEW c \in DOMAIN out, NEW k \in 1..Len(out[c])
      PROVE  out'[c][k] = IF k <= next THEN Row(k)[c] ELSE call.out[c][k]
  <2>1. out[c][k] = IF k <= i THEN Row(k)[c] ELSE call.out[c][k]
    BY DEF LoopInv, ColumnsFollowItems
  <2>2. out'[c][k] = IF k \in (i + 1)..next THEN Row(k)[c] ELSE out[c][k]
    OBVIOUS
  <2>3. k \in Nat \ {0} /\ i \in Nat
    BY <1>1
  <2>4. k \in (i + 1)..next <=> ~(k <= i) /\ k <= next
    BY <2>3
  <2>5. k <= i => k <= next
    BY <2>3
  <2> QED
    BY <2>1, <2>2, <2>4, <2>5
<1>6. ColumnsFollowItems'
  BY <1>2, <1>5 DEF ColumnsFollowItems, Row
<1> QED
  BY <1>4, <1>6 DEF LoopInv

LEMMA VectorKeepsInv ==
  ASSUME LoopInv, Vector
  PROVE  LoopInv'
<1>1. /\ i \in Nat /\ Lanes \in Nat /\ i + Lanes \in Nat /\ i <= i + Lanes
  BY LanesAssumption DEF LoopInv, TypeOK
<1>2. /\ pc = "loop" /\ Fits(i + Lanes) /\ i' = i + Lanes /\ UNCHANGED <<call, pc>>
      /\ out' = [c \in DOMAIN out |->
                   [k \in 1..Len(out[c]) |->
                      IF k \in (i + 1)..(i + Lanes) THEN Row(k)[c] ELSE out[c][k]]]
  BY DEF Vector, Vectorized
<1> QED
  BY <1>1, <1>2, WritingKeepsInv

LEMMA ScalarKeepsInv ==
  ASSUME LoopInv, Scalar
  PROVE  LoopInv'
<1>1. i \in Nat /\ i + 1 \in Nat /\ i <= i + 1
  BY DEF LoopInv, TypeOK
<1>2. /\ pc = "loop" /\ Fits(i + 1) /\ i' = i + 1 /\ UNCHANGED <<call, pc>>
      /\ out' = [c \in DOMAIN out |-> [out[c] EXCEPT ![i + 1] = Row(i + 1)[c]]]
  BY DEF Scalar
<1>3. ASSUME NEW c \in DOMAIN out
      PROVE  out'[c] = [k \in 1..Len(out[c]) |->
                          IF k \in (i + 1)..(i + 1) THEN Row(k)[c] ELSE out[c][k]]
  <2>1. out'[c] = [out[c] EXCEPT ![i + 1] = Row(i + 1)[c]]
    BY <1>2
  <2>2. out[c] \in Seq(0..255)
    BY DEF LoopInv, TypeOK
  <2>3. out[c] = [k \in 1..Len(out[c]) |-> out[c][k]] /\ DOMAIN out[c] = 1..Len(out[c])
    BY <2>2
  <2>4. \A k \in 1..Len(out[c]) : k \in (i + 1)..(i + 1) <=> k = i + 1
    BY <1>1, <2>2
  <2> QED
    BY <2>1, <2>3, <2>4
<1> QED
  BY <1>1, <1>2, <1>3, WritingKeepsInv

(* The loops stay inside the arrays and write what the reference would. *)
THEOREM LoopInvariant == Spec => []LoopInv
<1>1. LoopInv /\ [Next]_vars => LoopInv'
  <2> SUFFICES ASSUME LoopInv, [Next]_vars PROVE LoopInv'
    OBVIOUS
  <2>1. CASE Vector
    BY <2>1, VectorKeepsInv
  <2>2. CASE Scalar
    BY <2>2, ScalarKeepsInv
  <2>3. CASE Return
    BY <2>3 DEF Return, LoopInv, TypeOK, ColumnsFollowItems, Fits, Row
  <2>4. CASE UNCHANGED vars
    BY <2>4 DEF vars, LoopInv, TypeOK, ColumnsFollowItems, Fits, Row
  <2> QED
    BY <2>1, <2>2, <2>3, <2>4 DEF Next
<1> QED
  BY LoopInit, <1>1, PTL DEF Spec

LEMMA InvGivesReference == LoopInv => ReturnsReference
<1> SUFFICES ASSUME LoopInv, pc = "returned",
                    NEW c \in DOMAIN out, NEW k \in 1..Len(out[c]), Fits(k)
             PROVE  out[c][k] = Encoded(ClassifyPair(call.sources[k] \cap Positions,
                                                     call.targets[k] \cap Positions))[c]
  BY DEF ReturnsReference
<1>1. /\ call \in Calls /\ i \in Nat /\ Len(out[c]) \in Nat
      /\ call.sources \in Seq(SUBSET (1..8)) /\ call.targets \in Seq(SUBSET (1..8))
  BY CallShape DEF LoopInv, TypeOK
<1>2. k <= i
  <2>1. ~Fits(i + 1)
    BY DEF LoopInv
  <2> QED
    BY <1>1, <2>1, FitsDownward
<1>3. out[c][k] = Row(k)[c]
  BY <1>2 DEF LoopInv, ColumnsFollowItems
<1>4. call.sources[k] \in SUBSET (1..8) /\ call.targets[k] \in SUBSET (1..8)
  BY <1>1 DEF Fits
<1> QED
  BY <1>3, <1>4, TablesMirrorReference DEF Row

(* The columns hold the rows of the items done, and behind them what the    *)
(* caller had there, for arrays of every length.                            *)
THEOREM BatchColumnsFollowItems == Spec => []ColumnsFollowItems
<1>1. LoopInv => ColumnsFollowItems
  BY DEF LoopInv
<1> QED
  BY <1>1, LoopInvariant, PTL

(* The output columns keep their lengths and hold bytes. *)
THEOREM BatchTypeCorrect == Spec => []TypeOK
<1>1. LoopInv => TypeOK
  BY DEF LoopInv
<1> QED
  BY <1>1, LoopInvariant, PTL

(* Every routine returns the reference classification of every pair. *)
THEOREM BatchReturnsReference == Spec => []ReturnsReference
  BY InvGivesReference, LoopInvariant, PTL
=============================================================================
