------------------------ MODULE BatchClassification -------------------------
(***************************************************************************)
(* The batch loops of packages/core-rs/src/tables.rs: classify_batch, which *)
(* writes the regime of every pair, classify_batch_full, which writes all  *)
(* columns, and classify_batch_simd, which takes the regimes Lanes pairs   *)
(* at a time and the rest one by one.  The arrays belong to the caller and *)
(* may differ in length; their items are bytes nobody has validated.       *)
(***************************************************************************)
EXTENDS State64, Sequences

CONSTANTS
  Calls,  \* the calls made: the routine, the two inputs and the output columns
  Lanes   \* items in a vector (16 for SSE2)

Routines == {"batch", "full", "simd"}

AllColumns == {"mutationMask", "distance", "lowerDistance", "upperDistance",
               "moduleScope", "regimeClass"}

Columns(routine) == IF routine = "full" THEN AllColumns ELSE {"regimeClass"}

ASSUME CallsAssumption ==
  \A call \in Calls :
    /\ call.routine \in Routines
    /\ call.sources \in Seq(SUBSET (1..8)) /\ call.targets \in Seq(SUBSET (1..8))
    /\ DOMAIN call.out = Columns(call.routine)
    /\ \A c \in Columns(call.routine) : call.out[c] \in Seq(0..255)

ASSUME LanesAssumption == Lanes \in Nat \ {0}

VARIABLES
  call,  \* the arguments, the output as the caller gave it
  out,   \* the output columns
  i,     \* items classified so far
  pc     \* "loop" or "returned"

vars == <<call, out, i, pc>>

Init ==
  /\ call \in Calls
  /\ out = call.out
  /\ i = 0
  /\ pc = "loop"

\* n, the common length: each routine takes the least of its arrays' lengths.
Fits(n) ==
  /\ n <= Len(call.sources) /\ n <= Len(call.targets)
  /\ \A c \in DOMAIN call.out : n <= Len(call.out[c])

Row(k) == ClassifyBranchless(call.sources[k], call.targets[k])

Vectorized == call.routine = "simd" /\ Fits(i + Lanes)

\* Mutation: the inner loop over the buffer ends one item early.
VectorButLast ==
  /\ pc = "loop" /\ Vectorized
  /\ out' = [c \in DOMAIN out |->
               [k \in 1..Len(out[c]) |-> IF k \in (i + 1)..(i + Lanes - 1) THEN Row(k)[c] ELSE out[c][k]]]
  /\ i' = i + Lanes
  /\ UNCHANGED <<call, pc>>

\* One turn of the vector loop: Lanes items loaded, masked and looked up.
Vector ==
  /\ pc = "loop" /\ Vectorized
  /\ out' = [c \in DOMAIN out |->
               [k \in 1..Len(out[c]) |-> IF k \in (i + 1)..(i + Lanes) THEN Row(k)[c] ELSE out[c][k]]]
  /\ i' = i + Lanes
  /\ UNCHANGED <<call, pc>>

\* One turn of a scalar loop.
Scalar ==
  /\ pc = "loop" /\ ~Vectorized /\ Fits(i + 1)
  /\ out' = [c \in DOMAIN out |-> [out[c] EXCEPT ![i + 1] = Row(i + 1)[c]]]
  /\ i' = i + 1
  /\ UNCHANGED <<call, pc>>

\* Mutation: the tail behind the last whole vector is left out.
ReturnWithoutTail ==
  /\ pc = "loop" /\ ~Vectorized
  /\ call.routine = "simd" \/ ~Fits(i + 1)
  /\ pc' = "returned"
  /\ UNCHANGED <<call, out, i>>

Return ==
  /\ pc = "loop" /\ ~Fits(i + 1)
  /\ pc' = "returned"
  /\ UNCHANGED <<call, out, i>>

Next == Vector \/ Scalar \/ Return

Spec == Init /\ [][Next]_vars

-----------------------------------------------------------------------------
TypeOK ==
  /\ call \in Calls
  /\ DOMAIN out = DOMAIN call.out
  /\ \A c \in DOMAIN out : out[c] \in Seq(0..255) /\ Len(out[c]) = Len(call.out[c])
  /\ i \in Nat /\ Fits(i)
  /\ pc \in {"loop", "returned"}

(* Each column holds the classification of the items done, one by one or a  *)
(* vector at a time, and behind them what the caller had in it: no routine  *)
(* writes past the shortest array, and a vector past none.                  *)
ColumnsFollowItems ==
  \A c \in DOMAIN out : \A k \in 1..Len(out[c]) :
    out[c][k] = IF k <= i THEN Row(k)[c] ELSE call.out[c][k]

(* What a routine returns is the reference classification of every pair     *)
(* all arrays have room for, whatever the lengths, the routine and the      *)
(* stray high bits of the bytes.                                            *)
ReturnsReference ==
  pc = "returned" =>
    \A c \in DOMAIN out : \A k \in 1..Len(out[c]) :
      Fits(k) =>
        out[c][k] = Encoded(ClassifyPair(call.sources[k] \cap Positions,
                                         call.targets[k] \cap Positions))[c]
=============================================================================
