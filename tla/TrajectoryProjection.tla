------------------------ MODULE TrajectoryProjection ------------------------
(***************************************************************************)
(* The trajectory projections of the Rust core (packages/core-rs/src/      *)
(* shapes.rs).  A path is a sequence of bytes, of which only the low three *)
(* bits count.  A mask is the set of the bits it flips.                    *)
(***************************************************************************)
EXTENDS Integers, SequencesExt

Masked(byte) == byte % 8

Q3Bits(byte) == {b \in 0..2 : (byte \div 2^b) % 2 = 1}

Step(folded, mask) ==
  [net |-> SymDiff(folded.net, mask), distance |-> folded.distance + Cardinality(mask)]

\* Mutation: every step is taken from the first state.
FoldFromFirst(path) ==
  LET steps[i \in 0..Len(path)] ==
        IF i = 0 THEN [net |-> {}, distance |-> 0]
        ELSE Step(steps[i - 1], SymDiff(Q3Bits(path[1]), Q3Bits(path[i])))
  IN  steps[Len(path)]

\* The windows of two: entry i against its predecessor, of which the first has none.
FoldSteps(path) ==
  LET steps[i \in 0..Len(path)] ==
        IF i <= 1 THEN [net |-> {}, distance |-> 0]
        ELSE Step(steps[i - 1], SymDiff(Q3Bits(path[i - 1]), Q3Bits(path[i])))
  IN  steps[Len(path)]

Endpoints(path) ==
  IF path = <<>> THEN [endpoint |-> 0, hamming |-> 0]
  ELSE [endpoint |-> 8 * Masked(Head(path)) + Masked(Last(path)),
        hamming |-> Cardinality(SymDiff(Q3Bits(Head(path)), Q3Bits(Last(path))))]

Collapsed(path) ==
  LET kept[i \in 0..Len(path)] ==
        IF i = 0 THEN [shape |-> <<>>, dwell |-> <<>>]
        ELSE LET before == kept[i - 1]
                 state  == Masked(path[i])
             IN  IF before.shape # <<>> /\ Last(before.shape) = state
                 THEN [before EXCEPT !.dwell[Len(before.dwell)] = @ + 1]
                 ELSE [shape |-> Append(before.shape, state), dwell |-> Append(before.dwell, 1)]
  IN  kept[Len(path)]

\* The four scalars, as the batch writes them.
Scalars(folded, ends) ==
  [net_mutation |-> folded.net, cumulative_distance |-> folded.distance,
   endpoint |-> ends.endpoint, endpoint_hamming |-> ends.hamming]

Row(path) == Scalars(FoldSteps(path), Endpoints(path))

Joined(form, row) ==
  [shape |-> form.shape, dwell |-> form.dwell,
   net_mutation |-> row.net_mutation, cumulative_distance |-> row.cumulative_distance,
   endpoint |-> row.endpoint, endpoint_hamming |-> row.endpoint_hamming]

ProjectTrajectory(path) == Joined(Collapsed(path), Row(path))

\* compress_trajectory_batch(): a row for each path that every column has an
\* entry for; the rest of a longer column keeps what it held.
CompressTrajectoryBatch(paths, columns) ==
  LET n == Min({Len(paths)} \cup {Len(columns[c]) : c \in DOMAIN columns})
  IN  [c \in DOMAIN columns |->
        [i \in DOMAIN columns[c] |-> IF i <= n THEN Row(paths[i])[c] ELSE columns[c][i]]]
=============================================================================
