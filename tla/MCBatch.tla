------------------------------- MODULE MCBatch ------------------------------
(***************************************************************************)
(* Vectors of two items, inputs of up to five: no vector, one, two, with   *)
(* and without a tail.  One array at a time is shorter than the others.    *)
(***************************************************************************)
EXTENDS BatchClassification

\* States, a stray bit, a whole byte.
Pairs == <<<<{}, {}>>, <<{1}, {1, 7}>>, <<1..8, {}>>, <<{2, 5}, {1, 3}>>, <<{4}, {5, 6}>>>>

Used == [k \in 1..5 |-> 9]

Call(routine, n, short, length) ==
  LET LengthOf(array) == IF array = short /\ length <= n THEN length ELSE n
  IN  [routine |-> routine,
       sources |-> [k \in 1..LengthOf("sources") |-> Pairs[k][1]],
       targets |-> [k \in 1..LengthOf("targets") |-> Pairs[k][2]],
       out |-> [c \in Columns(routine) |-> SubSeq(Used, 1, LengthOf(c))]]

MCCalls ==
  {Call(routine, n, short, length) :
     routine \in Routines, n \in 0..5, length \in 0..5,
     short \in {"sources", "targets", "regimeClass", "distance"}}
=============================================================================
