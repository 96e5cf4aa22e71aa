-------------------------- MODULE TrajectoryShapes --------------------------
(***************************************************************************)
(* The trajectory layer of packages/kernel/src/shapes.ts: the run-collapse *)
(* of a path over the eight states of Q3, its declared lossy projections   *)
(* and the comparison cascade, for two paths that grow as states are       *)
(* observed.  A three-bit mask is the set of the bits it flips, so that    *)
(* XOR is the symmetric difference and a popcount is a cardinality.  Keys  *)
(* are decimal lists with separators and equal just when the lists are.    *)
(***************************************************************************)
EXTENDS Integers, SequencesExt

CONSTANTS
  States,    \* the elementary states observed
  MaxLength  \* bound on the length of a path

VARIABLES left, right  \* the two paths compared

ElementaryStates == 0..7

ASSUME StatesAreElementary == States \subseteq ElementaryStates

Bits(state) == {b \in 0..2 : (state \div 2^b) % 2 = 1}

\* pathQ3() throws for an empty path and for what is no elementary state.
PathQ3Admits(values) == values # <<>> /\ \A i \in DOMAIN values : values[i] \in ElementaryStates

\* Mutation: a state met before extends its old run, adjacent or not.
AbsorbAnywhere(form, state) ==
  LET known == SelectInSeq(form.shape, LAMBDA s : s = state)
  IN  IF known # 0 THEN [form EXCEPT !.dwell[known] = @ + 1]
      ELSE [shape |-> Append(form.shape, state), dwell |-> Append(form.dwell, 1)]

\* One turn of the collapsing loop.
Absorb(form, state) ==
  IF form.shape # <<>> /\ Last(form.shape) = state
  THEN [form EXCEPT !.dwell[Len(form.dwell)] = @ + 1]
  ELSE [shape |-> Append(form.shape, state), dwell |-> Append(form.dwell, 1)]

NormalizePathRunCollapse(p) ==
  LET form[i \in 0..Len(p)] ==
        IF i = 0 THEN [shape |-> <<>>, dwell |-> <<>>] ELSE Absorb(form[i - 1], p[i])
  IN  form[Len(p)]

Shape(p) == NormalizePathRunCollapse(p).shape

DwellSignature(p) == NormalizePathRunCollapse(p).dwell

MutationPath(p) == [i \in 1..(Len(p) - 1) |-> SymDiff(Bits(p[i]), Bits(p[i + 1]))]

NetMutation(p) ==
  LET net[i \in 0..(Len(p) - 1)] ==
        IF i = 0 THEN {} ELSE SymDiff(net[i - 1], MutationPath(p)[i])
  IN  net[Len(p) - 1]

CumulativeDistance(p) ==
  LET total[i \in 0..(Len(p) - 1)] ==
        IF i = 0 THEN 0 ELSE total[i - 1] + Cardinality(MutationPath(p)[i])
  IN  total[Len(p) - 1]

EndpointCompression(p) == 8 * Head(p) + Last(p)

EndpointHammingDistance(p) == Cardinality(SymDiff(Bits(Head(p)), Bits(Last(p))))

\* Mutation: the endpoint filter decides the form.
CompareByEndpoint(p, q) ==
  IF EndpointCompression(p) # EndpointCompression(q) THEN "different_trajectory"
  ELSE IF DwellSignature(p) = DwellSignature(q) THEN "equivalent"
  ELSE "same_form_different_duration"

CompareTrajectories(p, q) ==
  IF EndpointCompression(p) # EndpointCompression(q) THEN "different_trajectory"
  ELSE IF Shape(p) # Shape(q) THEN "different_pattern"
  ELSE IF DwellSignature(p) # DwellSignature(q) THEN "same_form_different_duration"
  ELSE "equivalent"

\* The result of compareTrajectories(), with the flags it comes to.
Comparison(p, q) ==
  LET relation == CompareTrajectories(p, q)
  IN  [relation |-> relation, same_endpoint |-> relation # "different_trajectory",
       same_shape |-> relation \in {"equivalent", "same_form_different_duration"},
       same_dwell |-> relation = "equivalent"]

\* groupByShape(): a map from shape keys to the paths of that form, in order.
GroupByShape(paths) ==
  LET groups[i \in 0..Len(paths)] ==
        IF i = 0 THEN <<>>
        ELSE LET key   == Shape(paths[i])
                 known == DOMAIN groups[i - 1]
             IN  [k \in known \cup {key} |->
                    IF k # key THEN groups[i - 1][k]
                    ELSE IF k \in known THEN Append(groups[i - 1][k], paths[i])
                    ELSE <<paths[i]>>]
  IN  groups[Len(paths)]

PathsInit ==
  /\ left \in {<<s>> : s \in States}
  /\ right \in {<<s>> : s \in States}

ObserveLeft(state) ==
  /\ Len(left) < MaxLength
  /\ left' = Append(left, state)
  /\ UNCHANGED right

ObserveRight(state) ==
  /\ Len(right) < MaxLength
  /\ right' = Append(right, state)
  /\ UNCHANGED left

PathsNext == \E s \in States : ObserveLeft(s) \/ ObserveRight(s)

-----------------------------------------------------------------------------
\* The path that a shape and a dwell describe.
Replayed(form) ==
  LET upTo[k \in 0..Len(form.shape)] ==
        IF k = 0 THEN <<>> ELSE upTo[k - 1] \o [i \in 1..form.dwell[k] |-> form.shape[k]]
  IN  upTo[Len(form.shape)]

(* Shape and dwell together reconstruct the path, and no two neighbouring   *)
(* entries of the shape are equal: what is collapsed is duration only, and  *)
(* a return to an earlier state stays visible.                              *)
CollapseIsLossless ==
  LET form == NormalizePathRunCollapse(left)
  IN  /\ Replayed(form) = left
      /\ \A k \in 2..Len(form.shape) : form.shape[k] # form.shape[k - 1]

\* The states entered, in order: form without counting.
Entered(p) ==
  LET entered[i \in 0..Len(p)] ==
        IF i = 0 THEN <<>>
        ELSE IF i > 1 /\ p[i] = p[i - 1] THEN entered[i - 1]
        ELSE Append(entered[i - 1], p[i])
  IN  entered[Len(p)]

(* The cascade is symmetric, and decides form by the sequence of states     *)
(* entered and by it alone: its endpoint filter sets apart exactly the      *)
(* paths whose ends differ, never two paths of one form, and never stands   *)
(* in for equality of form.                                                 *)
RelationIsExact ==
  LET relation == CompareTrajectories(left, right)
  IN  /\ relation = CompareTrajectories(right, left)
      /\ relation = "different_trajectory"
           <=> <<Head(left), Last(left)>> # <<Head(right), Last(right)>>
      /\ relation \in {"equivalent", "same_form_different_duration"}
           <=> Entered(left) = Entered(right)
      /\ GroupByShape(<<left, right, left>>) =
           [form \in {Entered(left), Entered(right)} |->
              IF Entered(left) = Entered(right) THEN <<left, right, left>>
              ELSE IF form = Entered(left) THEN <<left, left>> ELSE <<right>>]
      /\ relation = "equivalent" <=> left = right
=============================================================================
