--------------------------- MODULE RunCollapseInto ---------------------------
(***************************************************************************)
(* run_collapse_into() (packages/core-rs/src/shapes.rs): the run-collapse  *)
(* loop over buffers the caller owns and may have used before.  Its        *)
(* debug_assert! asks for buffers as long as the path; a release build     *)
(* goes on with shorter ones and stops when they are full.  Indices count  *)
(* from one, so runs is also the index of the last run.                    *)
(***************************************************************************)
EXTENDS Integers, Sequences

CONSTANTS
  Bytes,       \* the bytes a path may hold
  Lengths,     \* lengths of paths and of buffers
  Leftovers    \* what the buffers may hold before the call

ASSUME BytesAssumption == Bytes \subseteq Nat

ASSUME LengthsAssumption == Lengths \subseteq Nat

ASSUME LeftoversAssumption == Leftovers \subseteq Nat

VARIABLES
  path,     \* the caller's path
  shape,    \* the caller's shape buffer
  dwell,    \* the caller's dwell buffer
  runs,     \* the runs opened so far
  read,     \* the entries of the path the loop has consumed
  pc,       \* "loop" or "returned"
  opened    \* history: where in the path each run was opened

vars == <<path, shape, dwell, runs, read, pc, opened>>

\* state & Q3_MASK
Q3(byte) == byte % 8

Capacity == IF Len(shape) < Len(dwell) THEN Len(shape) ELSE Len(dwell)

Buffers(S) == UNION {[1..n -> S] : n \in Lengths}

Init ==
  /\ path \in Buffers(Bytes)
  /\ shape \in Buffers(Leftovers)
  /\ dwell \in Buffers(Leftovers)
  /\ runs = 0
  /\ read = 0
  /\ pc = "loop"
  /\ opened = <<>>

Pending == pc = "loop" /\ read < Len(path)

Continues == runs > 0 /\ shape[runs] = Q3(path[read + 1])

Extend ==
  /\ Pending /\ Continues
  /\ dwell' = [dwell EXCEPT ![runs] = @ + 1]
  /\ read' = read + 1
  /\ UNCHANGED <<path, shape, runs, pc, opened>>

\* Mutation: the dwell of a new run is not reset.
OpenDirty ==
  /\ Pending /\ ~Continues /\ runs < Capacity
  /\ shape' = [shape EXCEPT ![runs + 1] = Q3(path[read + 1])]
  /\ dwell' = [dwell EXCEPT ![runs + 1] = @ + 1]
  /\ runs' = runs + 1
  /\ read' = read + 1
  /\ opened' = Append(opened, read + 1)
  /\ UNCHANGED <<path, pc>>

Open ==
  /\ Pending /\ ~Continues /\ runs < Capacity
  /\ shape' = [shape EXCEPT ![runs + 1] = Q3(path[read + 1])]
  /\ dwell' = [dwell EXCEPT ![runs + 1] = 1]
  /\ runs' = runs + 1
  /\ read' = read + 1
  /\ opened' = Append(opened, read + 1)
  /\ UNCHANGED <<path, pc>>

\* Mutation: a full buffer ends the call even inside a run.
ReturnWhenFull ==
  /\ pc = "loop"
  /\ read = Len(path) \/ runs = Capacity
  /\ pc' = "returned"
  /\ UNCHANGED <<path, shape, dwell, runs, read, opened>>

\* The end of the path, or break: a new run and no room for it.
Return ==
  /\ pc = "loop"
  /\ Pending => ~Continues /\ runs >= Capacity
  /\ pc' = "returned"
  /\ UNCHANGED <<path, shape, dwell, runs, read, opened>>

Next == Extend \/ Open \/ Return

Spec == Init /\ [][Next]_vars

-----------------------------------------------------------------------------
\* Where run k ends: before the next one, or at the last entry read.
EndOf(k) == IF k < runs THEN opened[k + 1] - 1 ELSE read

TypeOK ==
  /\ path \in Seq(Nat)
  /\ shape \in Seq(Nat)
  /\ dwell \in Seq(Nat)
  /\ runs \in 0..Len(shape) /\ runs <= Len(dwell)
  /\ read \in 0..Len(path)
  /\ pc \in {"loop", "returned"}
  /\ opened \in Seq(Nat) /\ Len(opened) = runs

(* The first runs entries of the buffers are the run-collapse of what has   *)
(* been read, whatever the buffers held before: the runs tile the prefix,   *)
(* each covers entries of its own masked state and counts them in dwell,    *)
(* and neighbouring runs differ.                                            *)
RunsTilePrefix ==
  /\ read > 0 => runs > 0 /\ opened[1] = 1
  /\ \A k \in 1..runs :
       /\ opened[k] <= EndOf(k)
       /\ dwell[k] = EndOf(k) - opened[k] + 1
       /\ \A i \in opened[k]..EndOf(k) : Q3(path[i]) = shape[k]
       /\ k < runs => shape[k] # shape[k + 1]

(* A call gives up only for want of room: what it returns covers the whole  *)
(* path, or the longest prefix with as many runs as the shorter buffer has  *)
(* entries; with buffers as long as the path it always covers the path.     *)
StopsOnlyWhenFull ==
  pc = "returned" =>
    \/ read = Len(path)
    \/ /\ runs = Capacity
       /\ runs > 0 => Q3(path[read + 1]) # shape[runs]
       /\ Capacity < Len(path)
=============================================================================
