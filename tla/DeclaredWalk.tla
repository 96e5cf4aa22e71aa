---------------------------- MODULE DeclaredWalk ----------------------------
(***************************************************************************)
(* What a committed trajectory is when every rule declares its ends: a     *)
(* walk of the declared graph, one edge after the other, from the state it *)
(* was created in, each edge taken under an authority it allows.           *)
(***************************************************************************)
EXTENDS Sequences

CONSTANT Edges

VARIABLES
  at,     \* the state the walk has reached
  walked  \* the steps taken: [edge, authority]

Init == walked = <<>>

Step(edge, authority) ==
  /\ edge.sourceStateId = at
  /\ authority \in edge.allowedAuthorities
  /\ at' = edge.targetStateId
  /\ walked' = Append(walked, [edge |-> edge, authority |-> authority])

Next == \E e \in Edges : \E a \in e.allowedAuthorities : Step(e, a)

Spec == Init /\ [][Next]_<<at, walked>>
=============================================================================
