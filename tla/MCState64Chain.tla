--------------------------- MODULE MCState64Chain ---------------------------
(***************************************************************************)
(* Chains of three states: two turns of the loop meet every ordered pair   *)
(* of states as the last transition, after a first one from each source.   *)
(* The encoders write their rules forwards, backwards and rotated; two of  *)
(* the rules read a low measurement as 1.                                  *)
(***************************************************************************)
EXTENDS State64Forms

Ends == {{}, {2, 4}, Positions}

Parameter(p) ==
  [key |-> <<"p1", "p2", "p3", "p4", "p5", "p6">>[p],
   kind |-> "number", min |-> 0, max |-> 9, allowedValues |-> Null]

Rule(p) ==
  LET high(operator) == <<Kernel!Test(Parameter(p).key, {}, operator,
                                      Kernel!Scalar(Kernel!Number(5)))>>
  IN  [position |-> p, predicate |-> high(IF p = 2 THEN "lt" ELSE "gte"),
       trueValue |-> IF p = 5 THEN 0 ELSE Null, falseValue |-> IF p = 5 THEN 1 ELSE Null]

Encoder(order) ==
  [parameterDefinitions |-> [i \in 1..6 |-> Parameter(order[i])],
   bitRules |-> [i \in 1..6 |-> Rule(order[i])]]

MCEncoders == {Encoder(<<1, 2, 3, 4, 5, 6>>), Encoder(<<6, 5, 4, 3, 2, 1>>),
               Encoder(<<4, 5, 6, 1, 2, 3>>)}

MCReadings == {Kernel!Number(2), Kernel!Number(7)}
=============================================================================
