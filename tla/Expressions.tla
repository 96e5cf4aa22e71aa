---------------------------- MODULE Expressions ----------------------------
(***************************************************************************)
(* Typed values and predicate expressions, shared by the anchors of        *)
(* packages/math-anchors and the states and rules of packages/kernel.      *)
(***************************************************************************)
EXTENDS Integers, Sequences

Elements(seq) == {seq[i] : i \in DOMAIN seq}

-----------------------------------------------------------------------------
(* Values: a type tag and an integer (0 or 1 for a boolean, an index for a *)
(* string), so that values of different types compare unequal, as they do  *)
(* under ===.                                                              *)

Number(n)  == [type |-> "number", v |-> n]
Boolean(b) == [type |-> "boolean", v |-> IF b THEN 1 ELSE 0]
String(s)  == [type |-> "string", v |-> s]

-----------------------------------------------------------------------------
(* Predicate expressions are trees kept as sequences of nodes: node 1 is   *)
(* the root, and a group names its members by their larger indices.        *)
(* hasAny tells an absent any-group from an empty one: the code evaluates  *)
(* the first to true and the second to false.                              *)

Test(variable, relations, operator, expected) ==
  [kind |-> "test", variable |-> variable, relations |-> relations,
   operator |-> operator, expected |-> expected]

Group(all, hasAny, any, none) ==
  [kind |-> "group", all |-> all, hasAny |-> hasAny, any |-> any, none |-> none]

Scalar(value)  == [array |-> FALSE, values |-> {value}]
Array(values)  == [array |-> TRUE, values |-> values]

Tests(expression) == {n \in Elements(expression) : n.kind = "test"}

VariablesOf(expression) == {t.variable : t \in Tests(expression)}

RelationsOf(expression) == UNION {t.relations : t \in Tests(expression)}

\* The comparison of one test: relational operators hold only of numbers.
Compare(actual, test) ==
  LET expected == test.expected
      equal    == expected = Scalar(actual)
      number(P(_)) == /\ actual.type = "number"
                      /\ ~expected.array
                      /\ \A e \in expected.values : e.type = "number" /\ P(e.v)
  IN  CASE test.operator = "eq"  -> equal
        [] test.operator = "neq" -> ~equal
        [] test.operator = "gt"  -> number(LAMBDA e : actual.v > e)
        [] test.operator = "gte" -> number(LAMBDA e : actual.v >= e)
        [] test.operator = "lt"  -> number(LAMBDA e : actual.v < e)
        [] test.operator = "lte" -> number(LAMBDA e : actual.v <= e)
        [] test.operator = "in"  -> expected.array /\ actual \in expected.values

\* The truth of an expression whose tests hold as given, from the leaves up.
TruthOf(expression, Holds(_)) ==
  LET truth[i \in DOMAIN expression] ==
        LET node == expression[i]
        IN  IF node.kind = "test"
            THEN Holds(node)
            ELSE /\ \A j \in node.all : truth[j]
                 /\ node.hasAny => \E j \in node.any : truth[j]
                 /\ \A j \in node.none : ~truth[j]
  IN  truth[1]
=============================================================================
