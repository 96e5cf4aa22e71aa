------------------------- MODULE AnchorDefinitions -------------------------
(***************************************************************************)
(* The contracts of packages/math-anchors and what makes one admissible:   *)
(* mathematical domains, anchor definitions, and the two validators of     *)
(* validation.ts.  A contract is a record whose fields are those of        *)
(* types.ts; lists whose order or duplicates the code looks at are         *)
(* sequences.  Free text (labels, descriptions) is one field, text, blank  *)
(* when any of the required texts of the object is blank; the dimension of *)
(* a unit and the kind of a relation are such texts.                       *)
(***************************************************************************)
EXTENDS Expressions, FiniteSets, Functions

CONSTANTS
  None,      \* an absent optional field
  MaxNumber  \* numbers beyond it in magnitude stand for the infinities

Blank == ""

Present(field) == field # None

OrElse(field, default) == IF Present(field) THEN field ELSE default

IsFinite(n) == -MaxNumber <= n /\ n <= MaxNumber

Ids(seq) == {seq[i].id : i \in DOMAIN seq}

UniqueIds(seq) == IsInjective([i \in DOMAIN seq |-> seq[i].id])

\* typeof value === expected, and a number must be finite.
TypeMatches(value, expected) ==
  /\ value.type = expected
  /\ value.type = "number" => IsFinite(value.v)

-----------------------------------------------------------------------------
(* The vocabulary: every structure kind belongs to one family.             *)

KindsOf == [
  metric_geometric |-> {"metric", "pseudometric", "norm", "vector_space_relation"},
  order |-> {"partial_order", "total_order", "ranking_relation"},
  graph |-> {"node", "edge", "directed_relation", "path", "connectivity",
             "dependency_graph"},
  probability_information |-> {"probability_distribution", "entropy", "divergence",
             "conditional_probability", "mutual_information_relation"},
  dynamical_state |-> {"state_space", "transition_relation",
             "discrete_dynamical_system"},
  constraint |-> {"feasibility_relation", "constraint_set", "boundary",
             "admissible_region"},
  decision_value |-> {"utility", "cost", "objective", "preference_relation"},
  similarity |-> {"similarity_function", "kernel_relation", "equivalence_relation"},
  uncertainty |-> {"probability_uncertainty", "interval_uncertainty",
             "bounded_uncertainty"}]

StructureKinds == UNION {KindsOf[f] : f \in DOMAIN KindsOf}

FamilyFor(kind) == CHOOSE f \in DOMAIN KindsOf : kind \in KindsOf[f]

\* evaluateExpression(), over the formal variables of a snapshot.
EvaluateExpression(expression, variables) ==
  TruthOf(expression, LAMBDA test : Compare(variables[test.variable], test))

-----------------------------------------------------------------------------
(* The validators.                                                         *)

ValidDomain(domain) ==
  /\ Blank \notin {domain.id, domain.version, domain.text}
  /\ domain.admissible # <<>>
  /\ IsInjective(domain.admissible)
  /\ domain.kind \in StructureKinds
  /\ domain.family = FamilyFor(domain.kind)

\* The canonical unit has exactly one conversion, and it is the identity.
ValidUnit(unit) ==
  LET canonical == {i \in DOMAIN unit.conversions :
                      unit.conversions[i].from = unit.canonical}
  IN  /\ unit.canonical # Blank
      /\ Cardinality(canonical) = 1
      /\ \A i \in canonical : /\ unit.conversions[i].scale = 1
                              /\ unit.conversions[i].offset = 0
      /\ \A c \in Elements(unit.conversions) : IsFinite(c.scale) /\ IsFinite(c.offset)

ValidVariable(variable) ==
  /\ Blank \notin {variable.id, variable.text}
  /\ Present(variable.unit) => ValidUnit(variable.unit)

ValidRelation(relation, variableIds) ==
  /\ Blank \notin {relation.id, relation.text}
  /\ relation.operands # {}
  /\ relation.operands \subseteq variableIds

\* The first variable of that id: definition.variables.find().
VariableOf(definition, id) ==
  LET first == CHOOSE i \in DOMAIN definition.variables :
                 /\ definition.variables[i].id = id
                 /\ \A j \in 1..(i - 1) : definition.variables[j].id # id
  IN  definition.variables[first]

ValidBinding(binding, definition, domain) ==
  /\ Blank \notin {binding.id, binding.key}
  /\ binding.variable \in Ids(definition.variables)
  /\ binding.key \in Elements(domain.admissible)
  /\ binding.required \/ Present(binding.default)
  /\ Present(binding.default) =>
       TypeMatches(binding.default, VariableOf(definition, binding.variable).valueType)
  /\ binding.transform.kind = "scale_offset" =>
       IsFinite(binding.transform.scale) /\ IsFinite(binding.transform.offset)

\* A group with no clause at all is empty, whether or not its any-list is there.
ValidExpression(expression, variableIds, relationIds) ==
  /\ VariablesOf(expression) \subseteq variableIds
  /\ RelationsOf(expression) \subseteq relationIds
  /\ \A n \in Elements(expression) :
       IF n.kind = "test" THEN n.operator = "in" => n.expected.array
                          ELSE n.all \cup n.any \cup n.none # {}

\* Positions are counted in halves: the check compares them with 1 and 6 and
\* never asks for an integer.  Position p of the code is 2p here.
ValidPositions(predicates) ==
  LET positions == {p.position : p \in Elements(predicates)}
  IN  /\ Cardinality(positions) = 6
      /\ \A p \in positions : 2 <= p /\ p <= 12

ValidProjection(definition) ==
  LET predicates == definition.predicates
  IN  /\ definition.projectionVersion # Blank
      /\ Len(predicates) = 6
      /\ ValidPositions(predicates)
      /\ \A p \in Elements(predicates) :
           /\ Blank \notin {p.id, p.text}
           /\ ValidExpression(p.expression, Ids(definition.variables),
                              Ids(definition.relations))

ValidBindings(definition, domain) ==
  LET bindings == definition.bindings
  IN  /\ UniqueIds(bindings)
      /\ IsInjective([i \in DOMAIN bindings |-> bindings[i].key])
      /\ IsInjective([i \in DOMAIN bindings |-> bindings[i].variable])
      /\ \A b \in Elements(bindings) : ValidBinding(b, definition, domain)
      /\ Ids(definition.variables) \subseteq {b.variable : b \in Elements(bindings)}

ValidAnchor(definition, domain) ==
  /\ Blank \notin {definition.id, definition.version, definition.text,
                   definition.domainId, definition.domainVersion}
  /\ <<definition.domainId, definition.domainVersion>> = <<domain.id, domain.version>>
  /\ definition.kind \in StructureKinds
  /\ definition.kind = domain.kind
  /\ UniqueIds(definition.variables)
  /\ UniqueIds(definition.relations)
  /\ \A v \in Elements(definition.variables) : ValidVariable(v)
  /\ \A r \in Elements(definition.relations) : ValidRelation(r, Ids(definition.variables))
  /\ ValidBindings(definition, domain)
  /\ definition.assumptions # <<>>
  /\ UniqueIds(definition.assumptions)
  /\ definition.minimumReferences >= 0
  /\ ValidProjection(definition)
=============================================================================
