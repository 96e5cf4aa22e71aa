-------------------------- MODULE KernelFunctions ---------------------------
(***************************************************************************)
(* packages/kernel as functions: derived states (states.ts), guarded       *)
(* transitions (transitions.ts) and the graph that rules declare           *)
(* (graph.ts); what it checks of parameters, their definitions, snapshots  *)
(* against them and the keys that predicate expressions refer to           *)
(* (parameters.ts), the weighted similarity of two snapshots               *)
(* (similarity.ts), the class of a transition's regime (regimes.ts) and    *)
(* the policies resolved for it (policies.ts).  A parameter snapshot is a  *)
(* function from the keys it holds to typed values, a definition           *)
(* [key, kind, min, max, allowedValues].                                   *)
(***************************************************************************)
EXTENDS Expressions, SequencesExt

CONSTANT Null  \* a null state id, or an optional field that is not given

Declared(field) == field # Null

\* A test of a parameter the snapshot does not hold is false, even "neq".
EvaluatePredicate(test, parameters) ==
  /\ test.variable \in DOMAIN parameters
  /\ Compare(parameters[test.variable], test)

EvaluatePredicateSet(expression, parameters) ==
  TruthOf(expression, LAMBDA test : EvaluatePredicate(test, parameters))

Guarded(rule, parameters) ==
  Declared(rule.guards) => EvaluatePredicateSet(rule.guards, parameters)

MatchingStates(definitions, parameters) ==
  SelectSeq(definitions, LAMBDA d : EvaluatePredicateSet(d.predicates, parameters))

\* The first of the highest priority: the sort is stable.
SelectedState(definitions, parameters) ==
  LET matching == MatchingStates(definitions, parameters)
      first    == CHOOSE i \in DOMAIN matching : \A j \in DOMAIN matching :
                    \/ matching[i].priority > matching[j].priority
                    \/ matching[i].priority = matching[j].priority /\ i <= j
  IN  IF matching = <<>> THEN Null ELSE matching[first].id

\* The effects are assigned in order, over the keys there are or as new ones:
\* the last one of a key decides.
ApplyEffects(parameters, rule) ==
  LET effects   == rule.effects
      keys      == {effects[i].key : i \in DOMAIN effects}
      last(key) == CHOOSE i \in DOMAIN effects :
                     /\ effects[i].key = key
                     /\ \A j \in DOMAIN effects : effects[j].key = key => j <= i
  IN  [key \in DOMAIN parameters \cup keys |->
         IF key \in keys THEN effects[last(key)].value ELSE parameters[key]]

\* Mutation: the attempt's source state is not compared with the rule's.
AdmitsAnySource(rule, attempt) ==
  /\ rule.id = attempt.ruleId
  /\ attempt.authority \in rule.allowedAuthorities
  /\ Guarded(rule, attempt.parameters)

\* An attempt is [ruleId, sourceStateId, authority, parameters].
Admits(rule, attempt) ==
  /\ rule.id = attempt.ruleId
  /\ attempt.authority \in rule.allowedAuthorities
  /\ Declared(rule.sourceStateIds) => attempt.sourceStateId \in rule.sourceStateIds \ {Null}
  /\ Guarded(rule, attempt.parameters)

\* Mutation: a declared target is believed, not derived.
TargetAsDeclared(rule, attempt, definitions) ==
  IF Declared(rule.targetStateId) THEN rule.targetStateId
  ELSE SelectedState(definitions, ApplyEffects(attempt.parameters, rule))

\* The state derived from the parameters the rule leaves behind.
TargetOf(rule, attempt, definitions) ==
  SelectedState(definitions, ApplyEffects(attempt.parameters, rule))

ReachesTarget(rule, attempt, definitions) ==
  Declared(rule.targetStateId) => TargetOf(rule, attempt, definitions) = rule.targetStateId

\* evaluateTransition(): a rejection leaves state and parameters as they were.
EvaluateTransition(rule, attempt, definitions) ==
  LET accepted == Admits(rule, attempt) /\ ReachesTarget(rule, attempt, definitions)
  IN  [ruleId |-> attempt.ruleId, authority |-> attempt.authority, accepted |-> accepted,
       sourceStateId |-> attempt.sourceStateId,
       targetStateId |-> IF accepted THEN TargetOf(rule, attempt, definitions)
                                     ELSE attempt.sourceStateId,
       before |-> attempt.parameters,
       after |-> IF accepted THEN ApplyEffects(attempt.parameters, rule)
                             ELSE attempt.parameters]

-----------------------------------------------------------------------------
\* compileDeclaredStateGraph() throws unless every rule declares both ends
\* among the defined states.
Compiles(definitions, rules) ==
  LET stateIds == {d.id : d \in Elements(definitions)}
  IN  \A r \in rules :
        /\ r.sourceStateIds \notin {Null, {}}
        /\ r.sourceStateIds \subseteq stateIds
        /\ r.targetStateId \in stateIds

DeclaredEdges(rules) ==
  UNION {{[ruleId |-> r.id, sourceStateId |-> s, targetStateId |-> r.targetStateId,
           allowedAuthorities |-> r.allowedAuthorities] : s \in r.sourceStateIds} :
         r \in rules}

-----------------------------------------------------------------------------
Blank == ""

Categorical(definition) == definition.kind \in {"categorical", "ordinal"}

IsValidValue(definition, value) ==
  CASE definition.kind = "boolean" -> value.type = "boolean"
    [] definition.kind = "number" ->
         /\ value.type = "number"
         /\ Declared(definition.min) => value.v >= definition.min
         /\ Declared(definition.max) => value.v <= definition.max
    [] Categorical(definition) ->
         /\ value.type = "string"
         /\ Declared(definition.allowedValues) /\ value.v \in definition.allowedValues

Issue(key, message) == [parameterKey |-> key, message |-> message]

Issues(definitions, Concerns(_), message) ==
  {Issue(definitions[i].key, message) : i \in {j \in DOMAIN definitions : Concerns(j)}}

ValidateParameterDefinitions(definitions) ==
  LET d(i) == definitions[i]
  IN  UNION {
        Issues(definitions, LAMBDA i : d(i).key = Blank, "empty"),
        Issues(definitions, LAMBDA i : \E j \in 1..(i - 1) : d(j).key = d(i).key, "repeated"),
        Issues(definitions, LAMBDA i : Categorical(d(i)) /\ d(i).allowedValues \in {Null, {}},
               "no values"),
        Issues(definitions, LAMBDA i : /\ d(i).kind = "number"
                                       /\ Declared(d(i).min) /\ Declared(d(i).max)
                                       /\ d(i).min > d(i).max, "no range")}

DefinedKeys(definitions) == {d.key : d \in Elements(definitions)}

\* Mutation: a parameter without a value is passed over.
SnapshotIssuesOfValues(definitions, parameters) ==
  Issues(definitions,
         LAMBDA i : /\ definitions[i].key \in DOMAIN parameters
                    /\ ~IsValidValue(definitions[i], parameters[definitions[i].key]), "invalid")
    \cup {Issue(k, "unknown") : k \in DOMAIN parameters \ DefinedKeys(definitions)}

SnapshotIssues(definitions, parameters) ==
  UNION {
    Issues(definitions, LAMBDA i : definitions[i].key \notin DOMAIN parameters, "missing"),
    Issues(definitions,
           LAMBDA i : /\ definitions[i].key \in DOMAIN parameters
                      /\ ~IsValidValue(definitions[i], parameters[definitions[i].key]), "invalid"),
    {Issue(k, "unknown") : k \in DOMAIN parameters \ DefinedKeys(definitions)}}

ValidateParameterSnapshot(definitions, parameters) ==
  ValidateParameterDefinitions(definitions) \cup SnapshotIssues(definitions, parameters)

\* assertValidParameterSnapshot() does not throw.
ValidSnapshot(definitions, parameters) ==
  ValidateParameterSnapshot(definitions, parameters) = {}

Members(node) == IF node.kind = "test" THEN {} ELSE node.all \cup node.any \cup node.none

\* The keys tested below the root of an expression, through all, any and none.
ReferencedKeys(expression) ==
  LET keys[i \in DOMAIN expression] ==
        LET node == expression[i]
        IN  IF node.kind = "test" THEN {node.variable}
            ELSE UNION {keys[j] : j \in Members(node)}
  IN  keys[1]

ValidatePredicateParameterReferences(definitions, references) ==
  ValidateParameterDefinitions(definitions) \cup
    {Issue(k, "undeclared") :
       k \in (UNION {ReferencedKeys(e) : e \in references}) \ DefinedKeys(definitions)}

-----------------------------------------------------------------------------
\* left[key] === right[key], for a key that either may lack.
SameValue(left, right, key) ==
  /\ key \in DOMAIN left <=> key \in DOMAIN right
  /\ key \in DOMAIN left => left[key] = right[key]

\* The weights of those that count, added up from the first.
TotalWeight(weighted, counted) ==
  LET sum[i \in 0..Len(weighted)] ==
        IF i = 0 THEN 0
        ELSE IF i \in counted THEN sum[i - 1] + weighted[i].weight ELSE sum[i - 1]
  IN  sum[Len(weighted)]

\* weightedSnapshotSimilarity() in ten-thousandths, as toFixed(4) rounds it;
\* it throws unless the total weight is positive.
WeightedSnapshotSimilarity(left, right, weighted) ==
  LET matched == TotalWeight(weighted, {i \in DOMAIN weighted :
                               SameValue(left, right, weighted[i].parameterKey)})
      total   == TotalWeight(weighted, DOMAIN weighted)
  IN  (20000 * matched + total) \div (2 * total)

-----------------------------------------------------------------------------
DefaultThresholds ==
  [localMaxChangedParameters |-> 1, partialMaxChangedParameters |-> 2,
   inversionMinChangedParameters |-> 5]

\* Mutation: a key that a transition adds has not changed.
ChangedKeysOfBefore(transition) ==
  {k \in DOMAIN transition.before : ~SameValue(transition.before, transition.after, k)}

ChangedParameterKeys(transition) ==
  {k \in DOMAIN transition.before \cup DOMAIN transition.after :
     ~SameValue(transition.before, transition.after, k)}

StateChanged(transition) == transition.sourceStateId # transition.targetStateId

\* The first class whose test succeeds.
RegimeClass(transition, magnitude, thresholds) ==
  IF ~transition.accepted THEN "unclassified"
  ELSE IF magnitude = 0 /\ ~StateChanged(transition) THEN "no_change"
  ELSE IF magnitude <= thresholds.localMaxChangedParameters THEN "local_adjustment"
  ELSE IF magnitude <= thresholds.partialMaxChangedParameters THEN "partial_reconfiguration"
  ELSE IF magnitude >= thresholds.inversionMinChangedParameters THEN "structural_inversion"
  ELSE "regime_shift"

\* A threshold that is not given has its default.
Resolved(given) ==
  [name \in DOMAIN DefaultThresholds |->
     IF name \in DOMAIN given THEN given[name] ELSE DefaultThresholds[name]]

ClassifyTransitionRegime(transition, given) ==
  LET magnitude == Cardinality(ChangedParameterKeys(transition))
  IN  [transitionRuleId |-> transition.ruleId,
       sourceStateId |-> transition.sourceStateId,
       targetStateId |-> transition.targetStateId,
       changeMagnitude |-> magnitude,
       regimeClass |-> RegimeClass(transition, magnitude, Resolved(given))]

-----------------------------------------------------------------------------
\* An optional list of state ids refuses a classification without a state.
Lists(ids, id) == Declared(ids) => Declared(id) /\ id \in ids

\* Mutation: an authority that nobody claims is not an allowed one.
PolicyNeedsAuthority(policy, classification, transition) ==
  /\ classification.regimeClass \in policy.appliesToRegimeClasses
  /\ Lists(policy.sourceStateIds, classification.sourceStateId)
  /\ Lists(policy.targetStateIds, classification.targetStateId)
  /\ Lists(policy.transitionRuleIds, classification.transitionRuleId)
  /\ Declared(policy.allowedAuthorities) =>
       Declared(transition) /\ transition.authority \in policy.allowedAuthorities

\* A policy's authorities are looked at only if the caller passes the transition.
PolicyMatchesClassification(policy, classification, transition) ==
  /\ classification.regimeClass \in policy.appliesToRegimeClasses
  /\ Lists(policy.sourceStateIds, classification.sourceStateId)
  /\ Lists(policy.targetStateIds, classification.targetStateId)
  /\ Lists(policy.transitionRuleIds, classification.transitionRuleId)
  /\ Declared(policy.allowedAuthorities) /\ Declared(transition) =>
       transition.authority \in policy.allowedAuthorities

PriorityOf(policy) == IF Declared(policy.priority) THEN policy.priority ELSE 0

MatchingPolicies(classification, policies, transition) ==
  {i \in DOMAIN policies : PolicyMatchesClassification(policies[i], classification, transition)}

\* The sort is stable: a policy goes behind those of its own priority.
GoesBefore(policies, j, k) ==
  \/ PriorityOf(policies[j]) > PriorityOf(policies[k])
  \/ PriorityOf(policies[j]) = PriorityOf(policies[k]) /\ j < k

PlaceOf(policies, matching, k) ==
  Cardinality({j \in matching : GoesBefore(policies, j, k)}) + 1

MatchedPolicies(classification, policies, transition) ==
  LET matching == MatchingPolicies(classification, policies, transition)
  IN  [i \in 1..Cardinality(matching) |->
         policies[CHOOSE k \in matching : PlaceOf(policies, matching, k) = i]]

SelectedPolicy(classification, policies, transition) ==
  LET matched == MatchedPolicies(classification, policies, transition)
  IN  IF matched = <<>> THEN Null ELSE Head(matched)

=============================================================================
