--------------------------- MODULE Formalization ---------------------------
(***************************************************************************)
(* formalization.ts and the State64 projection built on it, as functions   *)
(* of a registered definition: what applyMathematicalAnchor() admits and   *)
(* returns, and what evaluateRegisteredProjection() accepts and decides.   *)
(* A throw anywhere is the negation of an Admits or Replays operator.      *)
(***************************************************************************)
EXTENDS AnchorDefinitions, SequencesExt

(* An observation is [key, value, unit, evidence]; unit is Blank when the  *)
(* caller gives none, and evidence is a sequence of [id, source, hash].    *)

AllEvidence(observations) ==
  UNION {Elements(o.evidence) : o \in Elements(observations)}

\* validateEvidence(), for one observation.
ValidEvidence(evidence, definition) ==
  /\ Len(evidence) >= definition.minimumReferences
  /\ UniqueIds(evidence)
  /\ \A e \in Elements(evidence) :
       /\ Blank \notin {e.id, e.source}
       /\ definition.requireHash => e.hash # Blank

\* The first conversion from that unit: conversions.find().
ConversionFrom(variable, unit) ==
  SelectInSeq(variable.unit.conversions, LAMBDA c : c.from = unit)

\* An infinite reading of a united variable is refused at the latest when the
\* formal value is typed: it stays infinite, or times a zero scale is no number.
AdmitsUnit(observation, variable) ==
  Present(variable.unit) =>
    /\ observation.value.type = "number"
    /\ IsFinite(observation.value.v)
    /\ observation.unit # Blank
    /\ ConversionFrom(variable, observation.unit) # 0

NormalizeUnit(observation, variable) ==
  IF ~Present(variable.unit) THEN observation.value
  ELSE LET c == variable.unit.conversions[ConversionFrom(variable, observation.unit)]
       IN  Number(observation.value.v * c.scale + c.offset)

\* The numeric transforms refuse other values; an infinity stays one.
AdmitsTransform(value, transform) ==
  /\ transform.kind # "identity" => value.type = "number"
  /\ value.type = "number" => IsFinite(value.v)

TransformValue(value, transform) ==
  CASE transform.kind = "identity"     -> value
    [] transform.kind = "absolute"     -> Number(IF value.v < 0 THEN -value.v ELSE value.v)
    [] transform.kind = "scale_offset" -> Number(value.v * transform.scale + transform.offset)

FormalValue(observation, binding, variable) ==
  TransformValue(NormalizeUnit(observation, variable), binding.transform)

ObservationOf(observations, key) ==
  CHOOSE o \in Elements(observations) : o.key = key

Observed(observations, key) == \E o \in Elements(observations) : o.key = key

\* One turn of the loop over observationBindings.
AdmitsBinding(binding, definition, observations) ==
  LET variable    == VariableOf(definition, binding.variable)
      observation == ObservationOf(observations, binding.key)
  IN  IF Observed(observations, binding.key)
      THEN /\ ValidEvidence(observation.evidence, definition)
           /\ AdmitsUnit(observation, variable)
           /\ AdmitsTransform(NormalizeUnit(observation, variable), binding.transform)
           /\ TypeMatches(FormalValue(observation, binding, variable), variable.valueType)
      ELSE /\ ~binding.required
           /\ Present(binding.default)
           /\ TypeMatches(binding.default, variable.valueType)

\* Everything applyMathematicalAnchor() checks once it has the definition.
AdmitsObservations(definition, observations) ==
  LET keys == [i \in DOMAIN observations |-> observations[i].key]
  IN  /\ Elements(keys) \subseteq {b.key : b \in Elements(definition.bindings)} \ {Blank}
      /\ IsInjective(keys)
      /\ \A b \in Elements(definition.bindings) : AdmitsBinding(b, definition, observations)
      /\ \A e, f \in AllEvidence(observations) : e.id = f.id => e = f

\* Mutation: every row keeps the evidence of the whole call.
RowWithAllEvidence(binding, definition, observations) ==
  LET o == ObservationOf(observations, binding.key)
      observed == Observed(observations, binding.key)
  IN  [binding |-> binding.id, key |-> binding.key, variable |-> binding.variable,
       observed |-> IF observed THEN o.value ELSE None,
       unit |-> IF observed THEN o.unit ELSE Blank, canonicalUnit |-> Blank,
       formal |-> IF observed
                  THEN FormalValue(o, binding, VariableOf(definition, binding.variable))
                  ELSE binding.default,
       origin |-> IF observed THEN "observation" ELSE "declared_default",
       evidence |-> SetToSeq(AllEvidence(observations))]

FormalizedRow(binding, definition, observations) ==
  LET variable == VariableOf(definition, binding.variable)
      o        == ObservationOf(observations, binding.key)
  IN  IF Observed(observations, binding.key)
      THEN [binding |-> binding.id, key |-> binding.key, variable |-> binding.variable,
            observed |-> o.value, unit |-> o.unit,
            formal |-> FormalValue(o, binding, variable),
            canonicalUnit |-> IF Present(variable.unit) THEN variable.unit.canonical ELSE Blank,
            origin |-> "observation", evidence |-> o.evidence]
      ELSE [binding |-> binding.id, key |-> binding.key, variable |-> binding.variable,
            observed |-> None, unit |-> Blank, formal |-> binding.default,
            canonicalUnit |-> Blank, origin |-> "declared_default", evidence |-> <<>>]

FormalVariables(rows) ==
  [x \in {r.variable : r \in Elements(rows)} |->
     (CHOOSE r \in Elements(rows) : r.variable = x).formal]

\* Mutation: the rows follow the observations instead of the bindings.
MaterialInCallOrder(definition, observations) ==
  LET BindingOf(o) == CHOOSE b \in Elements(definition.bindings) : b.key = o.key
      rows == [i \in DOMAIN observations |->
                 FormalizedRow(BindingOf(observations[i]), definition, observations)]
  IN  [domainId |-> definition.domainId, domainVersion |-> definition.domainVersion,
       anchorId |-> definition.id, anchorVersion |-> definition.version,
       projectionVersion |-> definition.projectionVersion,
       variables |-> FormalVariables(rows), rows |-> rows,
       assumptions |-> definition.assumptions, scope |-> definition.scope]

\* The snapshot without its replay key.
Material(definition, observations) ==
  LET rows == [i \in DOMAIN definition.bindings |->
                 FormalizedRow(definition.bindings[i], definition, observations)]
  IN  [domainId |-> definition.domainId, domainVersion |-> definition.domainVersion,
       anchorId |-> definition.id, anchorVersion |-> definition.version,
       projectionVersion |-> definition.projectionVersion,
       variables |-> FormalVariables(rows), rows |-> rows,
       assumptions |-> definition.assumptions, scope |-> definition.scope]

\* The key is the canonical text of the material: equal just when it is.
ReplayKey(material) == <<"MAR", material>>

SnapshotOf(material) == [material |-> material, replayKey |-> ReplayKey(material)]

Formalize(definition, observations) == SnapshotOf(Material(definition, observations))

-----------------------------------------------------------------------------
(* Projection of a snapshot under a registered definition.                 *)

\* Mutation: the formal value is replayed as if it had been observed.
RetainedFormalValues(material) ==
  LET observed == SelectSeq(material.rows, LAMBDA r : r.origin = "observation")
  IN  [i \in DOMAIN observed |->
        [key |-> observed[i].key, value |-> observed[i].formal,
         unit |-> observed[i].unit, evidence |-> observed[i].evidence]]

\* The observations that licensed the snapshot, rebuilt from its rows.
RetainedObservation(row) ==
  [key |-> row.key, value |-> row.observed, unit |-> row.unit, evidence |-> row.evidence]

RetainedObservations(material) ==
  LET rows == material.rows
      retained[i \in 0..Len(rows)] ==
        IF i = 0 THEN <<>>
        ELSE IF rows[i].origin = "observation"
             THEN Append(retained[i - 1], RetainedObservation(rows[i]))
             ELSE retained[i - 1]
  IN  retained[Len(rows)]

SameIdentity(definition, material) ==
  <<definition.domainId, definition.domainVersion, definition.projectionVersion>>
    = <<material.domainId, material.domainVersion, material.projectionVersion>>

SameScope(definition, material) ==
  <<definition.assumptions, definition.scope>> = <<material.assumptions, material.scope>>

\* Mutation: a snapshot that carries its own key is trusted.
TrustsReplayKey(definition, snapshot) ==
  /\ SameIdentity(definition, snapshot.material)
  /\ SameScope(definition, snapshot.material)
  /\ snapshot.replayKey = ReplayKey(snapshot.material)

\* The guards of evaluateRegisteredProjection(), in its order.
Replays(definition, snapshot) ==
  LET material == snapshot.material
      retained == RetainedObservations(material)
  IN  /\ SameIdentity(definition, material)
      /\ SameScope(definition, material)
      /\ snapshot.replayKey = ReplayKey(material)
      /\ \A i \in DOMAIN retained : Present(retained[i].value)
      /\ AdmitsObservations(definition, retained)
      /\ Formalize(definition, retained) = snapshot

\* Mutation: a decision cites the evidence of the whole snapshot.
DecisionCitingAll(predicate, material) ==
  LET result == EvaluateExpression(predicate.expression, material.variables)
  IN  [predicate |-> predicate.id, position |-> predicate.position, result |-> result,
       value |-> IF result THEN OrElse(predicate.trueValue, 1)
                           ELSE OrElse(predicate.falseValue, 0),
       variables |-> VariablesOf(predicate.expression),
       relations |-> RelationsOf(predicate.expression),
       bindings |-> {r.binding : r \in Elements(material.rows)},
       evidence |-> UNION {Elements(r.evidence) : r \in Elements(material.rows)}]

Decision(predicate, material) ==
  LET result == EvaluateExpression(predicate.expression, material.variables)
      rows   == {r \in Elements(material.rows) :
                   r.variable \in VariablesOf(predicate.expression)}
  IN  [predicate |-> predicate.id, position |-> predicate.position, result |-> result,
       value |-> IF result THEN OrElse(predicate.trueValue, 1)
                           ELSE OrElse(predicate.falseValue, 0),
       variables |-> VariablesOf(predicate.expression),
       relations |-> RelationsOf(predicate.expression),
       bindings |-> {r.binding : r \in rows},
       evidence |-> UNION {Elements(r.evidence) : r \in rows}]

\* predicates.slice().sort() by position: the sort is stable, so the i-th is
\* the one that i - 1 others come before.
Before(predicates, j, k) ==
  \/ predicates[j].position < predicates[k].position
  \/ predicates[j].position = predicates[k].position /\ j < k

Place(predicates, k) == Cardinality({j \in DOMAIN predicates : Before(predicates, j, k)}) + 1

InOrder(predicates) ==
  [i \in DOMAIN predicates |->
     predicates[CHOOSE k \in DOMAIN predicates : Place(predicates, k) = i]]

\* The predicates in order, each evaluated.
Decisions(definition, material) ==
  LET inOrder == InOrder(definition.predicates)
  IN  [i \in DOMAIN inOrder |-> Decision(inOrder[i], material)]

BitsOf(decisions) == [i \in DOMAIN decisions |-> decisions[i].value]

\* createBinaryState64() takes six bits; a trueValue or falseValue that is
\* neither 0 nor 1 gets this far and no further.
IsState64(bits) == Len(bits) = 6 /\ \A i \in DOMAIN bits : bits[i] \in {0, 1}

\* projectFormalizedSnapshotToState64(): state, trace and the snapshot itself.
State64Record(definition, snapshot) ==
  LET decisions == Decisions(definition, snapshot.material)
  IN  [snapshot |-> snapshot, bits |-> BitsOf(decisions), decisions |-> decisions]

AdmitsProjection(definition, snapshot) ==
  /\ Replays(definition, snapshot)
  /\ IsState64(BitsOf(Decisions(definition, snapshot.material)))
=============================================================================
