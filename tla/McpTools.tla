------------------------------ MODULE McpTools ------------------------------
(***************************************************************************)
(* The tools of the MCP server (packages/cli/src/mcp.rs): those that look  *)
(* at one vector of observations, one transition or one chain; those that  *)
(* build a packet out of many chains, or out of a timeline; and the one    *)
(* that validates a packet an agent hands in.  Each maps the arguments of  *)
(* a call to a result or to the reasons for which it refuses, and nothing  *)
(* is kept between two calls: validation builds the packet again.          *)
(***************************************************************************)
EXTENDS State64, JsonValues

Ok(result) == [status |-> "ok", result |-> result]

Rejected(faults) == [status |-> "rejected", faults |-> faults]

Outcome(faults, result) == IF faults # {} THEN Rejected(faults) ELSE Ok(result)

NoInference == [inferenceUsed |-> Bool(FALSE)]

\* A field that is copied when it is there.
Optional(json, key) == IF Has(json, key) THEN key :> json.fields[key] ELSE [none \in {} |-> none]

-----------------------------------------------------------------------------
StateId(state) == [ascii |-> <<"S64-", state>>, rest |-> <<>>]
MaskId(mask) == [ascii |-> <<"M64-", mask>>, rest |-> <<>>]
Binary(state) == [ascii |-> <<"", state>>, rest |-> <<>>]

IsStateId(text) == Len(text.ascii) = 2 /\ text.ascii[1] = "S64-" /\ text.rest = <<>>

StateOf(text) == text.ascii[2]

ModuleScopeName(code) == <<"none", "lower_only", "upper_only", "both_modules">>[code + 1]

RegimeClassName(code) ==
  <<"no_change", "bit_adjustment", "module_reconfiguration",
    "cross_module_regime_shift", "near_total_inversion", "full_bit_reversal">>[code + 1]

\* lookup_transition64, without the numbers of the two states.
Lookup(source, target) == RowByMask[MutationBetween(source, target)]

RegimeOf(source, target) == RegimeClassName(Lookup(source, target).regimeClass)

-----------------------------------------------------------------------------
Operators == {"eq", "neq", "gt", "gte", "lt", "lte"}

OperatorOf(observation) == Get(observation, "operator").text.ascii[1]

CompareValues(left, operator, right) ==
  CASE operator = "eq" -> Same(left, right)
    [] operator = "neq" -> ~Same(left, right)
    [] operator = "gt" -> AsFloat(left) > AsFloat(right)
    [] operator = "gte" -> AsFloat(left) >= AsFloat(right)
    [] operator = "lt" -> AsFloat(left) < AsFloat(right)
    [] operator = "lte" -> AsFloat(left) <= AsFloat(right)

ComparisonFaults(observation) ==
  CASE OperatorOf(observation) \notin Operators -> {"operator"}
    [] OperatorOf(observation) \in {"gt", "gte", "lt", "lte"}
         /\ ~(IsNumeric(Get(observation, "value")) /\ IsNumeric(Get(observation, "threshold")))
         -> {"not numeric"}
    [] OTHER -> {}

ObservationFaults(observation) ==
  LET keyFaults == RequiredFaults(observation, "key", "string")
      operatorFaults == RequiredFaults(observation, "operator", "string")
      fieldFaults == FieldFaults(observation, "value") \cup FieldFaults(observation, "threshold")
  IN  keyFaults \cup operatorFaults \cup fieldFaults
        \cup UNION {OptionalBitFaults(observation, key) : key \in {"trueBit", "falseBit"}}
        \cup UNION {OptionalFaults(observation, key, "string") : key \in {"source", "unit"}}
        \cup (IF keyFaults = {} /\ Get(observation, "key").text = Word("") THEN {"blank key"} ELSE {})
        \cup (IF operatorFaults \cup fieldFaults = {} THEN ComparisonFaults(observation) ELSE {})

AnchorFaults(args) ==
  LET shape == RequiredFaults(args, "observations", "array")
      observations == Get(args, "observations").items
  IN  IF shape # {} THEN shape
      ELSE IF Len(observations) # 6 THEN {"six"}
      ELSE UNION {ObservationFaults(observations[i]) : i \in DOMAIN observations}

ResultOf(observation) ==
  CompareValues(Get(observation, "value"), OperatorOf(observation), Get(observation, "threshold"))

\* Mutation: the bit is the result, whatever bits the observation asks for.
BitAsResult(observation) == IF ResultOf(observation) THEN 1 ELSE 0

BitOf(observation) ==
  IF ResultOf(observation) THEN ValueOr(observation, "trueBit", 1)
                           ELSE ValueOr(observation, "falseBit", 0)

AnchorDecision(position, observation) ==
  Object([position |-> Number(position),
          key |-> Get(observation, "key"),
          operator |-> Get(observation, "operator"),
          value |-> Get(observation, "value"),
          threshold |-> Get(observation, "threshold"),
          result |-> Bool(ResultOf(observation)),
          trueBit |-> Number(ValueOr(observation, "trueBit", 1)),
          falseBit |-> Number(ValueOr(observation, "falseBit", 0)),
          bit |-> Number(BitOf(observation))]
         @@ Optional(observation, "source") @@ Optional(observation, "unit"))

AnchoredState(observations) == {position \in Positions : BitOf(observations[position]) = 1}

AnchorState64(args) ==
  LET observations == Get(args, "observations").items
      state == AnchoredState(observations)
  IN  Outcome(AnchorFaults(args),
        Object([stateId |-> String(StateId(state)),
                stateNumber |-> Number(NumberOf(state)),
                binary |-> String(Binary(state)),
                decisions |-> Array([i \in 1..6 |-> AnchorDecision(i, observations[i])]),
                anchorMode |-> Spelled("deterministic_observed_parameters")] @@ NoInference))

-----------------------------------------------------------------------------
StateFaults(json) ==
  CASE json.is # "string" -> {"type"}
    [] json.is = "string" -> IF IsStateId(json.text) THEN {} ELSE {"state id"}

StateFieldFaults(args, key) ==
  IF RequiredFaults(args, key, "string") # {} THEN RequiredFaults(args, key, "string")
  ELSE StateFaults(Get(args, key))

\* transition_json: the packed word is printed as a decimal text, here as its bits.
TransitionJson(source, target) ==
  LET entry == Transition64Entry(source, target)
      mask == MutationBetween(source, target)
  IN  Object([sourceStateId |-> String(StateId(source)),
              targetStateId |-> String(StateId(target)),
              mutationMask |-> String(MaskId(mask)),
              changedPositions |-> Array([i \in 1..Cardinality(mask) |-> Number(SetToSortSeq(mask, <)[i])]),
              distance |-> Number(entry.distance),
              lowerDistance |-> Number(entry.lowerDistance),
              upperDistance |-> Number(entry.upperDistance),
              moduleScope |-> Spelled(ModuleScopeName(entry.moduleScope)),
              regimeClass |-> Spelled(RegimeClassName(entry.regimeClass)),
              sourceNumber |-> Number(entry.source),
              targetNumber |-> Number(entry.target),
              mutationMaskNumber |-> Number(entry.mutationMask),
              transitionIndex |-> Number(entry.index),
              packed |-> String([ascii |-> <<"packed", Pack(entry)>>, rest |-> <<>>])] @@ NoInference)

LookupTransition64(args) ==
  Outcome(StateFieldFaults(args, "sourceStateId") \cup StateFieldFaults(args, "targetStateId"),
    TransitionJson(StateOf(Get(args, "sourceStateId").text), StateOf(Get(args, "targetStateId").text)))

-----------------------------------------------------------------------------
Windows(states) == [i \in 1..(Len(states) - 1) |-> <<states[i], states[i + 1]>>]

MasksOf(states) ==
  [i \in DOMAIN Windows(states) |-> MutationBetween(states[i], states[i + 1])]

\* compress_chain64 of the Rust core.
NetMutation(states) ==
  FoldLeft(LAMBDA net, pair : MutationBetween(net, MutationBetween(pair[1], pair[2])), {}, Windows(states))

ChainDistance(states) ==
  FoldLeft(LAMBDA sum, pair : sum + Cardinality(MutationBetween(pair[1], pair[2])), 0, Windows(states))

\* C64:source>target|M:masks|N:net
Signature(states) ==
  [ascii |-> <<"C64:", states[1], Last(states), MasksOf(states), NetMutation(states)>>, rest |-> <<>>]

ChainFaults(args) ==
  LET shape == RequiredFaults(args, "states", "array")
      items == Get(args, "states").items
  IN  IF shape # {} THEN shape
      ELSE IF Len(items) < 2 THEN {"two states"}
      ELSE UNION {StateFaults(items[i]) : i \in DOMAIN items}

StatesOf(json) == [i \in DOMAIN json.items |-> StateOf(json.items[i].text)]

Compression(states) ==
  Object([sourceStateId |-> String(StateId(states[1])),
          targetStateId |-> String(StateId(Last(states))),
          states |-> Array([i \in DOMAIN states |-> String(StateId(states[i]))]),
          transitions |-> Array([i \in DOMAIN Windows(states) |-> TransitionJson(states[i], states[i + 1])]),
          orderedMutationMasks |-> Array([i \in DOMAIN Windows(states) |-> String(MaskId(MasksOf(states)[i]))]),
          netMutationMask |-> String(MaskId(NetMutation(states))),
          cumulativeDistance |-> Number(ChainDistance(states)),
          signature |-> String(Signature(states)),
          stateNumbers |-> Array([i \in DOMAIN states |-> Number(NumberOf(states[i]))]),
          netMutationMaskNumber |-> Number(NumberOf(NetMutation(states)))] @@ NoInference)

CompressChain64(args) ==
  Outcome(ChainFaults(args), Compression(StatesOf(Get(args, "states"))))

\* The default objective, the boundary and the placeholders of a policy are fixed texts.
PolicyContext64(args) ==
  LET faults == ChainFaults(args) \cup OptionalFaults(args, "objective", "string")
                  \cup OptionalStringsFaults(args, "constraints")
                  \cup OptionalStringsFaults(args, "evidenceRefs")
      states == StatesOf(Get(args, "states"))
  IN  Outcome(faults,
        Object([policySynthesisBoundary |-> Spelled("boundary"),
                objective |-> String(ValueOr(args, "objective", Word("stabilize"))),
                constraints |-> Array(ValueOr(args, "constraints", <<>>)),
                evidenceRefs |-> Array(ValueOr(args, "evidenceRefs", <<>>)),
                compressedTransition |-> Compression(states),
                requiredPolicyOutput |->
                  Object([triggerSignature |-> String(Signature(states)),
                          reviewRequired |-> Bool(TRUE)])]))

VerifyTransitionBasis ==
  LET verified == Cardinality({pair \in States64 \X States64 :
                     Transition64Entry(pair[1], pair[2]).index = 64 * NumberOf(pair[1]) + NumberOf(pair[2])})
  IN  Object([verified |-> Number(verified), total |-> Number(4096),
              ok |-> Bool(verified = 4096)] @@ NoInference)

-----------------------------------------------------------------------------
\* What tools/list tells a client of the arguments of each tool (tool_definitions):
\* JSON Schemas, written by hand beside the handlers, which never consult them.
Text == [type |-> "string"]
Scalar == [type |-> "scalar"]          \* oneOf number, boolean, string
Bit == [type |-> "bit"]                \* integer, one of 0 and 1
StateIdText == [type |-> "state id"]   \* string, of the pattern of a State64 id
AnyObject == [type |-> "any object"]
OneOf(words) == [type |-> "enum", words |-> words]
ListOf(items, least, most) == [type |-> "array", items |-> items, least |-> least, most |-> most]
Fields(required, properties) ==
  [type |-> "object", required |-> required, properties |-> properties]

Unbounded == 1000

ObservationSchema ==
  Fields({"key", "value", "operator", "threshold"},
         [key |-> Text, value |-> Scalar, operator |-> OneOf(Operators), threshold |-> Scalar,
          trueBit |-> Bit, falseBit |-> Bit, unit |-> Text, source |-> Text])

AnchorSchema == Fields({"observations"}, [observations |-> ListOf(ObservationSchema, 6, 6)])

StatePairSchema ==
  Fields({"sourceStateId", "targetStateId"},
         [sourceStateId |-> StateIdText, targetStateId |-> StateIdText])

\* Mutation: a chain may have one state.
ChainSchemaOfOne == Fields({"states"}, [states |-> ListOf(StateIdText, 1, Unbounded)])

ChainSchema == Fields({"states"}, [states |-> ListOf(StateIdText, 2, Unbounded)])

PolicySchema ==
  [ChainSchema EXCEPT !.properties =
     @ @@ [objective |-> Text, constraints |-> ListOf(Text, 0, Unbounded),
           evidenceRefs |-> ListOf(Text, 0, Unbounded)]]

ScenarioInputSchema ==
  Fields({"id", "states"},
         [id |-> Text, states |-> ListOf(StateIdText, 2, Unbounded), objective |-> Text])

ComparePairSchema == Fields({"left", "right"}, [left |-> Text, right |-> Text])

ScenarioWorkbenchSchema ==
  Fields({"scenarios", "comparePairs"},
         [scenarios |-> ListOf(ScenarioInputSchema, 1, Unbounded),
          comparePairs |-> ListOf(ComparePairSchema, 0, Unbounded),
          excludePolicyScenarioIds |-> ListOf(Text, 0, Unbounded)])

ValidatePolicyPacketSchema ==
  [ScenarioWorkbenchSchema EXCEPT
     !.required = @ \cup {"packet"}, !.properties = @ @@ [packet |-> AnyObject]]

ObservedSnapshotSchema ==
  Fields({"id", "observations"}, [id |-> Text, observations |-> ListOf(ObservationSchema, 6, 6)])

ObservedTimelineSchema ==
  Fields({"id", "snapshots"},
         [id |-> Text, objective |-> Text, anchorRuleVersion |-> Text,
          snapshots |-> ListOf(ObservedSnapshotSchema, 2, Unbounded)])

ToolDefinitions ==
  [anchor_state64 |-> AnchorSchema, lookup_transition64 |-> StatePairSchema,
   compress_chain64 |-> ChainSchema, policy_context64 |-> PolicySchema,
   analyze_scenarios64 |-> ScenarioWorkbenchSchema,
   validate_policy_packet64 |-> ValidatePolicyPacketSchema,
   analyze_observed_timeline64 |-> ObservedTimelineSchema,
   verify_transition_basis |-> Fields({}, [none \in {} |-> Text])]

-----------------------------------------------------------------------------
\* JSON Schema, as its validators read it: an integer may be written with a point,
\* and objects have no fields beyond their properties.
RECURSIVE Conforms(_, _)
Conforms(json, schema) ==
  CASE schema.type = "string" -> json.is = "string"
    [] schema.type = "scalar" -> json.is \in {"number", "float", "bool", "string"}
    [] schema.type = "bit" -> IsNumeric(json) /\ AsFloat(json) \in {0, 1000}
    [] schema.type = "state id" -> json.is = "string" /\ IsStateId(json.text)
    [] schema.type = "any object" -> IsObject(json)
    [] schema.type = "enum" ->
         json.is = "string" /\ json.text \in {Word(word) : word \in schema.words}
    [] schema.type = "array" ->
         /\ json.is = "array"
         /\ Len(json.items) \in schema.least..schema.most
         /\ \A i \in DOMAIN json.items : Conforms(json.items[i], schema.items)
    [] schema.type = "object" ->
         /\ IsObject(json)
         /\ schema.required \subseteq DOMAIN json.fields
         /\ DOMAIN json.fields \subseteq DOMAIN schema.properties
         /\ \A key \in DOMAIN json.fields : Conforms(json.fields[key], schema.properties[key])

-----------------------------------------------------------------------------
\* Packets and timelines.

\* How often each regime class occurs on the way, and over what distance.
RegimeStats(states) ==
  LET classes == [i \in DOMAIN Windows(states) |-> RegimeOf(states[i], states[i + 1])]
      At(class) == {i \in DOMAIN classes : classes[i] = class}
  IN  [class \in ToSet(classes) |->
         <<Cardinality(At(class)),
           MapThenSumSet(LAMBDA i : Cardinality(MutationBetween(states[i], states[i + 1])), At(class))>>]

\* The names in the order in which the strings sort.
Alphabet ==
  <<"bit_adjustment", "cross_module_regime_shift", "full_bit_reversal",
    "module_reconfiguration", "near_total_inversion", "no_change">>

RanksBefore(one, other, stats) ==
  \/ stats[one][1] > stats[other][1]
  \/ stats[one][1] = stats[other][1] /\ stats[one][2] > stats[other][2]
  \/ /\ stats[one] = stats[other]
     /\ \E i, j \in DOMAIN Alphabet : i < j /\ Alphabet[i] = one /\ Alphabet[j] = other

DominantRegimeClass(states) ==
  LET stats == RegimeStats(states)
  IN  CHOOSE class \in DOMAIN stats :
        \A other \in DOMAIN stats \ {class} : RanksBefore(class, other, stats)

VolatilityClass(cumulativeDistance) ==
  IF cumulativeDistance <= 3 THEN "calm"
  ELSE IF cumulativeDistance <= 7 THEN "active"
  ELSE "volatile"

PolicyReadiness(volatility) ==
  [calm |-> "hold", active |-> "review", volatile |-> "escalate"][volatility]

PolicyPriority(volatility) ==
  [calm |-> "low", active |-> "normal", volatile |-> "high"][volatility]

SelectedAction(readiness) ==
  [hold |-> "monitor", review |-> "review", escalate |-> "escalate"][readiness]

\* Mutation: every distance is taken from the first state.
SumFromSource(states) ==
  FoldLeft(LAMBDA sum, pair : sum + Lookup(states[1], pair[2]).distance, 0, Windows(states))

\* The sum of analyze_scenario, which does not use the one of compress_chain64.
SumOfDistances(states) ==
  FoldLeft(LAMBDA sum, pair : sum + Lookup(pair[1], pair[2]).distance, 0, Windows(states))

-----------------------------------------------------------------------------
\* A scenario is [id, states, objective]; its objective is a text or none.
NoObjective == <<>>

AnalyzeScenario(scenario) ==
  LET states == scenario.states
      volatility == VolatilityClass(SumOfDistances(states))
  IN  [id |-> scenario.id, states |-> states,
       masks |-> MasksOf(states), netMutationMask |-> NetMutation(states),
       cumulativeDistance |-> SumOfDistances(states),
       netDistance |-> Cardinality(NetMutation(states)),
       dominantRegimeClass |-> DominantRegimeClass(states),
       volatilityClass |-> volatility, policyReadiness |-> PolicyReadiness(volatility),
       signature |-> Signature(states), objective |-> scenario.objective]

\* The summary begins with the id, which may hold any characters.
Summary(report) ==
  [ascii |-> report.id.ascii
               \o <<report.states[1], Last(report.states), report.volatilityClass, report.cumulativeDistance>>,
   rest |-> report.id.rest]

ScenarioReportJson(report) ==
  Object([id |-> String(report.id),
          sourceStateId |-> String(StateId(report.states[1])),
          targetStateId |-> String(StateId(Last(report.states))),
          states |-> Texts([i \in DOMAIN report.states |-> StateId(report.states[i])]),
          transitionCount |-> Number(Len(report.masks)),
          orderedMutationMasks |-> Texts([i \in DOMAIN report.masks |-> MaskId(report.masks[i])]),
          netMutationMask |-> String(MaskId(report.netMutationMask)),
          cumulativeDistance |-> Number(report.cumulativeDistance),
          netDistance |-> Number(report.netDistance),
          dominantRegimeClass |-> Spelled(report.dominantRegimeClass),
          volatilityClass |-> Spelled(report.volatilityClass),
          policyReadiness |-> Spelled(report.policyReadiness),
          signature |-> String(report.signature),
          summary |-> String(Summary(report))])

\* round3, halves up: thousandths of total / count.
Round3(total, count) == (2000 * total + count) \div (2 * count)

\* A histogram counts the values of a list, keyed by what they spell.
Histogram(values) ==
  Object([key \in ToSet(values) |->
            Number(Cardinality({i \in DOMAIN values : values[i] = key}))])

TotalDistance(reports) ==
  FoldLeft(LAMBDA sum, report : sum + report.cumulativeDistance, 0, reports)

MaxDistance(reports) == Max({0} \cup {report.cumulativeDistance : report \in ToSet(reports)})

Aggregate(reports, average) ==
  LET Furthest(report) == report.cumulativeDistance = MaxDistance(reports)
      furthest == SelectSeq(reports, Furthest)
      Column(Field(_)) == [i \in DOMAIN reports |-> Field(reports[i])]
  IN  Object([scenarioCount |-> Number(Len(reports)),
              totalTransitions |->
                Number(FoldLeft(LAMBDA sum, report : sum + Len(report.masks), 0, reports)),
              totalCumulativeDistance |-> Number(TotalDistance(reports)),
              averageCumulativeDistance |-> average,
              maxCumulativeDistanceScenarioIds |-> Texts([i \in DOMAIN furthest |-> furthest[i].id]),
              volatilityHistogram |-> Histogram(Column(LAMBDA report : report.volatilityClass)),
              dominantRegimeHistogram |-> Histogram(Column(LAMBDA report : report.dominantRegimeClass)),
              netMutationHistogram |-> Histogram(Column(LAMBDA report : report.netMutationMask))])

RoundedAverage(reports) == Float(Round3(TotalDistance(reports), Len(reports)))

AggregateJson(reports) == Aggregate(reports, RoundedAverage(reports))

-----------------------------------------------------------------------------
\* The first of several scenarios with one id, used by a mutation only.
FirstById(reports, id) ==
  reports[Min({i \in DOMAIN reports : reports[i].id = id})]

\* by_id: of several scenarios with one id, the last.
ById(reports, id) ==
  reports[Max({i \in DOMAIN reports : reports[i].id = id})]

\* How many of the list occur in the other; not how many the two have in common.
Shared(values, other) == Cardinality({i \in DOMAIN values : values[i] \in ToSet(other)})

Comparison(left, right, pair, sharedMasks, sharedStates) ==
  Object([left |-> String(pair.left), right |-> String(pair.right),
          sameNetMutationMask |-> Bool(left.netMutationMask = right.netMutationMask),
          sameDominantRegimeClass |-> Bool(left.dominantRegimeClass = right.dominantRegimeClass),
          sameVolatilityClass |-> Bool(left.volatilityClass = right.volatilityClass),
          cumulativeDistanceDelta |->
            Number(Max({left.cumulativeDistance - right.cumulativeDistance,
                        right.cumulativeDistance - left.cumulativeDistance})),
          sharedOrderedMutationMaskCount |-> Number(sharedMasks),
          sharedStateCount |-> Number(sharedStates)])

SharedComparison(left, right, pair) ==
  Comparison(left, right, pair, Shared(right.masks, left.masks), Shared(right.states, left.states))

\* Mutation: the two sides of a pair are looked up in different ways.
ComparisonOfEither(reports, pair) ==
  SharedComparison(FirstById(reports, pair.left), ById(reports, pair.right), pair)

ComparisonJson(reports, pair) ==
  SharedComparison(ById(reports, pair.left), ById(reports, pair.right), pair)

PolicyQueueItemJson(report) ==
  Object([scenarioId |-> String(report.id),
          triggerSignature |-> String(report.signature),
          objective |-> String(IF report.objective = NoObjective THEN Word("") ELSE report.objective[1]),
          priority |-> Spelled(PolicyPriority(report.volatilityClass)),
          allowedActions |-> Texts(<<Word("monitor"), Word("review"), Word("escalate")>>),
          reviewRequired |-> Bool(TRUE)])

\* build_policy_workbench_packet; an id of a pair that no scenario has refuses the call.
PacketFaults(reports, pairs) ==
  LET ids == {report.id : report \in ToSet(reports)}
  IN  IF \A i \in DOMAIN pairs : {pairs[i].left, pairs[i].right} \subseteq ids
      THEN {} ELSE {"unknown scenario"}

PacketOf(reports, pairs, excluded) ==
  LET Queued(report) == report.id \notin excluded
      queue == SelectSeq(reports, Queued)
  IN  Object([scenarios |-> Array([i \in DOMAIN reports |-> ScenarioReportJson(reports[i])]),
              aggregate |-> AggregateJson(reports),
              comparisons |-> Array([i \in DOMAIN pairs |-> ComparisonJson(reports, pairs[i])]),
              policyQueue |-> Array([i \in DOMAIN queue |-> PolicyQueueItemJson(queue[i])])]
             @@ NoInference)

-----------------------------------------------------------------------------
\* parse_workbench_args
ScenarioFaults(json) ==
  LET shape == RequiredFaults(json, "id", "string") \cup RequiredFaults(json, "states", "array")
                 \cup OptionalFaults(json, "objective", "string")
  IN  IF shape # {} THEN shape ELSE ChainFaults(json)

PairFaults(json) == RequiredFaults(json, "left", "string") \cup RequiredFaults(json, "right", "string")

ListFaults(list, Faults(_)) == UNION {Faults(list.items[i]) : i \in DOMAIN list.items}

WorkbenchFaults(args) ==
  LET shape == RequiredFaults(args, "scenarios", "array") \cup OptionalFaults(args, "comparePairs", "array")
  IN  IF shape # {} THEN shape
      ELSE (IF Get(args, "scenarios").items = <<>> THEN {"no scenario"} ELSE {})
             \cup ListFaults(Get(args, "scenarios"), ScenarioFaults)
             \cup (IF Has(args, "comparePairs") THEN ListFaults(Get(args, "comparePairs"), PairFaults) ELSE {})
             \cup OptionalStringsFaults(args, "excludePolicyScenarioIds")

ScenarioOf(json) ==
  [id |-> Get(json, "id").text, states |-> StatesOf(Get(json, "states")),
   objective |-> IF Has(json, "objective") THEN <<Get(json, "objective").text>> ELSE NoObjective]

Reports(args) ==
  FoldLeft(LAMBDA reports, json : Append(reports, AnalyzeScenario(ScenarioOf(json))), <<>>,
           Get(args, "scenarios").items)

Pairs(args) ==
  LET pairs == ValueOr(args, "comparePairs", <<>>)
  IN  [i \in DOMAIN pairs |-> [left |-> Get(pairs[i], "left").text, right |-> Get(pairs[i], "right").text]]

Excluded(args) == {item.text : item \in ToSet(ValueOr(args, "excludePolicyScenarioIds", <<>>))}

AnalyzeScenarios64(args) ==
  LET faults == WorkbenchFaults(args)
  IN  Outcome(IF faults # {} THEN faults ELSE PacketFaults(Reports(args), Pairs(args)),
              PacketOf(Reports(args), Pairs(args), Excluded(args)))

ComparedSections == {"scenarios", "aggregate", "comparisons", "policyQueue"}

ValidatePolicyPacket64(args) ==
  LET analysis == AnalyzeScenarios64(args)
      Mismatched(key) == ~SemanticEqual(Get(Get(args, "packet"), key), Get(analysis.result, key))
  IN  IF FieldFaults(args, "packet") # {} \/ analysis.status = "rejected"
      THEN Rejected(FieldFaults(args, "packet")
                      \cup (IF analysis.status = "rejected" THEN analysis.faults ELSE {}))
      ELSE Ok(Object([valid |-> Bool(\A key \in ComparedSections : ~Mismatched(key)),
                      expected |-> analysis.result] @@ NoInference))

-----------------------------------------------------------------------------
SnapshotFaults(json) ==
  LET shape == RequiredFaults(json, "id", "string") \cup RequiredFaults(json, "observations", "array")
  IN  IF shape # {} THEN shape ELSE AnchorFaults(json)

\* The decision is copied, its bit under the name selectedBit.
ChoiceDecision(decision) ==
  Object([key \in (DOMAIN decision.fields \ {"bit"}) |-> decision.fields[key]]
         @@ [selectedBit |-> Get(decision, "bit")])

AnchorSnapshot(snapshot) ==
  LET anchored == AnchorState64(snapshot).result
      decisions == Get(anchored, "decisions").items
  IN  Object([anchored.fields EXCEPT !.decisions = Array([i \in DOMAIN decisions |-> ChoiceDecision(decisions[i])])]
             @@ [snapshotId |-> Get(snapshot, "id")])

AnchoredStates(anchors) == [i \in DOMAIN anchors |-> StateOf(Get(anchors[i], "stateId").text)]

TransitionChoice(from, to) ==
  LET source == StateOf(Get(from, "stateId").text)
      target == StateOf(Get(to, "stateId").text)
  IN  Object([fromSnapshotId |-> Get(from, "snapshotId"), toSnapshotId |-> Get(to, "snapshotId"),
              sourceStateId |-> Get(from, "stateId"), targetStateId |-> Get(to, "stateId"),
              mutationMask |-> String(MaskId(MutationBetween(source, target))),
              distance |-> Number(Lookup(source, target).distance),
              regimeClass |-> Spelled(RegimeOf(source, target))])

AnchorChoice(anchor) ==
  Object([key \in {"snapshotId", "stateId", "decisions"} |-> Get(anchor, key)])

\* The three outputs a reader is to reconstruct: the chain, its signature and the action.
OutputChoices(report) ==
  Array(<<Texts([i \in DOMAIN report.states |-> StateId(report.states[i])]),
          String(report.signature),
          Spelled(SelectedAction(report.policyReadiness))>>)

ChoiceReconstruction(anchors, report) ==
  Object([anchorChoices |-> Array([i \in DOMAIN anchors |-> AnchorChoice(anchors[i])]),
          transitionChoices |->
            Array([i \in 1..(Len(anchors) - 1) |-> TransitionChoice(anchors[i], anchors[i + 1])]),
          outputChoices |-> OutputChoices(report)])

TimelineFaults(args) ==
  LET shape == RequiredFaults(args, "id", "string") \cup OptionalFaults(args, "objective", "string")
                 \cup OptionalFaults(args, "anchorRuleVersion", "string")
                 \cup RequiredFaults(args, "snapshots", "array")
  IN  IF shape # {} THEN shape
      ELSE IF Len(Get(args, "snapshots").items) < 2 THEN {"two snapshots"}
      ELSE ListFaults(Get(args, "snapshots"), SnapshotFaults)

Timeline(args) ==
  LET snapshots == Get(args, "snapshots").items
      anchors == [i \in DOMAIN snapshots |-> AnchorSnapshot(snapshots[i])]
      report == AnalyzeScenario(
        [id |-> Get(args, "id").text, states |-> AnchoredStates(anchors),
         objective |-> IF Has(args, "objective") THEN <<Get(args, "objective").text>> ELSE NoObjective])
  IN  Object([timelineId |-> Get(args, "id"),
              anchors |-> Array(anchors),
              transitionPacket |-> PacketOf(<<report>>, <<>>, {}),
              finalOutput |->
                Object([finalStateId |-> String(StateId(Last(report.states))),
                        triggerSignature |-> String(report.signature),
                        selectedAction |-> Spelled(SelectedAction(report.policyReadiness)),
                        selectedPriority |-> Spelled(PolicyPriority(report.volatilityClass))] @@ NoInference),
              choiceReconstruction |-> ChoiceReconstruction(anchors, report)]
             @@ Optional(args, "anchorRuleVersion") @@ NoInference)

AnalyzeObservedTimeline64(args) == Outcome(TimelineFaults(args), Timeline(args))

-----------------------------------------------------------------------------
DispatchTool(tool, args) ==
  CASE tool = "anchor_state64" -> AnchorState64(args)
    [] tool = "lookup_transition64" -> LookupTransition64(args)
    [] tool = "compress_chain64" -> CompressChain64(args)
    [] tool = "policy_context64" -> PolicyContext64(args)
    [] tool = "analyze_scenarios64" -> AnalyzeScenarios64(args)
    [] tool = "validate_policy_packet64" -> ValidatePolicyPacket64(args)
    [] tool = "analyze_observed_timeline64" -> AnalyzeObservedTimeline64(args)
    [] tool = "verify_transition_basis" -> Ok(VerifyTransitionBasis)
    [] OTHER -> Rejected({"unknown tool"})
=============================================================================
