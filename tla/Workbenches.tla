----------------------------- MODULE Workbenches -----------------------------
(***************************************************************************)
(* The programs that were written to the task of the policy workbench, and *)
(* the reference that judges them (experiments/agentic-loop-benchmark).    *)
(* Round 5: no-mcp computes everything itself, rust-mcp has its chains     *)
(* compressed by the server, rust-mcp-upgraded has the server build the    *)
(* packet.  Round 6: a timeline is anchored and analysed locally, by three *)
(* kinds of calls, or by one.  Each program is JavaScript: it holds        *)
(* numbers as they are printed and sends texts without escapes.            *)
(***************************************************************************)
EXTENDS McpTools

IsText(json, key) == Get(json, key).is = "string"

IsList(json, key) == Get(json, key).is = "array"

Items(json, key) == ToSet(Get(json, key).items)

TextOf(json, key) == Get(json, key).text

\* trim() === ""
IsBlank(text) == text \in {Word(""), Word(" ")}

CalmZero == Word("calm-zero")

\* callSemagraphTool: the arguments as the server reads them, and the answer as
\* the client reads it; a refusal stops the program.
Sent(args) == ReadJson(Object(args), FALSE)

Received(outcome) == IF outcome.status = "ok" THEN Ok(Printed(outcome.result)) ELSE outcome

-----------------------------------------------------------------------------
\* The input of round 5: what the three programs check alike.
IsChain(scenario) ==
  /\ IsText(scenario, "id") /\ IsList(scenario, "states")
  /\ Len(Get(scenario, "states").items) >= 2
  /\ \A state \in Items(scenario, "states") : StateFaults(state) = {}

HasDistinctIds(input) ==
  LET scenarios == Get(input, "scenarios").items
  IN  \A i, j \in DOMAIN scenarios : TextOf(scenarios[i], "id") = TextOf(scenarios[j], "id") => i = j

NamesScenarios(pair, input) ==
  LET ids == {TextOf(scenario, "id") : scenario \in Items(input, "scenarios")}
  IN  /\ IsText(pair, "left") /\ TextOf(pair, "left") \in ids
      /\ IsText(pair, "right") /\ TextOf(pair, "right") \in ids

\* parseInput of no-mcp, and the look-ups of buildComparisons.
NoMcpAccepts(input) ==
  /\ IsList(input, "scenarios") /\ IsList(input, "comparePairs")
  /\ \A scenario \in Items(input, "scenarios") :
       IsChain(scenario) /\ TextOf(scenario, "id") # Word("") /\ IsText(scenario, "objective")
  /\ HasDistinctIds(input)
  /\ \A pair \in Items(input, "comparePairs") : NamesScenarios(pair, input)

\* validateInput of rust-mcp.
RustMcpAccepts(input) ==
  /\ IsList(input, "scenarios") /\ IsList(input, "comparePairs")
  /\ \A scenario \in Items(input, "scenarios") :
       IsChain(scenario) /\ ~IsBlank(TextOf(scenario, "id")) /\ IsText(scenario, "objective")
  /\ HasDistinctIds(input)
  /\ \A pair \in Items(input, "comparePairs") : NamesScenarios(pair, input)

\* validateWorkbenchInput of rust-mcp-upgraded.
UpgradedAccepts(input) ==
  /\ IsList(input, "scenarios") /\ Get(input, "scenarios").items # <<>>
  /\ IsList(input, "comparePairs")
  /\ \A scenario \in Items(input, "scenarios") :
       /\ IsChain(scenario) /\ ~IsBlank(TextOf(scenario, "id"))
       /\ Has(scenario, "objective") => IsText(scenario, "objective")
  /\ HasDistinctIds(input)
  /\ \A pair \in Items(input, "comparePairs") : NamesScenarios(pair, input)

-----------------------------------------------------------------------------
\* The class that occurs most often, of those the one that goes furthest.
Leading(steps) ==
  LET At(class) == {i \in DOMAIN steps : steps[i].class = class}
      stats == [class \in {step.class : step \in ToSet(steps)} |->
                  <<Cardinality(At(class)), MapThenSumSet(LAMBDA i : steps[i].distance, At(class))>>]
  IN  CHOOSE class \in DOMAIN stats :
        \A other \in DOMAIN stats \ {class} : RanksBefore(class, other, stats)

\* A report in which everything is derived from the masks; the reference and
\* no-mcp write it down in the same way.
ReportFrom(scenario, masks, net, dominant) ==
  LET distance == FoldLeft(LAMBDA sum, mask : sum + Cardinality(mask), 0, masks)
      volatility == VolatilityClass(distance)
  IN  [id |-> scenario.id, states |-> scenario.states, objective |-> scenario.objective,
       masks |-> masks, netMutationMask |-> net,
       cumulativeDistance |-> distance, netDistance |-> Cardinality(net),
       dominantRegimeClass |-> dominant,
       volatilityClass |-> volatility, policyReadiness |-> PolicyReadiness(volatility),
       signature |-> [ascii |-> <<"C64:", scenario.states[1], Last(scenario.states), masks, net>>,
                      rest |-> <<>>]]

PacketJson(reports, average, comparisons, queue) ==
  Object([scenarios |-> Array([i \in DOMAIN reports |-> ScenarioReportJson(reports[i])]),
          aggregate |-> Aggregate(reports, average),
          comparisons |-> Array(comparisons),
          policyQueue |-> Array([i \in DOMAIN queue |-> PolicyQueueItemJson(queue[i])])])

\* A quotient as JavaScript holds it: thousandths where they suffice.
Quotient(total, count) ==
  IF (1000 * total) % count = 0 THEN Float((1000 * total) \div count)
  ELSE [is |-> "fraction", total |-> total, count |-> count]

ExactAverage(reports) ==
  IF reports = <<>> THEN Number(0) ELSE Quotient(TotalDistance(reports), Len(reports))

ScenariosOf(input) ==
  LET scenarios == Get(input, "scenarios").items
  IN  [i \in DOMAIN scenarios |-> ScenarioOf(scenarios[i])]

NotCalmZero(report) == report.id # CalmZero

-----------------------------------------------------------------------------
\* no-mcp: masks are found letter by letter, and two classes of regimes are not known.
MaskByLetters(left, right) == {p \in Positions : (p \in left) # (p \in right)}

NoMcpXorMasks(masks) == FoldLeft(MaskByLetters, {}, masks)

NoMcpRegimeClass(mask) ==
  CASE Cardinality(mask) = 0 -> "no_change"
    [] Cardinality(mask) = 1 -> "bit_adjustment"
    [] Cardinality(mask) = 6 -> "full_bit_reversal"
    [] OTHER -> "cross_module_regime_shift"

NoMcpDominant(masks) ==
  Leading([i \in DOMAIN masks |-> [class |-> NoMcpRegimeClass(masks[i]), distance |-> Cardinality(masks[i])]])

NoMcpReport(scenario) ==
  LET masks == [i \in 1..(Len(scenario.states) - 1) |->
                  MaskByLetters(scenario.states[i], scenario.states[i + 1])]
  IN  ReportFrom(scenario, masks, NoMcpXorMasks(masks), NoMcpDominant(masks))

\* occurrencePairCount: how many pairs of places hold the same.
OccurrencePairs(left, right) ==
  Cardinality({pair \in (DOMAIN left) \X (DOMAIN right) : left[pair[1]] = right[pair[2]]})

NoMcpComparison(reports, pair) ==
  LET left == ById(reports, pair.left)
      right == ById(reports, pair.right)
  IN  Comparison(left, right, pair,
        OccurrencePairs(left.masks, right.masks), OccurrencePairs(left.states, right.states))

NoMcpReports(scenarios) == [i \in DOMAIN scenarios |-> NoMcpReport(scenarios[i])]

NoMcpPacket(reports, pairs) ==
  PacketJson(reports, ExactAverage(reports),
    [i \in DOMAIN pairs |-> NoMcpComparison(reports, pairs[i])], SelectSeq(reports, NotCalmZero))

NoMcpWorkbench(input) ==
  IF NoMcpAccepts(input) THEN Ok(Printed(NoMcpPacket(NoMcpReports(ScenariosOf(input)), Pairs(input)))) ELSE Rejected({"input"})

-----------------------------------------------------------------------------
\* rust-mcp: one call to verify the tables, one to compress each chain; ids are not sent.
CompressionOf(json) == Received(CompressChain64(Sent([states |-> Get(json, "states")])))

\* assertMcpCompressionShape
TrustsCompression(json, compression) ==
  /\ Get(compression, "states") = Get(json, "states")
  /\ \A mask \in Items(compression, "orderedMutationMasks") \cup {Get(compression, "netMutationMask")} :
       mask.text.ascii[1] = "M64-"
  /\ Get(compression, "inferenceUsed") = Bool(FALSE)

BasisHolds(verification) ==
  /\ Get(verification, "ok") = Bool(TRUE)
  /\ Get(verification, "verified") = Number(4096) /\ Get(verification, "total") = Number(4096)

\* requestDeterministicFacts, of the answers to its calls
FactsHold(scenarios, compressions) ==
  /\ BasisHolds(Printed(VerifyTransitionBasis))
  /\ \A i \in DOMAIN scenarios :
       compressions[i].status = "ok" /\ TrustsCompression(scenarios[i], compressions[i].result)

RustMcpDominant(transitions) ==
  Leading([i \in DOMAIN transitions |-> [class |-> TextOf(transitions[i], "regimeClass").ascii[1],
                                         distance |-> Get(transitions[i], "distance").number]])

\* buildScenarioOutput: what the compression says, and what follows from it.
RustMcpReport(json, compression) ==
  LET volatility == VolatilityClass(Get(compression, "cumulativeDistance").number)
      net == StateOf(TextOf(compression, "netMutationMask"))
  IN  [ScenarioOf(json) EXCEPT !.states = StatesOf(Get(compression, "states"))]
        @@ [masks |-> StatesOf(Get(compression, "orderedMutationMasks")), netMutationMask |-> net,
            cumulativeDistance |-> Get(compression, "cumulativeDistance").number,
            netDistance |-> Cardinality(net),
            dominantRegimeClass |-> RustMcpDominant(Get(compression, "transitions").items),
            volatilityClass |-> volatility, policyReadiness |-> PolicyReadiness(volatility),
            signature |-> TextOf(compression, "signature")]

\* Mutation: the left items that occur on the right are counted.
LeftItemsInRight(left, right) == Cardinality({i \in DOMAIN left : left[i] \in ToSet(right)})

RightItemsInLeft(left, right) == Cardinality({i \in DOMAIN right : right[i] \in ToSet(left)})

RustMcpComparison(reports, pair) ==
  LET left == ById(reports, pair.left)
      right == ById(reports, pair.right)
  IN  Comparison(left, right, pair,
        RightItemsInLeft(left.masks, right.masks), RightItemsInLeft(left.states, right.states))

RustMcpReports(scenarios, compressions) ==
  [i \in DOMAIN scenarios |-> RustMcpReport(scenarios[i], compressions[i].result)]

RustMcpPacket(reports, pairs) ==
  PacketJson(reports, ExactAverage(reports),
    [i \in DOMAIN pairs |-> RustMcpComparison(reports, pairs[i])], SelectSeq(reports, NotCalmZero))

\* The program, after its one spawn of the server.
RustMcpOutput(input, scenarios, compressions) ==
  IF FactsHold(scenarios, compressions)
  THEN Ok(Printed(RustMcpPacket(RustMcpReports(scenarios, compressions), Pairs(input))))
  ELSE Rejected({"call"})

RustMcpWorkbench(input) ==
  LET scenarios == Get(input, "scenarios").items
  IN  IF RustMcpAccepts(input)
      THEN RustMcpOutput(input, scenarios, [i \in DOMAIN scenarios |-> CompressionOf(scenarios[i])])
      ELSE Rejected({"input"})

-----------------------------------------------------------------------------
\* rust-mcp-upgraded: one call, whose packet is the output.
WorkbenchArgs(input) ==
  [scenarios |-> Get(input, "scenarios"), comparePairs |-> Get(input, "comparePairs"),
   excludePolicyScenarioIds |-> Texts(<<CalmZero>>)]

\* assertPacketShape
IsPacket(packet) ==
  /\ \A key \in {"scenarios", "comparisons", "policyQueue"} : IsList(packet, key)
  /\ IsObject(Get(packet, "aggregate"))
  /\ Get(packet, "inferenceUsed") = Bool(FALSE)

UpgradedOutput(answer) ==
  IF answer.status = "ok" /\ ~IsPacket(answer.result) THEN Rejected({"packet"}) ELSE answer

UpgradedWorkbench(input) ==
  IF UpgradedAccepts(input) THEN UpgradedOutput(Received(AnalyzeScenarios64(Sent(WorkbenchArgs(input)))))
  ELSE Rejected({"input"})

\* validate-produced-packet exits with 0.
SaysValid(answer) ==
  /\ answer.status = "ok"
  /\ Get(answer.result, "valid") = Bool(TRUE) /\ Get(answer.result, "inferenceUsed") = Bool(FALSE)

ProducedPacketIsValid(input, packet) ==
  /\ UpgradedAccepts(input)
  /\ SaysValid(Received(ValidatePolicyPacket64(Sent(WorkbenchArgs(input) @@ [packet |-> packet]))))

-----------------------------------------------------------------------------
\* evaluate.mjs: the output it expects.
ReferenceRegime(mask) ==
  LET total == Cardinality(mask)
      bothModules == mask \cap (1..3) # {} /\ mask \cap (4..6) # {}
  IN  CASE total = 0 -> "no_change"
        [] total = 1 -> "bit_adjustment"
        [] total = 2 /\ ~bothModules -> "module_reconfiguration"
        [] total = 6 -> "full_bit_reversal"
        [] total \in 4..5 -> "near_total_inversion"
        [] OTHER -> "cross_module_regime_shift"

ReferenceReport(scenario) ==
  LET masks == [i \in 1..(Len(scenario.states) - 1) |->
                  MaskByLetters(scenario.states[i], scenario.states[i + 1])]
      steps == [i \in DOMAIN masks |-> [class |-> ReferenceRegime(masks[i]), distance |-> Cardinality(masks[i])]]
  IN  ReportFrom(scenario, masks, FoldLeft(MaskByLetters, {}, masks), Leading(steps))

\* An objective the input lacks stays undefined, which equals no text.
WithObjective(item, scenario) ==
  IF scenario.objective = NoObjective THEN Object([item.fields EXCEPT !.objective = Null]) ELSE item

ReferenceReports(scenarios) == [i \in DOMAIN scenarios |-> ReferenceReport(scenarios[i])]

\* The averages are written with three digits.
PacketExpected(reports, pairs, queue) ==
  Object([PacketJson(reports, RoundedAverage(reports),
            [i \in DOMAIN pairs |->
               SharedComparison(ById(reports, pairs[i].left), ById(reports, pairs[i].right), pairs[i])],
            queue).fields
          EXCEPT !.policyQueue =
            Array([i \in DOMAIN queue |-> WithObjective(PolicyQueueItemJson(queue[i]), queue[i])])])

ReferencePacket(input) ==
  LET reports == ReferenceReports(ScenariosOf(input))
  IN  PacketExpected(reports, Pairs(input), SelectSeq(reports, NotCalmZero))

\* qualityScore: the sections in which a program says what is expected.
Passed(output, expected, sections) ==
  {section \in sections : Get(output, section) = Get(expected, section)}

-----------------------------------------------------------------------------
\* Round 6, the local baseline: === on what was read from a file, where no list is another.
StrictlyEqual(left, right) == Same(left, right) /\ left.is \notin {"array", "object"}

\* Number(...), which no fixture uses on a text or a list.
Coerced(json) ==
  CASE IsNumeric(json) -> AsFloat(json)
    [] json.is = "bool" -> IF json.bool THEN 1000 ELSE 0
    [] json.is = "null" -> 0

BaselineResult(observation) ==
  LET value == Get(observation, "value")
      threshold == Get(observation, "threshold")
      operator == OperatorOf(observation)
  IN  CASE operator = "eq" -> StrictlyEqual(value, threshold)
        [] operator = "neq" -> ~StrictlyEqual(value, threshold)
        [] operator = "gt" -> Coerced(value) > Coerced(threshold)
        [] operator = "gte" -> Coerced(value) >= Coerced(threshold)
        [] operator = "lt" -> Coerced(value) < Coerced(threshold)
        [] operator = "lte" -> Coerced(value) <= Coerced(threshold)

\* ?? : a bit that is missing or null is the default.
BitOr(observation, key, default) ==
  IF Get(observation, key) = Null THEN Number(default) ELSE Get(observation, key)

SelectedBit(observation) ==
  IF BaselineResult(observation) THEN BitOr(observation, "trueBit", 1) ELSE BitOr(observation, "falseBit", 0)

IsFalsy(json) == json \in {Null, Bool(FALSE), Number(0), Spelled("")}

\* What anchorSnapshot refuses, and the states that transitionRegime refuses later.
BaselineAccepts(snapshot) ==
  /\ ~IsFalsy(Get(snapshot, "id"))
  /\ IsList(snapshot, "observations") /\ Len(Get(snapshot, "observations").items) = 6
  /\ \A observation \in Items(snapshot, "observations") :
       /\ ~IsFalsy(Get(observation, "key"))
       /\ IsText(observation, "operator") /\ OperatorOf(observation) \in Operators
       /\ SelectedBit(observation) \in {Number(0), Number(1)}

BaselineDecision(position, observation) ==
  Object([position |-> Number(position),
          key |-> Get(observation, "key"), operator |-> Get(observation, "operator"),
          value |-> Get(observation, "value"), threshold |-> Get(observation, "threshold"),
          result |-> Bool(BaselineResult(observation)),
          trueBit |-> BitOr(observation, "trueBit", 1), falseBit |-> BitOr(observation, "falseBit", 0),
          selectedBit |-> SelectedBit(observation)]
         @@ Optional(observation, "unit") @@ Optional(observation, "source"))

BaselineAnchor(snapshot) ==
  LET observations == Get(snapshot, "observations").items
      state == {p \in Positions : SelectedBit(observations[p]) = Number(1)}
  IN  Object([snapshotId |-> Get(snapshot, "id"),
              stateId |-> String(StateId(state)), stateNumber |-> Number(NumberOf(state)),
              binary |-> String(Binary(state)),
              decisions |-> Array([i \in DOMAIN observations |-> BaselineDecision(i, observations[i])]),
              anchorMode |-> Spelled("deterministic_observed_parameters")] @@ NoInference)

\* analyzeTimelineScenario: the packet of one scenario, nothing left out of the queue.
PacketOfOne(scenario, report) ==
  Object([PacketJson(<<report>>, Number(report.cumulativeDistance), <<>>, <<>>).fields EXCEPT
            !.policyQueue = Array(<<WithObjective(PolicyQueueItemJson(report), scenario)>>)] @@ NoInference)

BaselinePacket(input, anchors) ==
  LET scenario == [id |-> TextOf(input, "id"), states |-> AnchoredStates(anchors),
                   objective |-> IF Has(input, "objective") THEN <<TextOf(input, "objective")>> ELSE NoObjective]
  IN  PacketOfOne(scenario, ReferenceReport(scenario))

BaselineTransition(from, to) ==
  LET mask == MaskByLetters(StateOf(TextOf(from, "stateId")), StateOf(TextOf(to, "stateId")))
  IN  Object([fromSnapshotId |-> Get(from, "snapshotId"), toSnapshotId |-> Get(to, "snapshotId"),
              sourceStateId |-> Get(from, "stateId"), targetStateId |-> Get(to, "stateId"),
              mutationMask |-> String(MaskId(mask)), distance |-> Number(Cardinality(mask)),
              regimeClass |-> Spelled(ReferenceRegime(mask))])

\* buildOutput, of a packet computed here or by the server.
BuildOutput(input, anchors, packet) ==
  LET scenario == Get(packet, "scenarios").items[1]
      readiness == TextOf(scenario, "policyReadiness")
      action == IF readiness \in {Word("escalate"), Word("review")} THEN String(readiness) ELSE Spelled("monitor")
      Column(key) == Array([i \in DOMAIN anchors |-> Get(anchors[i], key)])
  IN  Object([timelineId |-> Get(input, "id"), anchors |-> Array(anchors), transitionPacket |-> packet,
              finalOutput |->
                Object([finalStateId |-> Get(scenario, "targetStateId"),
                        triggerSignature |-> Get(scenario, "signature"), selectedAction |-> action,
                        selectedPriority |-> Get(Get(packet, "policyQueue").items[1], "priority")] @@ NoInference),
              choiceReconstruction |->
                Object([anchorChoices |-> Array([i \in DOMAIN anchors |-> AnchorChoice(anchors[i])]),
                        transitionChoices |->
                          Array([i \in 1..(Len(anchors) - 1) |-> BaselineTransition(anchors[i], anchors[i + 1])]),
                        outputChoices |-> Array(<<Column("stateId"), Get(scenario, "signature"), action>>)])])

BaselineOutput(input, anchors) == Printed(BuildOutput(input, anchors, BaselinePacket(input, anchors)))

RunBaseline(input) ==
  LET snapshots == Get(input, "snapshots").items
  IN  IF \A i \in DOMAIN snapshots : BaselineAccepts(snapshots[i])
      THEN Ok(BaselineOutput(input, [i \in DOMAIN snapshots |-> BaselineAnchor(snapshots[i])]))
      ELSE Rejected({"snapshot"})

-----------------------------------------------------------------------------
\* The same by a call for every snapshot, one for the packet and one to validate it.
NormalizeMcpAnchor(snapshot, raw) ==
  LET decisions == Get(raw, "decisions").items
  IN  Object([raw.fields EXCEPT !.decisions = Array([i \in DOMAIN decisions |-> ChoiceDecision(decisions[i])])]
             @@ [snapshotId |-> Get(snapshot, "id")])

\* runMcp asks for the state of each snapshot, for a packet, and whether it is valid.
Anchored(snapshot) == Received(AnchorState64(Sent([observations |-> Get(snapshot, "observations")])))

PacketArgs(input, anchors) ==
  [scenarios |-> Array(<<Object([id |-> Get(input, "id"),
                                 states |-> Array([i \in DOMAIN anchors |-> Get(anchors[i], "stateId")])]
                                @@ Optional(input, "objective"))>>),
   comparePairs |-> Array(<<>>), excludePolicyScenarioIds |-> Array(<<>>)]

McpOutput(input, anchors, args, analysis) ==
  IF /\ analysis.status = "ok"
     /\ Get(Received(ValidatePolicyPacket64(Sent(args @@ [packet |-> analysis.result]))).result, "valid") = Bool(TRUE)
  THEN Ok(BuildOutput(input, anchors, analysis.result)) ELSE Rejected({"packet"})

AnalyzeByMcp(input, anchors) ==
  LET args == PacketArgs(input, anchors)
  IN  McpOutput(input, anchors, args, Received(AnalyzeScenarios64(Sent(args))))

RunMcpFrom(input, snapshots, replies) ==
  IF \A i \in DOMAIN snapshots : replies[i].status = "ok"
  THEN AnalyzeByMcp(input, [i \in DOMAIN snapshots |-> NormalizeMcpAnchor(snapshots[i], replies[i].result)])
  ELSE Rejected({"snapshot"})

RunMcp(input) ==
  LET snapshots == Get(input, "snapshots").items
  IN  RunMcpFrom(input, snapshots, [i \in DOMAIN snapshots |-> Anchored(snapshots[i])])

RunMcpSingleCall(input) == Received(AnalyzeObservedTimeline64(ReadJson(input, FALSE)))

-----------------------------------------------------------------------------
(* Round 3 of the benchmark (experiments/agentic-loop-benchmark/round-3):  *)
(* three programs that profile a set of transitions, without Semagraph     *)
(* (baseline) and beside it (rs, ts), the output evaluate.mjs expects, and *)
(* the oracles it asks.  All four write the tests that lead to a scope and *)
(* a regime alike.  A histogram is what it counts, not the order of its    *)
(* keys; averages are in thousandths, of fewer than 80 transitions, where  *)
(* the three ways to round do not differ; summaries in words are left out. *)

IsName(json) == json.is = "string" /\ json.text # Word("")

Transitions(dataset) == Items(dataset, "transitions")
Groups(dataset) == Items(dataset, "groups")
ComparePairs(dataset) == Items(dataset, "comparePairs")

IdsOf(items) == {Get(item, "id") : item \in items}

AreDistinct(items) ==
  \A i, j \in DOMAIN items : Get(items[i], "id") = Get(items[j], "id") => i = j

HasLists(dataset) == \A key \in {"transitions", "groups", "comparePairs"} : IsList(dataset, key)

\* What the programs look up once everything has been read.
Resolves(dataset) ==
  LET ids == IdsOf(Transitions(dataset))
  IN  /\ \A transition \in Transitions(dataset) :
           Get(transition, "groupId") \in IdsOf(Groups(dataset))
      /\ \A group \in Groups(dataset) : Items(group, "transitionIds") \subseteq ids
      /\ \A pair \in ComparePairs(dataset) : {Get(pair, "left"), Get(pair, "right")} \subseteq ids

\* parseInputDataset of baseline: texts, which may be empty.
BaselineParses(dataset) ==
  /\ HasLists(dataset)
  /\ \A transition \in Transitions(dataset) :
       \A key \in {"id", "sourceStateId", "targetStateId", "groupId"} : IsText(transition, key)
  /\ \A group \in Groups(dataset) :
       /\ IsText(group, "id") /\ IsList(group, "transitionIds")
       /\ \A id \in Items(group, "transitionIds") : id.is = "string"
  /\ \A pair \in ComparePairs(dataset) : IsText(pair, "left") /\ IsText(pair, "right")

BaselineAdmits(dataset) ==
  /\ BaselineParses(dataset)
  /\ \A item \in Transitions(dataset) \cup Groups(dataset) : IsName(Get(item, "id"))
  /\ \A key \in {"transitions", "groups"} : AreDistinct(Get(dataset, key).items)
  /\ \A transition \in Transitions(dataset) : \A key \in {"sourceStateId", "targetStateId"} :
       StateFaults(Get(transition, key)) = {}
  /\ Resolves(dataset)

\* What rs and ts ask of one transition, one group and one pair.
IsTransition(json) ==
  /\ IsName(Get(json, "id")) /\ IsName(Get(json, "groupId"))
  /\ StateFaults(Get(json, "sourceStateId")) = {} /\ StateFaults(Get(json, "targetStateId")) = {}

IsGroup(json) ==
  /\ IsName(Get(json, "id")) /\ IsList(json, "transitionIds")
  /\ \A id \in Items(json, "transitionIds") : IsName(id)

\* validateDataset of rs: pairs are read last, and looked up as they are read.
RsAdmits(dataset) ==
  /\ HasLists(dataset)
  /\ \A transition \in Transitions(dataset) : IsTransition(transition)
  /\ AreDistinct(Get(dataset, "transitions").items)
  /\ \A group \in Groups(dataset) : IsGroup(group)
  /\ AreDistinct(Get(dataset, "groups").items)
  /\ Resolves(dataset)

\* validateDataset of ts.
TsAdmits(dataset) ==
  /\ HasLists(dataset)
  /\ \A transition \in Transitions(dataset) : IsTransition(transition)
  /\ \A group \in Groups(dataset) : IsGroup(group)
  /\ \A key \in {"transitions", "groups"} : AreDistinct(Get(dataset, key).items)
  /\ \A pair \in ComparePairs(dataset) : IsName(Get(pair, "left")) /\ IsName(Get(pair, "right"))
  /\ Resolves(dataset)

-----------------------------------------------------------------------------
\* The tests of classifyRegime, in their order.
RegimeByTests(distance, scope) ==
  IF distance = 0 THEN "no_change"
  ELSE IF distance = 1 THEN "bit_adjustment"
  ELSE IF distance <= 2 /\ scope # "both_modules" THEN "module_reconfiguration"
  ELSE IF distance = 6 THEN "full_bit_reversal"
  ELSE IF distance >= 4 THEN "near_total_inversion"
  ELSE "cross_module_regime_shift"

SourceOf(transition) == StateOf(TextOf(transition, "sourceStateId"))

TargetOf(transition) == StateOf(TextOf(transition, "targetStateId"))

\* A profile, from the positions that change and how many of them do in each module.
Profiled(transition, changed, lower, upper) ==
  LET scope == ModuleScope(lower, upper)
  IN  [id |-> Get(transition, "id"), groupId |-> Get(transition, "groupId"),
       sourceStateId |-> SourceOf(transition), targetStateId |-> TargetOf(transition),
       changedPositions |-> changed, distance |-> Cardinality(changed),
       lowerDistance |-> lower, upperDistance |-> upper,
       moduleScope |-> scope, regimeClass |-> RegimeByTests(Cardinality(changed), scope),
       transitionIndex |-> TransitionIndex(SourceOf(transition), TargetOf(transition))]

BaselineProfile(transition) ==
  LET changed == MaskByLetters(SourceOf(transition), TargetOf(transition))
  IN  Profiled(transition, changed, Cardinality(changed \cap (1..3)), Cardinality(changed \cap (4..6)))

\* rs: the bits of the mask, and the ones in its two halves.
RsProfile(transition) ==
  LET bits == [p \in Positions |->
                 IF p \in SourceOf(transition) <=> p \in TargetOf(transition) THEN 0 ELSE 1]
      Ones(part) == {p \in part : bits[p] = 1}
  IN  Profiled(transition, Ones(Positions), Cardinality(Ones(1..3)), Cardinality(Ones(4..6)))

\* ts: the positions up to the third, and from the fourth on.
TsProfile(transition) ==
  LET changed == MaskByLetters(SourceOf(transition), TargetOf(transition))
  IN  Profiled(transition, changed, Cardinality({p \in changed : p <= 3}),
               Cardinality({p \in changed : p >= 4}))

-----------------------------------------------------------------------------
Counted(values) ==
  [key \in ToSet(values) |-> Cardinality({i \in DOMAIN values : values[i] = key})]

\* rs: the keys of a given order first, then the others.
CountedInOrder(values, order) ==
  LET counts == Counted(values)
  IN  [key \in DOMAIN counts \cap ToSet(order) |-> counts[key]]
        @@ [key \in DOMAIN counts \ ToSet(order) |-> counts[key]]

\* ts: increment() for one value after the other.
CountedOneByOne(values) ==
  FoldLeft(LAMBDA counts, key :
             (key :> ((IF key \in DOMAIN counts THEN counts[key] ELSE 0) + 1)) @@ counts, <<>>, values)

Column(profiles, field) == [i \in DOMAIN profiles |-> profiles[i][field]]

Total(profiles) == FoldLeft(LAMBDA sum, profile : sum + profile.distance, 0, profiles)

Furthest(profiles) == FoldLeft(LAMBDA most, profile : Max({most, profile.distance}), 0, profiles)

\* Half a thousandth is rounded up.
RoundThree(total, count) == Float((2000 * total + count) \div (2 * count))

Average(profiles) ==
  IF profiles = <<>> THEN Float(0) ELSE RoundThree(Total(profiles), Len(profiles))

\* summarizeTransitions, and the two histograms every summary has.
SummaryOf(profiles, average, most, regimes, scopes) ==
  LET furthest == SelectSeq(profiles, LAMBDA profile : Number(profile.distance) = most)
  IN  [transitionCount |-> Len(profiles), totalDistance |-> Total(profiles),
       averageDistance |-> average, maxDistance |-> most,
       maxDistanceTransitionIds |-> Column(furthest, "id"),
       regimeHistogram |-> regimes, moduleScopeHistogram |-> scopes]

BaselineSummary(profiles) ==
  SummaryOf(profiles, Average(profiles), Number(Furthest(profiles)),
    Counted(Column(profiles, "regimeClass")), Counted(Column(profiles, "moduleScope")))

RegimeOrder ==
  <<"no_change", "bit_adjustment", "module_reconfiguration", "cross_module_regime_shift",
    "near_total_inversion", "full_bit_reversal">>

ModuleScopeOrder == <<"none", "lower_only", "upper_only", "both_modules">>

RsSummary(profiles) ==
  SummaryOf(profiles, Average(profiles), Number(Furthest(profiles)),
    CountedInOrder(Column(profiles, "regimeClass"), RegimeOrder),
    CountedInOrder(Column(profiles, "moduleScope"), ModuleScopeOrder))

TsSummary(profiles) ==
  SummaryOf(profiles, Average(profiles), Number(Furthest(profiles)),
    CountedOneByOne(Column(profiles, "regimeClass")), CountedOneByOne(Column(profiles, "moduleScope")))

-----------------------------------------------------------------------------
ProfileById(profiles, id) == profiles[CHOOSE i \in DOMAIN profiles : profiles[i].id = id]

\* comparePair: a transition is what its mask is; shared positions are in both.
CompareProfiles(left, right) ==
  [left |-> left.id, right |-> right.id,
   sameMutationMask |-> left.changedPositions = right.changedPositions,
   sameRegimeClass |-> left.regimeClass = right.regimeClass,
   sameModuleScope |-> left.moduleScope = right.moduleScope,
   distanceDelta |-> left.distance - right.distance,
   sharedChangedPositionCount |-> Cardinality(left.changedPositions \cap right.changedPositions)]

\* profileDataset, of the profiles of its transitions.
OutputOf(dataset, profiles, Summarize(_), Counting(_)) ==
  LET groups == Get(dataset, "groups").items
      pairs == Get(dataset, "comparePairs").items
      Members(group) ==
        LET ids == Get(group, "transitionIds").items
        IN  [i \in DOMAIN ids |-> ProfileById(profiles, ids[i])]
  IN  [transitions |-> profiles,
       groups |-> [i \in DOMAIN groups |->
                     [id |-> Get(groups[i], "id")] @@ Summarize(Members(groups[i]))],
       aggregate |-> [mutationMaskHistogram |-> Counting(Column(profiles, "changedPositions"))]
                        @@ Summarize(profiles),
       comparisons |-> [i \in DOMAIN pairs |->
                          CompareProfiles(ProfileById(profiles, Get(pairs[i], "left")),
                                          ProfileById(profiles, Get(pairs[i], "right")))]]

ProfilesOf(dataset, Profile(_)) ==
  LET transitions == Get(dataset, "transitions").items
  IN  [i \in DOMAIN transitions |-> Profile(transitions[i])]

BaselineProfiler(dataset) ==
  IF BaselineAdmits(dataset)
  THEN Ok(OutputOf(dataset, ProfilesOf(dataset, BaselineProfile), BaselineSummary, Counted))
  ELSE Rejected({"dataset"})

\* The masks are ordered as they sort, which are all there are.
RsProfiler(dataset) ==
  IF RsAdmits(dataset)
  THEN Ok(OutputOf(dataset, ProfilesOf(dataset, RsProfile), RsSummary,
                   LAMBDA masks : CountedInOrder(masks, masks)))
  ELSE Rejected({"dataset"})

TsProfiler(dataset) ==
  IF TsAdmits(dataset)
  THEN Ok(OutputOf(dataset, ProfilesOf(dataset, TsProfile), TsSummary, CountedOneByOne))
  ELSE Rejected({"dataset"})

-----------------------------------------------------------------------------
\* evaluate.mjs: the modules are the mask with the other half cleared.
JudgeProfile(transition) ==
  LET mask == MaskByLetters(SourceOf(transition), TargetOf(transition))
  IN  Profiled(transition, mask, Cardinality(mask \ (4..6)), Cardinality(mask \ (1..3)))

\* Of no transitions there is no greatest distance and no average.
JudgeSummary(profiles) ==
  LET none == profiles = <<>>
  IN  SummaryOf(profiles, IF none THEN [is |-> "NaN"] ELSE RoundThree(Total(profiles), Len(profiles)),
        IF none THEN [is |-> "-Infinity"] ELSE Number(Furthest(profiles)),
        CountedOneByOne(Column(profiles, "regimeClass")),
        CountedOneByOne(Column(profiles, "moduleScope")))

ExpectedOutput(dataset) ==
  OutputOf(dataset, ProfilesOf(dataset, JudgeProfile), JudgeSummary, CountedOneByOne)

\* qualityScore: the sections a program gets right.
ProfilerSections == {"transitions", "groups", "aggregate", "comparisons"}

RightSections(output, expected) ==
  {section \in ProfilerSections : output[section] = expected[section]}

\* rsTransitionFromJson: semagraph classify prints numbers and names.
RsOracle(source, target) ==
  LET entry == Transition64Entry(source, target)
      mask == StateNumbered(entry.mutationMask)
  IN  [changedPositions |-> mask, distance |-> entry.distance,
       lowerDistance |-> entry.lowerDistance, upperDistance |-> entry.upperDistance,
       moduleScope |-> ModuleScopeName(entry.moduleScope),
       regimeClass |-> RegimeClassName(entry.regimeClass), transitionIndex |-> entry.index]

\* assertOracleTransition, of an answer of the oracle.
OracleConfirms(answer, profile) == \A field \in DOMAIN answer : answer[field] = profile[field]
=============================================================================
