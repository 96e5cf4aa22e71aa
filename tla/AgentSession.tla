---------------------------- MODULE AgentSession ----------------------------
(***************************************************************************)
(* An agent and the tools of the MCP server.  The agent collects scenarios *)
(* or a timeline of snapshots, has the server analyse them, keeps the      *)
(* packet it is given, may edit it, and has it validated against what it   *)
(* has collected by then.  It also makes calls whose arguments are not     *)
(* what the server expects.  The server keeps nothing (dispatch_tool is a  *)
(* function of the call); everything is read and printed as JSON on the    *)
(* way.  McpServer shows that the n-th answer is the answer to the n-th    *)
(* call; here the agent waits for each answer before it goes on.           *)
(***************************************************************************)
EXTENDS Workbenches

CONSTANTS
  Escapes,       \* does the client escape what is not ASCII, or send it as it is
  Scenarios,     \* the scenarios that may be collected
  Ids,           \* the ids that pairs and exclusions may name
  Snapshots,     \* the snapshots that may be observed
  MaxScenarios, MaxPairs, MaxSnapshots,  \* bounds on what is collected
  LooseCalls     \* calls [tool, args] with arguments of every shape

ASSUME EscapesAssumption == Escapes \in BOOLEAN

ASSUME BoundsAssumption == {MaxScenarios, MaxPairs, MaxSnapshots} \subseteq Nat

VARIABLES
  scenarios, pairs, excluded,  \* what the agent would have analysed
  snapshots,                   \* what it has observed
  packet,                      \* the packet it holds, Null before the first
  call, answer                 \* the last call and what came back

vars == <<scenarios, pairs, excluded, snapshots, packet, call, answer>>

NoCall == [tool |-> "none", args |-> Null]

NoAnswer == [status |-> "none"]

Pending == [status |-> "pending"]

Init ==
  /\ scenarios = <<>> /\ pairs = <<>> /\ excluded = {} /\ snapshots = <<>>
  /\ packet = Null
  /\ call = NoCall /\ answer = NoAnswer

\* A call arrives as the server reads it; one it cannot read is answered at once.
Call(tool, args) ==
  /\ answer # Pending
  /\ IF Parses(args, Escapes)
       THEN call' = [tool |-> tool, args |-> ReadJson(args, Escapes)] /\ answer' = Pending
       ELSE call' = NoCall /\ answer' = [status |-> "unparsed"]

\* An outcome as it is printed, and read by the client.
Reply(outcome) == IF outcome.status = "ok" THEN Ok(Printed(outcome.result)) ELSE outcome

Answer ==
  /\ answer = Pending
  /\ answer' = Reply(DispatchTool(call.tool, call.args))
  /\ packet' = IF call.tool = "analyze_scenarios64" /\ answer'.status = "ok"
                THEN answer'.result ELSE packet
  /\ UNCHANGED <<scenarios, pairs, excluded, snapshots, call>>

\* What the agent collects it collects between two calls.
Collecting == answer # Pending /\ call' = NoCall /\ answer' = NoAnswer

ScenarioJson(scenario) ==
  Object([id |-> String(scenario.id), states |-> Texts([i \in DOMAIN scenario.states |-> StateId(scenario.states[i])])]
         @@ (IF scenario.objective = NoObjective THEN <<>> ELSE [objective |-> String(scenario.objective[1])]))

PairJson(pair) == Object([left |-> String(pair.left), right |-> String(pair.right)])

Collected ==
  [scenarios |-> Array([i \in DOMAIN scenarios |-> ScenarioJson(scenarios[i])]),
   comparePairs |-> Array([i \in DOMAIN pairs |-> PairJson(pairs[i])]),
   excludePolicyScenarioIds |-> Texts(SetToSeq(excluded))]

CollectScenario(scenario) ==
  /\ Collecting
  /\ snapshots = <<>> /\ Len(scenarios) < MaxScenarios
  /\ scenarios' = Append(scenarios, scenario)
  /\ UNCHANGED <<pairs, excluded, snapshots, packet>>

CollectPair(left, right) ==
  /\ Collecting
  /\ scenarios # <<>> /\ Len(pairs) < MaxPairs
  /\ pairs' = Append(pairs, [left |-> left, right |-> right])
  /\ UNCHANGED <<scenarios, excluded, snapshots, packet>>

Exclude(id) ==
  /\ Collecting
  /\ scenarios # <<>> /\ id \notin excluded
  /\ excluded' = excluded \cup {id}
  /\ UNCHANGED <<scenarios, pairs, snapshots, packet>>

Analyze ==
  /\ scenarios # <<>>
  /\ Call("analyze_scenarios64", Object(Collected))
  /\ UNCHANGED <<scenarios, pairs, excluded, snapshots, packet>>

Validate ==
  /\ scenarios # <<>> /\ packet # Null
  /\ Call("validate_policy_packet64", Object(Collected @@ [packet |-> packet]))
  /\ UNCHANGED <<scenarios, pairs, excluded, snapshots, packet>>

\* What an agent may do to a packet before it hands it on.
ButLast(list) == IF list = <<>> THEN <<>> ELSE Front(list)

Section(key, json) == Object([packet.fields EXCEPT ![key] = json])

Edits ==
  LET reports == packet.fields.scenarios.items
      aggregate == packet.fields.aggregate.fields
      queue == packet.fields.policyQueue.items
      average == AsFloat(aggregate.averageCumulativeDistance)
      AggregateWith(key, json) == Section("aggregate", Object([aggregate EXCEPT ![key] = json]))
  IN  {Section("scenarios", Array(ButLast(reports))),
       Section("scenarios", Array(Reverse(reports))),
       Section("policyQueue", Array(ButLast(queue))),
       Section("comparisons", Array(<<>>)),
       Section("inferenceUsed", Bool(TRUE)),
       AggregateWith("averageCumulativeDistance", Float(average)),
       AggregateWith("averageCumulativeDistance", Float(average + 1)),
       AggregateWith("totalTransitions", Float(1000 * aggregate.totalTransitions.number)),
       Object([key \in DOMAIN packet.fields \ {"comparisons"} |-> packet.fields[key]])}

EditPacket ==
  /\ scenarios # <<>>
  /\ call.tool = "analyze_scenarios64" /\ answer.status = "ok"
  /\ packet' \in Edits
  /\ call' = NoCall /\ answer' = NoAnswer
  /\ UNCHANGED <<scenarios, pairs, excluded, snapshots>>

ObserveSnapshot(snapshot) ==
  /\ Collecting
  /\ scenarios = <<>> /\ Len(snapshots) < MaxSnapshots
  /\ snapshots' = Append(snapshots, snapshot)
  /\ UNCHANGED <<scenarios, pairs, excluded, packet>>

AnalyzeTimeline ==
  /\ snapshots # <<>>
  /\ Call("analyze_observed_timeline64",
          Object([id |-> Spelled("timeline"), snapshots |-> Array(snapshots)]))
  /\ UNCHANGED <<scenarios, pairs, excluded, snapshots, packet>>

CallLoosely ==
  /\ scenarios = <<>> /\ snapshots = <<>> /\ packet = Null /\ answer = NoAnswer
  /\ \E loose \in LooseCalls : Call(loose.tool, loose.args)
  /\ UNCHANGED <<scenarios, pairs, excluded, snapshots, packet>>

Next ==
  \/ \E scenario \in Scenarios : CollectScenario(scenario)
  \/ \E left, right \in Ids : CollectPair(left, right)
  \/ \E id \in Ids : Exclude(id)
  \/ Analyze
  \/ Answer
  \/ Validate
  \/ EditPacket
  \/ \E snapshot \in Snapshots : ObserveSnapshot(snapshot)
  \/ AnalyzeTimeline
  \/ CallLoosely

Spec == Init /\ [][Next]_vars

-----------------------------------------------------------------------------
Answered(tool) == call.tool = tool /\ answer.status = "ok"

Field(json, key) == Value(Get(json, key))

\* The call's arguments without the packet.
Scope(args) == Object([key \in DOMAIN args.fields \ {"packet"} |-> args.fields[key]])

(* A packet the server gave out is valid when it comes back unchanged with  *)
(* the arguments it was built from: printing, reading and building it again *)
(* lose nothing, whole averages included.  smoke-mcp.mjs relies on it.      *)
OwnPacketIsValid ==
  Answered("validate_policy_packet64") =>
    (Reply(AnalyzeScenarios64(Scope(call.args))) = Ok(packet) => Field(answer.result, "valid"))

(* A packet is valid exactly when each of the four compared sections says   *)
(* what an analysis of the arguments at hand says, two numbers being the    *)
(* same when they denote the same quantity: not a packet cut short,         *)
(* reordered, left over from other arguments, or changed in one figure.     *)
VerdictIsExact ==
  Answered("validate_policy_packet64") =>
    LET fresh == AnalyzeScenarios64(Scope(call.args)).result
        held == call.args.fields.packet
    IN  Field(answer.result, "valid")
          <=> \A key \in ComparedSections : Printed(Get(held, key)) = Printed(Get(fresh, key))

Differ(one, other) == Max({one - other, other - one})

Visited(report) == ToSet(Field(report, "states"))

\* What a comparison may say of two reports.
Compares(comparison, left, right) ==
  /\ Field(comparison, "sameNetMutationMask")
       <=> Field(left, "netMutationMask") = Field(right, "netMutationMask")
  /\ Field(comparison, "cumulativeDistanceDelta")
       = Differ(Field(left, "cumulativeDistance"), Field(right, "cumulativeDistance"))
  /\ Field(comparison, "sharedStateCount") \in
       Cardinality(Visited(left) \cap Visited(right))..Len(Field(right, "states"))
  /\ Field(comparison, "sharedStateCount") > 0
       <=> Visited(left) \cap Visited(right) # {}

(* Several scenarios may have the same id.  All comparisons of a packet     *)
(* that name an id then mean the same scenario by it, one the packet        *)
(* reports, and say of it what its report says.                             *)
IdsMeanOneScenario ==
  Answered("analyze_scenarios64") =>
    LET reports == Field(answer.result, "scenarios")
        comparisons == Field(answer.result, "comparisons")
        ids == {Field(reports[i], "id") : i \in DOMAIN reports}
    IN  \E meant \in [ids -> DOMAIN reports] :
          /\ \A id \in ids : Field(reports[meant[id]], "id") = id
          /\ \A i \in DOMAIN comparisons :
               Compares(comparisons[i], reports[meant[Field(comparisons[i], "left")]],
                                        reports[meant[Field(comparisons[i], "right")]])

(* What the tools compute twice agrees: the distance a report adds up and   *)
(* the one compress_chain64 folds, the signature of a report, of the queue  *)
(* and of the chain tool, and the net distance and the transition from the  *)
(* first state to the last; a report's cumulative distance exceeds its net  *)
(* distance by an even number.                                              *)
ToolsAgree ==
  Answered("analyze_scenarios64") =>
    LET reports == Field(answer.result, "scenarios")
        queue == Field(answer.result, "policyQueue")
    IN  /\ \A i \in DOMAIN reports :
             LET report == reports[i]
                 chain == CompressChain64(Object([states |-> Get(report, "states")])).result
                 ends == LookupTransition64(
                           Object([key \in {"sourceStateId", "targetStateId"} |-> Get(report, key)])).result
             IN  /\ \A key \in {"signature", "cumulativeDistance", "netMutationMask", "orderedMutationMasks"} :
                      Get(report, key) = Get(chain, key)
                 /\ Get(report, "netMutationMask") = Get(ends, "mutationMask")
                 /\ Get(report, "netDistance") = Get(ends, "distance")
                 /\ \E detours \in 0..Field(report, "cumulativeDistance") :
                      Field(report, "cumulativeDistance") = Field(report, "netDistance") + 2 * detours
        /\ \A i \in DOMAIN queue : \E j \in DOMAIN reports :
             /\ Field(queue[i], "scenarioId") = Field(reports[j], "id")
             /\ Get(queue[i], "triggerSignature") = Get(reports[j], "signature")

(* The choices a timeline reports are enough to derive its output again:    *)
(* the bits of the decisions are the states, the masks lead from each state *)
(* to the next, and the distances select the final action.                  *)
ChoicesReconstructOutput ==
  Answered("analyze_observed_timeline64") =>
    LET reconstruction == Get(answer.result, "choiceReconstruction")
        anchors == Field(reconstruction, "anchorChoices")
        transitions == Field(reconstruction, "transitionChoices")
        outputs == Field(reconstruction, "outputChoices")
        final == Get(answer.result, "finalOutput")
        Derived(anchor) ==
          {p \in Positions : LET decision == Field(anchor, "decisions")[p]
                             IN  Field(decision, IF Field(decision, "result") THEN "trueBit" ELSE "falseBit") = 1}
        StateAt(i) == Derived(anchors[i])
        distance == FoldLeft(LAMBDA sum, choice : sum + Field(choice, "distance"), 0, transitions)
    IN  /\ \A i \in DOMAIN anchors : Field(anchors[i], "stateId") = StateId(StateAt(i))
        /\ Len(transitions) = Len(anchors) - 1
        /\ \A i \in DOMAIN transitions :
             Field(transitions[i], "mutationMask") = MaskId(MutationBetween(StateAt(i), StateAt(i + 1)))
        /\ Field(final, "finalStateId") = StateId(StateAt(Len(anchors)))
        /\ Field(final, "selectedAction") \in {Word(a) : a \in
             IF distance <= 3 THEN {"monitor"} ELSE IF distance <= 7 THEN {"review"} ELSE {"escalate"}}
        /\ Get(final, "selectedAction") = outputs[3]
        /\ outputs[1].items = [i \in DOMAIN anchors |-> Get(anchors[i], "stateId")]

(* The schemas are written beside the handlers, which never consult them.   *)
(* A call that conforms to the schema of its tool is refused only for what  *)
(* a schema of this form cannot say: a blank key, an ordering of values     *)
(* that are no numbers, a pair that names no scenario, and a bit that was   *)
(* written with a decimal point.                                            *)
SchemasSuffice ==
  (/\ answer.status = "rejected"
   /\ call.tool \in DOMAIN ToolDefinitions
   /\ Conforms(call.args, ToolDefinitions[call.tool]))
    => answer.faults \subseteq {"blank key", "not numeric", "unknown scenario", "bit"}

-----------------------------------------------------------------------------
IsAscii(text) == text.rest = <<>>

\* The analysed scenarios as the input of the three programs of round 5.
InputOf(args) ==
  Printed(Object([key \in DOMAIN args.fields \cap {"scenarios", "comparePairs"} |-> args.fields[key]]))

\* The texts of a scenario that its packet shows.
ShownTexts(scenario) ==
  {scenario.id} \cup IF scenario.id = CalmZero THEN {} ELSE ToSet(scenario.objective)

IsQueuedWithoutObjective(scenario) == scenario.objective = NoObjective /\ scenario.id # CalmZero

\* rust-mcp says what is expected, except that it does not round the average.
RustMcpAgrees(input, output, expected) ==
  Passed(output, expected, ComparedSections)
    = ComparedSections \ (IF (1000 * TotalDistance(Reports(input))) % Len(Reports(input)) = 0
                            THEN {} ELSE {"aggregate"})

\* rust-mcp-upgraded does when its texts get through, and when no objective is left open.
UpgradedAgrees(input, output, expected) ==
  LET analysed == ToSet(ScenariosOf(input))
      plain == \A scenario \in analysed : \A text \in ShownTexts(scenario) : IsAscii(text)
  IN  /\ ProducedPacketIsValid(input, output) <=> plain
      /\ (Passed(output, expected, ComparedSections) = ComparedSections)
           <=> (plain /\ ~\E scenario \in analysed : IsQueuedWithoutObjective(scenario))

\* no-mcp takes two classes for a third, and counts repeated states and masks repeatedly.
NoMcpAgrees(input, output, expected) ==
  LET Said(json, section, i) == Field(json, section)[i].fields
      known(states) == \A i \in DOMAIN Windows(states) :
        RegimeOf(states[i], states[i + 1]) \notin {"module_reconfiguration", "near_total_inversion"}
      counts == {"sharedStateCount", "sharedOrderedMutationMaskCount"}
      AgreeBut(one, other, keys) ==
        /\ DOMAIN one = DOMAIN other
        /\ \A key \in DOMAIN one \ keys : one[key] = other[key]
  IN  /\ "policyQueue" \in Passed(output, expected, ComparedSections)
      /\ \A i \in DOMAIN ScenariosOf(input) :
           AgreeBut(Said(output, "scenarios", i), Said(expected, "scenarios", i),
                    IF known(ScenariosOf(input)[i].states) THEN {} ELSE {"dominantRegimeClass"})
      /\ \A i \in DOMAIN Pairs(input) :
           LET mine == Said(output, "comparisons", i)
               theirs == Said(expected, "comparisons", i)
               left == ById(Reports(input), Pairs(input)[i].left)
           IN  /\ AgreeBut(mine, theirs, counts \cup {"sameDominantRegimeClass"})
               /\ \A key \in counts : mine[key].number >= theirs[key].number
               /\ IsInjective(left.states) => mine.sharedStateCount = theirs.sharedStateCount

\* The programs of round 5 refuse repeated ids, which the server does not; an input
\* that they accept they answer alike, as far as each one goes.
OutputsAgree(input, expected, noMcp, rustMcp, upgraded) ==
  /\ rustMcp.status = "ok" <=>
       /\ upgraded.status = "ok"
       /\ \A scenario \in ToSet(ScenariosOf(input)) : scenario.objective # NoObjective
  /\ rustMcp.status = "ok" => noMcp.status = "ok"
  /\ rustMcp.status = "ok" => RustMcpAgrees(input, rustMcp.result, expected)
  /\ upgraded.status = "ok" => UpgradedAgrees(input, upgraded.result, expected)
  /\ noMcp.status = "ok" => NoMcpAgrees(input, noMcp.result, expected)

InputAgrees(input) ==
  OutputsAgree(input, Printed(ReferencePacket(input)), NoMcpWorkbench(input), RustMcpWorkbench(input),
               UpgradedWorkbench(input))

WorkbenchesAgree == Answered("analyze_scenarios64") => InputAgrees(InputOf(call.args))

\* A timeline comes out alike by every route that its texts get through: to the
\* server go the observations, in one call the snapshots' ids as well, and back and
\* forth, for validation, the timeline's id and objective.
RoutesAgree(input, observed, local, multi, single) ==
  LET judged == {"anchors", "transitionPacket", "finalOutput", "choiceReconstruction"}
      Told(json) == \A text \in TextsOf(json) : IsAscii(text)
      named == \A i \in DOMAIN observed : Told(Get(observed[i], "id"))
      measured == \A i \in DOMAIN observed : Told(Get(observed[i], "observations"))
      titled == Told(Get(input, "id")) /\ Told(Get(input, "objective"))
      blank == \E i \in DOMAIN observed : Get(observed[i], "id") = Spelled("")
      listsMeet == \E i \in DOMAIN observed : \E observation \in Items(observed[i], "observations") :
        Get(observation, "value") = Get(observation, "threshold") /\ Get(observation, "value").is = "array"
  IN  /\ single.status = "ok"
      /\ local.status = "ok" <=> ~blank
      /\ multi.status = "ok" <=> titled
      /\ multi.status = "ok" =>
           (Passed(multi.result, single.result, judged) = judged <=> named)
      /\ local.status = "ok" =>
           (Passed(single.result, local.result, judged) = judged
              <=> named /\ measured /\ titled /\ ~listsMeet /\ Has(input, "objective"))

TimelineAgrees(input) ==
  RoutesAgree(input, Get(input, "snapshots").items, RunBaseline(input), RunMcp(input), RunMcpSingleCall(input))

TimelinesAgree == Answered("analyze_observed_timeline64") => TimelineAgrees(Printed(call.args))

\* The steps of the analysed scenarios as a dataset of round 3, a group for each scenario.
StepId(scenario, i) == [scenario.id EXCEPT !.ascii = Append(@, i)]

StepJson(scenario, i) ==
  Object([id |-> String(StepId(scenario, i)), groupId |-> String(scenario.id),
          sourceStateId |-> String(StateId(scenario.states[i])),
          targetStateId |-> String(StateId(scenario.states[i + 1]))])

StepsOf(scenario) == [i \in DOMAIN Windows(scenario.states) |-> StepJson(scenario, i)]

GroupJson(id, steps) ==
  Object([id |-> String(id), transitionIds |-> Array([i \in DOMAIN steps |-> Get(steps[i], "id")])])

FirstStepOf(id) == [id EXCEPT !.ascii = Append(@, 1)]

DatasetOf(analysed, paired) ==
  [transitions |-> Array(FlattenSeq([i \in DOMAIN analysed |-> StepsOf(analysed[i])])),
   groups |-> Array([i \in DOMAIN analysed |-> GroupJson(analysed[i].id, StepsOf(analysed[i]))]),
   comparePairs |->
     Array([i \in DOMAIN paired |->
              PairJson([left |-> FirstStepOf(paired[i].left), right |-> FirstStepOf(paired[i].right)])])]

\* The dataset, and what may be wrong with one: a group without transitions, one that
\* is missing, one that names a transition twice, one without a name, a state that
\* is none, a pair of the unknown, and no transitions at all.
DatasetsOf(input) ==
  LET dataset == DatasetOf(ScenariosOf(input), Pairs(input))
      groups == dataset.groups.items
      first == dataset.transitions.items[1]
      With(key, items) == [dataset EXCEPT ![key] = Array(items)]
      WithFirst(key, json) ==
        With("transitions", <<Object([first.fields EXCEPT ![key] = json])>> \o Tail(dataset.transitions.items))
  IN  {Object(fields) : fields \in
         {dataset, With("groups", Append(groups, GroupJson(Word("none"), <<>>))), With("groups", Tail(groups)),
          With("groups", Append(groups, GroupJson(Word("twice"), <<first, first>>))),
          With("groups", Append(groups, GroupJson(Word(""), <<first>>))),
          WithFirst("targetStateId", String(MaskId({}))), WithFirst("groupId", Null),
          With("comparePairs", <<PairJson([left |-> Word("none"), right |-> Word("none")])>>),
          [key \in DOMAIN dataset |-> Array(<<>>)]}}

HasEmptyGroup(dataset) == Array(<<>>) \in {Get(group, "transitionIds") : group \in Groups(dataset)}

\* A dataset that one program accepts all do, with one output; it is what is expected
\* but for groups without transitions; and what classify says
\* confirms every profile.
OutputsOfProfilersAgree(dataset, baseline, rs, ts) ==
  /\ baseline = rs /\ baseline = ts
  /\ baseline.status = "ok" =>
       /\ RightSections(baseline.result, ExpectedOutput(dataset))
            = ProfilerSections \ ((IF HasEmptyGroup(dataset) THEN {"groups"} ELSE {})
                                   \cup IF Transitions(dataset) = {} THEN {"aggregate"} ELSE {})
       /\ \A profile \in ToSet(baseline.result.transitions) :
            OracleConfirms(RsOracle(profile.sourceStateId, profile.targetStateId), profile)

ProfilersAgree ==
  Answered("analyze_scenarios64") =>
    \A dataset \in DatasetsOf(InputOf(call.args)) :
      OutputsOfProfilersAgree(dataset, BaselineProfiler(dataset), RsProfiler(dataset), TsProfiler(dataset))

(* The same question asked of programs that were written apart, of a tool,  *)
(* of several tools in turn and of a reference, has one answer, but for     *)
(* what is named here: repeated ids and blank ones, objectives left open,   *)
(* averages with more than three digits, classes one program does not know, *)
(* repeats it counts repeatedly, lists, summaries of no transitions, and    *)
(* texts beyond ASCII, which the server misreads.                           *)
ProgramsAgree == WorkbenchesAgree /\ TimelinesAgree /\ ProfilersAgree
=============================================================================
