--------------------------- MODULE MCAgentSession ---------------------------
(* A small instance of AgentSession. *)
EXTENDS AgentSession

Accented == [ascii |-> <<"b">>, rest |-> <<233>>]

Scenario(id, states) == [id |-> id, states |-> states, objective |-> NoObjective]

\* Two of one id; one of every volatility; one that returns; averages that are whole, halves and thirds.
Calm == [Scenario(CalmZero, <<{1}, {1, 2}>>) EXCEPT !.objective = <<Accented>>]
Returning == [Scenario(Word("c"), <<{}, {1, 4}, {}, {1, 4}>>) EXCEPT !.objective = <<Word("")>>]
Varied == [Scenario(Accented, <<{}, Positions, {1, 2}, {1}>>) EXCEPT !.objective = <<Word("hold")>>]

MCScenarios == {Calm, Scenario(CalmZero, <<{}, {1, 2, 4, 5}>>), Varied}

MCIds == {CalmZero, Accented}

Observation(key, value, operator, threshold) ==
  [key |-> Spelled(key), value |-> value, operator |-> Spelled(operator), threshold |-> threshold]

Inverted == [trueBit |-> Number(0), falseBit |-> Number(1)]

\* The observations of a state: thresholds, a float, an equality of texts, inverted bits.
ObservationsOf(state) ==
  LET Level(p) == IF p \in state THEN 2 ELSE 0
      At(p) == Observation("k", Number(Level(p)), "gt", Float(1500))
  IN  Array(<<Object(At(1)),
              Object(Observation("k", Float(1000 * Level(2)), "gte", Number(2))),
              Object(Observation("k", Spelled(IF 3 \in state THEN "open" ELSE "shut"), "eq", Spelled("open"))),
              Object(Observation("k", Number(Level(4)), "lt", Number(1)) @@ Inverted),
              Object(At(5) @@ [unit |-> Spelled("mm")]),
              Object(Observation("k", Number(Level(6)), "neq", Number(0)) @@ [source |-> Spelled("log")])>>)

SnapshotOf(state) == Object([id |-> Spelled("s"), observations |-> ObservationsOf(state)])

MCSnapshots == {SnapshotOf(state) : state \in {{}, {1}, {1, 4}, {2, 3, 5, 6}, Positions}}

-----------------------------------------------------------------------------
\* Calls of every tool, and their arguments with one thing wrong.
Honest ==
  LET chain == Texts(<<StateId({1}), StateId({1, 6}), StateId({})>>)
      scenario == Object([id |-> Spelled("a"), states |-> chain, objective |-> Spelled("o")])
      workbench == [scenarios |-> Array(<<scenario>>),
                    comparePairs |-> Array(<<Object([left |-> Spelled("a"), right |-> Spelled("a")])>>),
                    excludePolicyScenarioIds |-> Array(<<Spelled("b")>>)]
      observed == Array(<<SnapshotOf({1}), SnapshotOf({4})>>)
  IN  {[tool |-> "anchor_state64", args |-> Object([observations |-> ObservationsOf({4})])],
       [tool |-> "anchor_state64", args |-> Object([observations |->
          Array([i \in Positions |-> Object(Observation("k", Number(i), "gt", Float(500)) @@ Inverted)])])],
       [tool |-> "lookup_transition64",
        args |-> Object([sourceStateId |-> String(StateId({1})), targetStateId |-> String(StateId({2}))])],
       [tool |-> "compress_chain64", args |-> Object([states |-> chain])],
       [tool |-> "policy_context64",
        args |-> Object([states |-> chain, objective |-> Spelled("o"), constraints |-> Array(<<Spelled("c")>>)])],
       [tool |-> "analyze_scenarios64", args |-> Object(workbench)],
       [tool |-> "validate_policy_packet64",
        args |-> Object(workbench @@ [packet |-> Object([scenarios |-> Array(<<>>)])])],
       [tool |-> "analyze_observed_timeline64",
        args |-> Object([id |-> Spelled("t"), objective |-> Spelled("o"),
                         anchorRuleVersion |-> Spelled("1"), snapshots |-> observed])],
       [tool |-> "verify_transition_basis", args |-> Object([none \in {} |-> Null])],
       [tool |-> "unknown", args |-> Null]}

Junk == {Null, Bool(TRUE), Number(1), Number(2), Float(1000), Float(500), Spelled("gt"), Spelled(""),
         String(StateId({3})), Array(<<>>), Array(<<Null>>), Object([none \in {} |-> Null])}

RECURSIVE Variants(_)
Variants(json) ==
  Junk \cup
  CASE json.is = "object" ->
         {Object([key \in DOMAIN json.fields \ {gone} |-> json.fields[key]]) : gone \in DOMAIN json.fields}
           \cup {Object(json.fields @@ [extra |-> Null])}
           \cup UNION {{Object([json.fields EXCEPT ![key] = other]) : other \in Variants(json.fields[key])}
                         : key \in DOMAIN json.fields}
    [] json.is = "array" /\ json.items # <<>> ->
         {Array(Tail(json.items)), Array(<<json.items[1]>>)}
           \cup {Array([json.items EXCEPT ![1] = other]) : other \in Variants(json.items[1])}
    [] OTHER -> {}

\* Workbenches of three scenarios, and timelines of texts beyond ASCII, with lists and without an objective.
ThreeScenarios(third) ==
  Object([scenarios |-> Array(<<ScenarioJson(Calm), ScenarioJson(Returning), ScenarioJson(third)>>),
          comparePairs |-> Array(<<PairJson([left |-> third.id, right |-> Word("c")]),
                                   PairJson([left |-> Word("c"), right |-> third.id])>>)])

Thirds == {[Varied EXCEPT !.id = id, !.states = states] :
             id \in {Word("d"), Word(" "), Accented},
             states \in {<<{1}, {1, 2, 3}, {1}>>, <<{}, {1}, {1, 4}>>, <<{}, {}, {1, 4}, {}, Positions>>}}

Timelines ==
  LET lists == [key |-> Spelled("k"), value |-> Array(<<>>), operator |-> Spelled("eq"), threshold |-> Array(<<>>)]
      Snapshot(id, first) ==
        Object([id |-> id, observations |-> Array([ObservationsOf({1}).items EXCEPT ![1] = first])])
      plain == ObservationsOf({1, 2}).items[1]
      noted == Object(plain.fields @@ [source |-> String(Accented)])
  IN  {Object([id |-> id, snapshots |-> Array(<<Snapshot(name, first), SnapshotOf({4})>>)] @@ objective) :
         id \in {Spelled("t"), String(Accented)}, name \in {Spelled("s"), String(Accented)},
         first \in {plain, noted, Object(lists)},
         objective \in {[objective |-> Spelled("o")], [objective |-> String(Accented)], [none \in {} |-> Null]}}

MCLooseCalls ==
  {[tool |-> "analyze_scenarios64", args |-> ThreeScenarios(third)] : third \in Thirds} \cup
  {[tool |-> "analyze_observed_timeline64", args |-> timeline] : timeline \in Timelines} \cup
  UNION {{[tool |-> honest.tool, args |-> args] : args \in {honest.args} \cup Variants(honest.args)}
           : honest \in Honest}
=============================================================================
