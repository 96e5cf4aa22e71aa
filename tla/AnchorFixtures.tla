--------------------------- MODULE AnchorFixtures ---------------------------
(***************************************************************************)
(* Small contracts and observations for the TLC runs, shaped like those of *)
(* the repository's own tests: a numeric variable with a unit, a Boolean   *)
(* one with a declared default, six predicates that use every kind of      *)
(* expression, and the defective variants the validators must refuse.      *)
(***************************************************************************)
EXTENDS AnchorDefinitions

Thermal(version, keys) ==
  [id |-> "thermal", version |-> version, text |-> "t", admissible |-> keys,
   kind |-> "metric", family |-> "metric_geometric"]

ThermalV1 == Thermal("1", <<"temperature", "outage">>)
ThermalV2 == Thermal("2", <<"temperature", "outage">>)
ThermalV1Changed == Thermal("1", <<"temperature">>)
MisfiledDomain == [ThermalV2 EXCEPT !.family = "order"]

Celsius ==
  [canonical |-> "C",
   conversions |-> <<[from |-> "C", scale |-> 1, offset |-> 0],
                     [from |-> "K", scale |-> 1, offset |-> -273]>>]

Variable(id, valueType, unit) ==
  [id |-> id, text |-> "t", valueType |-> valueType, unit |-> unit]

Binding(id, key, variable, required, default, transform) ==
  [id |-> id, key |-> key, variable |-> variable, required |-> required,
   default |-> default, transform |-> transform]

Identity == [kind |-> "identity"]

Predicate(position, expression) ==
  [id |-> "p", text |-> "t", position |-> position, expression |-> expression,
   trueValue |-> None, falseValue |-> None]

TempTest(operator, n) == Test("temp", {"heat"}, operator, Scalar(Number(n)))
OutTest(operator, b)  == Test("out", {}, operator, Scalar(Boolean(b)))

\* The six predicates, given out of position order.
SixPredicates(threshold) == <<
  Predicate(12, <<OutTest("neq", TRUE)>>),
  Predicate(2, <<TempTest("gte", threshold)>>),
  Predicate(4, <<Group({}, TRUE, {2, 3}, {}), TempTest("lt", 0), OutTest("eq", TRUE)>>),
  Predicate(6, <<Test("temp", {}, "in", Array({Number(85), Number(70)}))>>),
  Predicate(8, <<Group({2}, FALSE, {}, {3}), TempTest("gt", 80), OutTest("eq", TRUE)>>),
  Predicate(10, <<Group({2}, FALSE, {}, {}), Group({}, TRUE, {}, {3}), TempTest("lte", 80)>>)
>>

Anchor(version, domainVersion, threshold) ==
  [id |-> "anchor", version |-> version, text |-> "t",
   domainId |-> "thermal", domainVersion |-> domainVersion, kind |-> "metric",
   variables |-> <<Variable("temp", "number", Celsius), Variable("out", "boolean", None)>>,
   relations |-> <<[id |-> "heat", text |-> "t", operands |-> {"temp"}]>>,
   bindings |-> <<Binding("b1", "temperature", "temp", TRUE, None, Identity),
                  Binding("b2", "outage", "out", FALSE, Boolean(FALSE), Identity)>>,
   assumptions |-> <<[id |-> "calibrated"]>>, scope |-> "rig",
   minimumReferences |-> 1, requireHash |-> FALSE,
   projectionVersion |-> "r" \o version, predicates |-> SixPredicates(threshold)]

AnchorV1 == Anchor("1", "1", 80)
AnchorV2 == Anchor("2", "1", 90)
AnchorOnV2 == Anchor("3", "2", 80)
AnchorV1Changed == Anchor("1", "1", 90)
NoDefaultAnchor == [AnchorV2 EXCEPT !.bindings[2].default = None]

Evidence(id, source) == [id |-> id, source |-> source, hash |-> ""]

Observation(key, value, unit, evidence) ==
  [key |-> key, value |-> value, unit |-> unit, evidence |-> evidence]

Temperature(n, unit) ==
  Observation("temperature", Number(n), unit, <<Evidence("e1", "sensor")>>)

Outage(b) == Observation("outage", Boolean(b), "", <<Evidence("e2", "controller")>>)
=============================================================================
