--------------------------- MODULE MCFormalization ---------------------------
EXTENDS FormalizationReplay, AnchorFixtures

Hashed(e) == [e EXCEPT !.hash = "h"]

Transformed(transform) == [AnchorV1 EXCEPT !.bindings[1].transform = transform]

MCContracts ==
  {AnchorV1,
   Transformed([kind |-> "absolute"]),
   Transformed([kind |-> "scale_offset", scale |-> 2, offset |-> -90]),
   [AnchorV1 EXCEPT !.bindings[2].transform = [kind |-> "absolute"]],
   [AnchorV1 EXCEPT !.minimumReferences = 0, !.variables[2].valueType = "number",
                    !.bindings[2].default = Number(0)],
   [AnchorV1 EXCEPT !.minimumReferences = 2],
   [AnchorV1 EXCEPT !.requireHash = TRUE],
   [AnchorV1 EXCEPT !.bindings = <<@[2], @[1]>>, !.bindings[1].key = "outage"]}

At(unit, n, evidence) == Observation("temperature", Number(n), unit, evidence)

Sensor == Evidence("e1", "sensor")
Log    == Evidence("e2", "log")

MCStatements ==
  {<<Outage(b), t>> : b \in BOOLEAN, t \in
     {Temperature(85, "C"), Temperature(-70, "C"), Temperature(85, "F"),
      Temperature(990, "C"), Temperature(5, ""), At("C", 80, <<>>),
      At("C", 80, <<Sensor, Log>>), At("C", 80, <<Sensor, Sensor>>),
      At("C", 80, <<Hashed(Sensor), Hashed(Log)>>),
      At("C", 80, <<Evidence("e2", "elsewhere")>>),
      At("C", 80, <<Evidence("", "sensor")>>),
      Observation("temperature", Boolean(TRUE), "C", <<Sensor>>)}}
  \cup {<<Temperature(85, "C")>>, <<Outage(TRUE)>>,
        <<Temperature(85, "C"), Temperature(86, "C")>>,
        <<Temperature(85, "C"), Observation("humidity", Number(1), "", <<Log>>)>>,
        <<Observation("outage", Number(1), "", <<Sensor, Log>>), At("C", 70, <<Sensor, Log>>)>>}
=============================================================================
