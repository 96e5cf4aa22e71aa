----------------------------- MODULE MCPipeline -----------------------------
EXTENDS AnchorPipeline, AnchorFixtures

Domains    == {ThermalV1, ThermalV1Changed, MisfiledDomain}
Tags       == {"candidate", "registered"}
Boards     == {"", "board", "lab"}

Versions == {AnchorV1, AnchorV1Changed, AnchorV2, AnchorOnV2, NoDefaultAnchor}

Measured ==
  {<<Temperature(358, "K"), Outage(TRUE)>>,
   <<Outage(FALSE), Temperature(85, "C")>>,
   <<Temperature(70, "F")>>}

Seventy == {Number(70)}

ChangedBundle(authority, acceptor, definitions, domainDefs) ==
  [domains |-> domainDefs,
   anchors |-> {[authority |-> authority, acceptedBy |-> acceptor, definition |-> d] :
                  d \in definitions}]

\* Documents that are not bundles of registered anchors.
MalformedBundles == {
  ChangedBundle("candidate", "lab", {AnchorV1Changed}, {ThermalV1}),
  ChangedBundle("registered", "", {AnchorV1Changed}, {ThermalV1}),
  ChangedBundle("registered", "lab", {AnchorV1Changed}, {ThermalV2}),
  ChangedBundle("registered", "lab", {AnchorV1Changed}, {ThermalV1, ThermalV1Changed}),
  ChangedBundle("registered", "lab", {AnchorV1, AnchorV1Changed}, {ThermalV1})}

\* What another registry holds, which binds version 1 to other predicates.
OtherRegistry == ChangedBundle("registered", "elsewhere", {AnchorV1Changed}, {ThermalV1})

BroughtBundles == MalformedBundles \cup {OtherRegistry}
=============================================================================
