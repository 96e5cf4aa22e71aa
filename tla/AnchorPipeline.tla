--------------------------- MODULE AnchorPipeline ---------------------------
(***************************************************************************)
(* The path from evidence to an authoritative State64 record, as its       *)
(* clients drive it: a long-lived registry in one process, bundles of its  *)
(* contents handed to the stateless tools of ai-tools/ (which hydrate a    *)
(* registry of their own on every call, from a bundle of any age and of    *)
(* any registry), and snapshots that travel between calls as JSON, where   *)
(* they can be edited.                                                     *)
(***************************************************************************)
EXTENDS MathAnchorRegistry, Formalization

CONSTANTS
  ObservationSets,  \* what clients submit for formalization
  EditedValues,     \* values an edit may write into a snapshot
  ForeignBundles,   \* bundles clients bring along: other registries, or no registry's
  MaxBundles,       \* bound on the bundles in circulation
  MaxSnapshots      \* bound on the snapshots in circulation

VARIABLES
  bundles,     \* registry bundles in circulation
  snapshots,   \* formalized snapshots in circulation, edited ones included
  formalized,  \* history: the snapshots the code itself has produced
  records      \* the authoritative State64 records issued

clientVars == <<bundles, snapshots, formalized, records>>

vars == <<registryVars, clientVars>>

Entries(map) == {map[k] : k \in {j \in DOMAIN map : Present(map[j])}}

\* listDomains() and listRegisteredAnchors(), in the shape the tools take.
Listing == [domains |-> Entries(domains), anchors |-> Entries(anchors)]

-----------------------------------------------------------------------------
(* hydrateMathematicalRegistry(): every entry is registered afresh, the    *)
(* domains first, and any throw rejects the tool call.                     *)

ConsistentUnderKeys(definitions) ==
  \A d, e \in definitions : KeyOf(d) = KeyOf(e) => d = e

AnchorDefinitionsIn(bundle) == {a.definition : a \in bundle.anchors}

\* Mutation: the authority tag of a bundled anchor is not read.
HydratesUnread(bundle) ==
  /\ \A d \in bundle.domains : ValidDomain(d)
  /\ ConsistentUnderKeys(bundle.domains)
  /\ \A a \in bundle.anchors :
       /\ a.acceptedBy # Blank
       /\ \E d \in bundle.domains :
            KeyOf(d) = DomainKeyOf(a.definition) /\ ValidAnchor(a.definition, d)
  /\ ConsistentUnderKeys(AnchorDefinitionsIn(bundle))

\* Mutation: the anchors are registered before the domains they stand on.
HydratesAnchorsFirst(bundle) ==
  /\ bundle.anchors = {}
  /\ \A d \in bundle.domains : ValidDomain(d)
  /\ ConsistentUnderKeys(bundle.domains)

Hydrates(bundle) ==
  /\ \A d \in bundle.domains : ValidDomain(d)
  /\ ConsistentUnderKeys(bundle.domains)
  /\ \A a \in bundle.anchors :
       /\ a.authority = "registered"
       /\ a.acceptedBy # Blank
       /\ \E d \in bundle.domains :
            /\ KeyOf(d) = DomainKeyOf(a.definition)
            /\ ValidAnchor(a.definition, d)
  /\ ConsistentUnderKeys(AnchorDefinitionsIn(bundle))

\* The definitions requireRegisteredAnchor(id, version) can return.
Resolved(definitions, id, version) ==
  {d \in definitions : KeyOf(d) = VersionKey(id, version)}

HostDefinitions == {a.definition : a \in Entries(anchors)}

(* The registry whose contents a bundle holds: the one modelled here, at   *)
(* some time, or another, of which the bundle is all that is known.        *)
Host == None

\* None is no bundle of another registry, and no definition in one.
ASSUME NoneIsNoBundle ==
  None \notin ForeignBundles \cup UNION {AnchorDefinitionsIn(b) : b \in ForeignBundles}

RegistryOf(bundle) == IF bundle \in ForeignBundles THEN bundle ELSE Host

-----------------------------------------------------------------------------
PipelineInit ==
  /\ RegistryInit
  /\ bundles = ForeignBundles
  /\ snapshots = {}
  /\ formalized = {}
  /\ records = {}

Register == RegistryNext /\ UNCHANGED clientVars

\* A client takes the registry's contents away; they may be stale when used.
ExportBundle ==
  /\ Cardinality(bundles) < MaxBundles
  /\ bundles' = bundles \cup {Listing}
  /\ UNCHANGED <<registryVars, snapshots, formalized, records>>

\* applyMathematicalAnchor() with the definition it resolved.
ApplyAnchor(definition, observations) ==
  LET snapshot == Formalize(definition, observations)
  IN  /\ Cardinality(snapshots) < MaxSnapshots
      /\ AdmitsObservations(definition, observations)
      /\ snapshots' = snapshots \cup {snapshot}
      /\ formalized' = formalized \cup {snapshot}
      /\ UNCHANGED <<registryVars, bundles, records>>

FormalizeInProcess(key, observations) ==
  \E d \in Resolved(HostDefinitions, key[1], key[2]) : ApplyAnchor(d, observations)

\* semagraph_formalize_observations.
FormalizeTool(bundle, key, observations) ==
  \E d \in Resolved(AnchorDefinitionsIn(bundle), key[1], key[2]) :
    Hydrates(bundle) /\ ApplyAnchor(d, observations)

\* A record, with the registry and the definition it was decided by (history).
Issued(registry, definition, snapshot) ==
  [by |-> registry, under |-> definition, state |-> State64Record(definition, snapshot)]

\* projectFormalizedSnapshotToState64() with the definition it resolved.
Project(registry, definition, snapshot) ==
  /\ AdmitsProjection(definition, snapshot)
  /\ records' = records \cup {Issued(registry, definition, snapshot)}
  /\ UNCHANGED <<registryVars, bundles, snapshots, formalized>>

ProjectInProcess(snapshot) ==
  \E d \in Resolved(HostDefinitions, snapshot.material.anchorId,
                    snapshot.material.anchorVersion) : Project(Host, d, snapshot)

\* semagraph_anchor_formalized_state64.
ProjectTool(bundle, snapshot) ==
  \E d \in Resolved(AnchorDefinitionsIn(bundle), snapshot.material.anchorId,
                    snapshot.material.anchorVersion) :
    Hydrates(bundle) /\ Project(RegistryOf(bundle), d, snapshot)

\* anchorMathematicalObservationsToState64(): both stages in one call.
AnchorObservations(key, observations) ==
  \E d \in Resolved(HostDefinitions, key[1], key[2]) :
    LET snapshot == Formalize(d, observations)
    IN  /\ AdmitsObservations(d, observations)
        /\ AdmitsProjection(d, snapshot)
        /\ Cardinality(snapshots) < MaxSnapshots
        /\ snapshots' = snapshots \cup {snapshot}
        /\ formalized' = formalized \cup {snapshot}
        /\ records' = records \cup {Issued(Host, d, snapshot)}
        /\ UNCHANGED <<registryVars, bundles>>

\* What a client may write into the material of a snapshot it holds: another
\* measurement, another formal value, no evidence, or another anchor version.
Edits(material) ==
  UNION {
    {[material EXCEPT !.rows[i].observed = w] :
       i \in DOMAIN material.rows, w \in EditedValues},
    {[material EXCEPT !.variables[x] = w] :
       x \in DOMAIN material.variables, w \in EditedValues},
    {[material EXCEPT !.rows[i].evidence = <<>>] : i \in DOMAIN material.rows},
    {[material EXCEPT !.anchorVersion = a.version, !.projectionVersion = a.projectionVersion] :
       a \in AnchorDefs}}

\* The edit keeps the old replay key, or recomputes it with the exported
\* computeFormalizedSnapshotReplayKey().
EditSnapshot(snapshot) ==
  /\ Cardinality(snapshots) < MaxSnapshots
  /\ \E edited \in Edits(snapshot.material) \ {snapshot.material} :
       \E s \in {[snapshot EXCEPT !.material = edited], SnapshotOf(edited)} :
         snapshots' = snapshots \cup {s}
  /\ UNCHANGED <<registryVars, bundles, formalized, records>>

PipelineNext ==
  \/ Register
  \/ ExportBundle
  \/ \E k \in AnchorKeys, o \in ObservationSets :
       \/ FormalizeInProcess(k, o)
       \/ AnchorObservations(k, o)
       \/ \E b \in bundles : FormalizeTool(b, k, o)
  \/ \E s \in snapshots :
       \/ ProjectInProcess(s)
       \/ EditSnapshot(s)
       \/ \E b \in bundles : ProjectTool(b, s)

PipelineSpec == PipelineInit /\ [][PipelineNext]_vars

-----------------------------------------------------------------------------
BundleSpace == [domains : SUBSET DomainDefs, anchors : SUBSET RegisteredAnchors]

PipelineTypeOK ==
  /\ TypeOK
  /\ bundles \subseteq ForeignBundles \cup BundleSpace
  /\ formalized \subseteq snapshots
  /\ \A r \in records : r.by \in {Host} \cup ForeignBundles /\ r.state.snapshot \in snapshots

SnapshotKey(snapshot) ==
  VersionKey(snapshot.material.anchorId, snapshot.material.anchorVersion)

Exports == bundles \ ForeignBundles

(* A bundle the registry has exported can always be hydrated again, however *)
(* many registrations ago it was taken: the listing is closed under the     *)
(* domains its anchors stand on, and holds no two definitions of one key.   *)
ExportsHydrate == \A b \in Exports : Hydrates(b)

\* What a registry holds under an identity, with who accepted it.
Held(registry, key) ==
  {a \in IF registry = Host THEN Entries(anchors) ELSE registry.anchors :
     KeyOf(a.definition) = key}

(* Only a registered anchor creates an authoritative record: the definition *)
(* a record was decided under is the one its registry holds, now as then,   *)
(* for the anchor version the trace names, accepted by a named authority.   *)
(* Registries need not agree: a bundle of another one is its own authority. *)
RecordsAreRegistered ==
  \A r \in records :
    LET held == Held(r.by, SnapshotKey(r.state.snapshot))
    IN  /\ {a.definition : a \in held} = {r.under}
        /\ \A a \in held : a.authority = "registered" /\ a.acceptedBy # Blank

(* To one registry a formal object has one element of B^6: two records that *)
(* it made from one snapshot agree, by any route, through bundles of any    *)
(* age, and whatever other registries say in between.  FORMAL-MODEL.md says *)
(* so of the object and the projection version alone: but a registry that   *)
(* binds the version to other predicates gives the object another element,  *)
(* and a tool accepts the bundle of any.                                    *)
OneElementPerFormalObject ==
  \A q, r \in records :
    q.by = r.by /\ q.state.snapshot = r.state.snapshot => q.state.bits = r.state.bits

(* No value is invented: in the snapshot of a record, every formal value is *)
(* its variable's declared default or is computed from an observed value    *)
(* that keeps the evidence the contract asks for, and one evidence id never *)
(* stands for two sources.                                                  *)
NothingInvented ==
  \A r \in records :
    LET rows == Elements(r.state.snapshot.material.rows)
    IN  /\ \A row \in rows : r.state.snapshot.material.variables[row.variable] = row.formal
        /\ \A row \in rows :
             \E b \in Elements(r.under.bindings) :
               /\ b.variable = row.variable
               /\ \/ row.origin = "declared_default" /\ ~b.required /\ row.formal = b.default
                  \/ /\ Len(row.evidence) >= r.under.minimumReferences
                     /\ row.formal = FormalValue([value |-> row.observed, unit |-> row.unit],
                                                 b, VariableOf(r.under, b.variable))
        /\ \A p, q \in UNION {Elements(row.evidence) : row \in rows} : p.id = q.id => p = q

\* An anchor version means something only within a registry: the one modelled
\* here, or another whose bundle the tools accept, bound from the start.
AnchorIdentities ==
  {<<Host, k>> : k \in AnchorKeys} \cup
  UNION {{<<b, KeyOf(d)>> : d \in AnchorDefinitionsIn(b)} :
           b \in {c \in ForeignBundles : Hydrates(c)}}

GivenDefinition(identity) ==
  IF identity[1] = Host
  THEN None
  ELSE CHOOSE d \in AnchorDefinitionsIn(identity[1]) : KeyOf(d) = identity[2]

GivenDefinitions == [i \in AnchorIdentities |-> GivenDefinition(i)]

BoundDefinitions ==
  [i \in AnchorIdentities |->
     IF i[1] = Host /\ Present(anchors[i[2]]) THEN anchors[i[2]].definition
                                            ELSE GivenDefinitions[i]]

VerdictOf(r) ==
  [identity |-> <<r.by, SnapshotKey(r.state.snapshot)>>, object |-> r.state.snapshot,
   element |-> r.state.bits]

Verdicts == {VerdictOf(r) : r \in records}

(* The pipeline implements the contract its documentation states, for each  *)
(* registry: mapped to identities, definitions and verdicts, every step     *)
(* binds one identity, decides one formal object as it was decided before,  *)
(* or changes nothing.                                                      *)
Contract == INSTANCE AuthorityContract WITH
  Identities  <- AnchorIdentities,
  Definitions <- AnchorDefs,
  Given       <- GivenDefinitions,
  Unbound     <- None,
  contract    <- BoundDefinitions,
  verdicts    <- Verdicts

ImplementsContract == Contract!Spec
=============================================================================
