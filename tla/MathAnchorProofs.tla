-------------------------- MODULE MathAnchorProofs --------------------------
(***************************************************************************)
(* What the anchors guarantee for every set of contracts, clients, edits   *)
(* and observations: the registry, the pipeline built on it, and callers   *)
(* that restate their evidence.  What licenses a record is that it is the  *)
(* registry's that made it: the one modelled, or the one a bundle brought  *)
(* from outside stands for.                                                *)
(***************************************************************************)
EXTENDS AnchorPipeline, FormalizationReplay, FiniteSetTheorems, SequenceTheorems,
        WellFoundedInduction, TLAPS

-----------------------------------------------------------------------------
\* The registry alone.  What makes a definition valid plays no part, only
\* that it was checked.

LEMMA AcceptedFields ==
  ASSUME NEW by, NEW a
  PROVE  /\ Accepted(by, a).definition = a
         /\ Accepted(by, a).acceptedBy = by
         /\ Accepted(by, a).authority = "registered"
  BY DEF Accepted

LEMMA RegisteredFields ==
  ASSUME NEW e \in RegisteredAnchors
  PROVE  /\ e.definition \in AnchorDefs
         /\ e.acceptedBy \in Acceptors \ {Blank}
         /\ e.authority = "registered"
  <1>1. PICK by \in Acceptors \ {Blank}, a \in AnchorDefs : e = Accepted(by, a)
    BY DEF RegisteredAnchors
  <1> QED BY <1>1, AcceptedFields

LEMMA KeysOfDefinitions ==
  /\ \A d \in DomainDefs : KeyOf(d) \in DomainKeys
  /\ \A a \in AnchorDefs : KeyOf(a) \in AnchorKeys /\ DomainKeyOf(a) \in DomainKeys
  BY DEF DomainKeys, AnchorKeys

-----------------------------------------------------------------------------
LEMMA TypeInit == RegistryInit => TypeOK
  BY DEF RegistryInit, TypeOK

LEMMA TypeStep == TypeOK /\ [RegistryNext]_registryVars => TypeOK'
  <1> SUFFICES ASSUME TypeOK, [RegistryNext]_registryVars PROVE TypeOK'
    OBVIOUS
  <1>1. ASSUME NEW d \in DomainDefs, RegisterDomain(d) PROVE TypeOK'
    BY <1>1, KeysOfDefinitions DEF RegisterDomain, TypeOK
  <1>2. ASSUME NEW t \in Authorities, NEW a \in AnchorDefs, NEW by \in Acceptors,
               RegisterNewAnchor(t, a, by)
        PROVE  TypeOK'
    <2>1. Accepted(by, a) \in RegisteredAnchors
      BY <1>2 DEF RegisterNewAnchor, AdmitsCandidate, RegisteredAnchors
    <2> QED BY <1>2, <2>1, KeysOfDefinitions DEF RegisterNewAnchor, TypeOK
  <1>3. ASSUME NEW t \in Authorities, NEW a \in AnchorDefs, NEW by \in Acceptors,
               RegisterKnownAnchor(t, a, by)
        PROVE  TypeOK'
    <2>1. anchors[KeyOf(a)] \in RegisteredAnchors
      BY <1>3, KeysOfDefinitions DEF RegisterKnownAnchor, TypeOK, Present
    <2> QED BY <1>3, <2>1 DEF RegisterKnownAnchor, TypeOK
  <1>4. CASE UNCHANGED registryVars
    BY <1>4 DEF registryVars, TypeOK
  <1> QED BY <1>1, <1>2, <1>3, <1>4 DEF RegistryNext

(* Type correctness: the maps hold definitions and registered entries only. *)
THEOREM RegistryTypeCorrect == RegistrySpec => []TypeOK
  BY TypeInit, TypeStep, PTL DEF RegistrySpec

-----------------------------------------------------------------------------
\* What registration does to the two maps, whoever calls: each map only gains
\* entries, and a new anchor entry is grounded when it is made.
LEMMA DomainsOnlyGrow ==
  ASSUME TypeOK, [RegistryNext]_registryVars,
         NEW k \in DomainKeys, Present(domains[k])
  PROVE  domains'[k] = domains[k]
  <1>1. ASSUME NEW d \in DomainDefs, RegisterDomain(d) PROVE domains'[k] = domains[k]
    BY <1>1 DEF RegisterDomain, TypeOK, Present
  <1>2. CASE UNCHANGED domains
    BY <1>2
  <1> QED
    BY <1>1, <1>2 DEF RegistryNext, registryVars, RegisterNewAnchor, RegisterKnownAnchor

LEMMA AnchorsOnlyGrow ==
  ASSUME TypeOK, [RegistryNext]_registryVars,
         NEW k \in AnchorKeys, Present(anchors[k])
  PROVE  anchors'[k] = anchors[k]
  <1>1. ASSUME NEW t \in Authorities, NEW a \in AnchorDefs, NEW by \in Acceptors,
               RegisterNewAnchor(t, a, by)
        PROVE  anchors'[k] = anchors[k]
    BY <1>1 DEF RegisterNewAnchor, TypeOK, Present
  <1>2. CASE UNCHANGED anchors
    BY <1>2
  <1> QED
    BY <1>1, <1>2 DEF RegistryNext, registryVars, RegisterDomain, RegisterKnownAnchor

(* A definition is immutable once registered, in either map.               *)
THEOREM RegistryEntriesAreImmutable == RegistrySpec => EntriesAreImmutable
  <1>1. TypeOK /\ [RegistryNext]_registryVars =>
          [ /\ \A k \in DomainKeys : Present(domains[k]) => domains'[k] = domains[k]
            /\ \A k \in AnchorKeys : Present(anchors[k]) => anchors'[k] = anchors[k]
          ]_registryVars
    BY DomainsOnlyGrow, AnchorsOnlyGrow
  <1> QED BY <1>1, RegistryTypeCorrect, PTL DEF RegistrySpec, EntriesAreImmutable

-----------------------------------------------------------------------------
LEMMA GroundedInit == RegistryInit => AnchorsAreGrounded
  BY DEF RegistryInit, AnchorsAreGrounded, Present

\* What it takes for the entry e of key k to be grounded in the domains map.
Grounded(k, e, map) ==
  /\ KeyOf(e.definition) = k
  /\ Present(map[DomainKeyOf(e.definition)])
  /\ ValidAnchor(e.definition, map[DomainKeyOf(e.definition)])

LEMMA GroundedStep ==
  TypeOK /\ AnchorsAreGrounded /\ [RegistryNext]_registryVars => AnchorsAreGrounded'
  <1> SUFFICES ASSUME TypeOK, AnchorsAreGrounded, [RegistryNext]_registryVars,
                      NEW k \in AnchorKeys, Present(anchors'[k])
               PROVE  Grounded(k, anchors'[k], domains')
    BY DEF AnchorsAreGrounded, Grounded
  <1>1. CASE Present(anchors[k])
    <2> DEFINE e == anchors[k]
    <2>1. Grounded(k, e, domains)
      BY <1>1 DEF AnchorsAreGrounded, Grounded
    <2>2. e \in RegisteredAnchors
      BY <1>1 DEF TypeOK, Present
    <2>3. DomainKeyOf(e.definition) \in DomainKeys
      BY <2>2, RegisteredFields, KeysOfDefinitions
    <2>4. domains'[DomainKeyOf(e.definition)] = domains[DomainKeyOf(e.definition)]
      BY <2>1, <2>3, DomainsOnlyGrow DEF Grounded
    <2>5. anchors'[k] = e
      BY <1>1, AnchorsOnlyGrow
    <2> QED BY <2>1, <2>4, <2>5 DEF Grounded
  <1>2. CASE ~Present(anchors[k])
    <2>1. PICK t \in Authorities, a \in AnchorDefs, by \in Acceptors :
            RegisterNewAnchor(t, a, by)
      BY <1>2 DEF RegistryNext, registryVars, RegisterDomain, RegisterKnownAnchor
    <2>2. /\ anchors'[k] = Accepted(by, a)
          /\ KeyOf(a) = k
          /\ domains' = domains
      BY <1>2, <2>1 DEF RegisterNewAnchor, TypeOK, Present
    <2>3. /\ Present(domains[DomainKeyOf(a)])
          /\ ValidAnchor(a, domains[DomainKeyOf(a)])
      BY <2>1 DEF RegisterNewAnchor, AdmitsCandidate
    <2> QED BY <2>2, <2>3, AcceptedFields DEF Grounded
  <1> QED BY <1>1, <1>2

(* Every registered anchor is valid for a registered domain, under its key. *)
THEOREM RegistryAnchorsAreGrounded == RegistrySpec => []AnchorsAreGrounded
  BY GroundedInit, GroundedStep, RegistryTypeCorrect, PTL DEF RegistrySpec

-----------------------------------------------------------------------------
LEMMA GrantsStep ==
  TypeOK /\ GrantsStand /\ [RegistryNext]_registryVars => GrantsStand'
  <1> SUFFICES ASSUME TypeOK, GrantsStand, [RegistryNext]_registryVars,
                      NEW g \in granted'
               PROVE  anchors'[KeyOf(g.entry.definition)] = g.entry
    BY DEF GrantsStand
  <1>1. CASE g \in granted
    <2>1. /\ g.entry \in RegisteredAnchors
          /\ anchors[KeyOf(g.entry.definition)] = g.entry
      BY <1>1 DEF TypeOK, GrantsStand
    <2>2. KeyOf(g.entry.definition) \in AnchorKeys
      BY <2>1, RegisteredFields, KeysOfDefinitions
    <2>3. Present(g.entry)
      BY <2>1, NoneIsNoEntry DEF Present
    <2> QED BY <2>1, <2>2, <2>3, AnchorsOnlyGrow
  <1>2. CASE g \notin granted
    <2>1. PICK t \in Authorities, a \in AnchorDefs, by \in Acceptors :
            RegisterNewAnchor(t, a, by) \/ RegisterKnownAnchor(t, a, by)
      BY <1>2 DEF RegistryNext, registryVars, RegisterDomain
    <2>2. CASE RegisterNewAnchor(t, a, by)
      <3>1. g.entry = Accepted(by, a)
        BY <1>2, <2>2 DEF RegisterNewAnchor
      <3> QED BY <2>2, <3>1, AcceptedFields, KeysOfDefinitions DEF RegisterNewAnchor, TypeOK
    <2>3. CASE RegisterKnownAnchor(t, a, by)
      BY <1>2, <2>3 DEF RegisterKnownAnchor
    <2> QED BY <2>1, <2>2, <2>3
  <1> QED BY <1>1, <1>2

(* An entry a caller was given stays the entry of its key.                  *)
THEOREM RegistryGrantsStand == RegistrySpec => []GrantsStand
  <1>1. RegistryInit => GrantsStand
    BY DEF RegistryInit, GrantsStand
  <1> QED BY <1>1, GrantsStep, RegistryTypeCorrect, PTL DEF RegistrySpec

-----------------------------------------------------------------------------
\* The pipeline around it.

\* Every definition in an exported bundle is still the registry's own.
BundlesAreCurrent ==
  \A b \in bundles \ ForeignBundles : \A a \in b.anchors :
    /\ a.definition \in AnchorDefs
    /\ anchors[KeyOf(a.definition)] = a
    /\ Present(a)

\* A definition is current when its registry holds it under its key.
Current(registry, d) ==
  IF registry = Host
  THEN /\ d \in AnchorDefs
       /\ Present(anchors[KeyOf(d)])
       /\ anchors[KeyOf(d)].definition = d
  ELSE /\ registry \in ForeignBundles
       /\ Hydrates(registry)
       /\ d \in AnchorDefinitionsIn(registry)

\* Every record was issued under a definition that is current in its registry
\* and is the one its snapshot names.
IssuedUnder(r) ==
  /\ r = Issued(r.by, r.under, r.state.snapshot)
  /\ SnapshotKey(r.state.snapshot) = KeyOf(r.under)
  /\ Current(r.by, r.under)

RecordsAreIssued == \A r \in records : IssuedUnder(r)

\* The inductive invariant.
PipelineInv ==
  /\ TypeOK
  /\ AnchorsAreGrounded
  /\ BundlesAreCurrent
  /\ RecordsAreIssued

-----------------------------------------------------------------------------
\* The identity a snapshot carries is that of the definition applied.
LEMMA FormalizedIdentity ==
  ASSUME NEW d, NEW o
  PROVE  SnapshotKey(Formalize(d, o)) = KeyOf(d)
  BY DEF SnapshotKey, Formalize, SnapshotOf, Material, KeyOf, VersionKey

LEMMA IssuedFields ==
  ASSUME NEW g, NEW d, NEW s
  PROVE  /\ Issued(g, d, s).by = g
         /\ Issued(g, d, s).under = d
         /\ Issued(g, d, s).state = State64Record(d, s)
         /\ Issued(g, d, s).state.snapshot = s
         /\ Issued(g, d, s).state.bits = BitsOf(Decisions(d, s.material))
  BY DEF Issued, State64Record

LEMMA EntriesOfAnchors ==
  ASSUME TypeOK, AnchorsAreGrounded, NEW e \in Entries(anchors)
  PROVE  /\ e \in RegisteredAnchors
         /\ e.definition \in AnchorDefs
         /\ KeyOf(e.definition) \in AnchorKeys
         /\ anchors[KeyOf(e.definition)] = e
         /\ Present(e)
  <1>1. PICK k \in AnchorKeys : Present(anchors[k]) /\ e = anchors[k]
    BY DEF Entries, TypeOK
  <1>2. e \in RegisteredAnchors
    BY <1>1 DEF TypeOK, Present
  <1>3. KeyOf(e.definition) = k
    BY <1>1 DEF AnchorsAreGrounded
  <1> QED BY <1>1, <1>2, <1>3, RegisteredFields

LEMMA HostIsCurrent ==
  ASSUME PipelineInv, NEW d \in HostDefinitions
  PROVE  Current(Host, d)
  BY EntriesOfAnchors DEF HostDefinitions, PipelineInv, Current

LEMMA BundleIsCurrent ==
  ASSUME PipelineInv, NEW b \in bundles, Hydrates(b), NEW d \in AnchorDefinitionsIn(b)
  PROVE  Current(RegistryOf(b), d)
  <1>1. CASE b \in ForeignBundles
    <2>1. RegistryOf(b) = b /\ b # Host
      BY <1>1, NoneIsNoBundle DEF RegistryOf, Host
    <2> QED BY <1>1, <2>1 DEF Current
  <1>2. CASE b \notin ForeignBundles
    <2>1. PICK a \in b.anchors : d = a.definition
      BY DEF AnchorDefinitionsIn
    <2>2. RegistryOf(b) = Host
      BY <1>2 DEF RegistryOf
    <2> QED BY <1>2, <2>1, <2>2 DEF PipelineInv, BundlesAreCurrent, Current
  <1> QED BY <1>1, <1>2

\* A registry holds one definition of a key, as long as it holds any.
LEMMA CurrentIsOne ==
  ASSUME NEW g, NEW d, NEW e, Current(g, d), Current(g, e), KeyOf(d) = KeyOf(e)
  PROVE  d = e
  BY DEF Current, Hydrates, ConsistentUnderKeys

LEMMA CurrentStands ==
  ASSUME TypeOK, [RegistryNext]_registryVars, NEW g, NEW d, Current(g, d)
  PROVE  Current(g, d)'
  <1>1. CASE g = Host
    <2>1. KeyOf(d) \in AnchorKeys /\ Present(anchors[KeyOf(d)])
      BY <1>1, KeysOfDefinitions DEF Current
    <2> QED BY <1>1, <2>1, AnchorsOnlyGrow DEF Current
  <1>2. CASE g # Host
    BY <1>2 DEF Current
  <1> QED BY <1>1, <1>2

-----------------------------------------------------------------------------
\* A step that issues one record under a current definition.
Issues(g, d, s) ==
  /\ records' = records \cup {Issued(g, d, s)}
  /\ UNCHANGED <<registryVars, bundles>>

Licensed(g, d, s) == Current(g, d) /\ SnapshotKey(s) = KeyOf(d)

LEMMA LicensedIssue ==
  ASSUME NEW g, NEW d, NEW s, Licensed(g, d, s)
  PROVE  IssuedUnder(Issued(g, d, s))
  BY IssuedFields DEF IssuedUnder, Licensed

LEMMA IssueKeeps ==
  ASSUME PipelineInv, NEW g, NEW d, NEW s, Licensed(g, d, s), Issues(g, d, s)
  PROVE  PipelineInv'
  <1>1. /\ records' = records \cup {Issued(g, d, s)}
        /\ UNCHANGED <<domains, anchors, granted, bundles>>
    BY DEF Issues, registryVars
  <1>2. \A r : IssuedUnder(r) => IssuedUnder(r)'
    BY <1>1 DEF IssuedUnder, Current
  <1>3. RecordsAreIssued'
    BY <1>1, <1>2, LicensedIssue DEF RecordsAreIssued, PipelineInv
  <1>4. (TypeOK /\ AnchorsAreGrounded /\ BundlesAreCurrent)'
    BY <1>1 DEF PipelineInv, TypeOK, AnchorsAreGrounded, BundlesAreCurrent
  <1> QED BY <1>3, <1>4 DEF PipelineInv

LEMMA UntouchedRecords ==
  ASSUME PipelineInv, UNCHANGED <<registryVars, bundles, records>>
  PROVE  PipelineInv'
  BY DEF PipelineInv, registryVars, TypeOK, AnchorsAreGrounded, BundlesAreCurrent,
         RecordsAreIssued, IssuedUnder, Current

LEMMA RegisterKeeps ==
  ASSUME PipelineInv, Register
  PROVE  PipelineInv'
  <1>1. /\ [RegistryNext]_registryVars
        /\ UNCHANGED <<bundles, records>>
    BY DEF Register, clientVars
  <1>2. TypeOK' /\ AnchorsAreGrounded'
    BY <1>1, TypeStep, GroundedStep DEF PipelineInv
  <1>3. \A a \in AnchorDefs : Present(anchors[KeyOf(a)]) =>
          anchors'[KeyOf(a)] = anchors[KeyOf(a)]
    BY <1>1, AnchorsOnlyGrow, KeysOfDefinitions DEF PipelineInv
  <1>4. BundlesAreCurrent'
    BY <1>1, <1>3 DEF BundlesAreCurrent, PipelineInv
  <1>5. RecordsAreIssued'
    BY <1>1, CurrentStands DEF RecordsAreIssued, IssuedUnder, PipelineInv
  <1> QED BY <1>2, <1>4, <1>5 DEF PipelineInv

LEMMA ExportKeeps ==
  ASSUME PipelineInv, ExportBundle
  PROVE  PipelineInv'
  <1>1. /\ bundles' = bundles \cup {Listing}
        /\ UNCHANGED <<domains, anchors, granted, records>>
    BY DEF ExportBundle, registryVars
  <1>2. \A a \in Listing.anchors :
          a.definition \in AnchorDefs /\ anchors[KeyOf(a.definition)] = a /\ Present(a)
    BY EntriesOfAnchors DEF Listing, PipelineInv
  <1>3. BundlesAreCurrent'
    BY <1>1, <1>2 DEF BundlesAreCurrent, PipelineInv
  <1> QED
    BY <1>1, <1>3
    DEF PipelineInv, TypeOK, AnchorsAreGrounded, RecordsAreIssued, IssuedUnder, Current

-----------------------------------------------------------------------------
\* Every step registers, exports, issues one record, or leaves all that the
\* invariant speaks of as it is.
LEMMA StepKinds ==
  ASSUME PipelineInv, [PipelineNext]_vars
  PROVE  \/ Register
         \/ ExportBundle
         \/ \E g, d, s : Licensed(g, d, s) /\ Issues(g, d, s)
         \/ UNCHANGED <<registryVars, bundles, records>>
  <1> DEFINE Kinds ==
        \/ Register
        \/ ExportBundle
        \/ \E g, d, s : Licensed(g, d, s) /\ Issues(g, d, s)
        \/ UNCHANGED <<registryVars, bundles, records>>
  <1> SUFFICES Kinds
    OBVIOUS
  <1>1. ASSUME NEW k, NEW o, FormalizeInProcess(k, o) PROVE Kinds
    BY <1>1 DEF FormalizeInProcess, ApplyAnchor
  <1>2. ASSUME NEW k, NEW o, NEW b, FormalizeTool(b, k, o) PROVE Kinds
    BY <1>2 DEF FormalizeTool, ApplyAnchor
  <1>3. ASSUME NEW k, NEW o, AnchorObservations(k, o) PROVE Kinds
    <2>1. PICK d \in Resolved(HostDefinitions, k[1], k[2]) : Issues(Host, d, Formalize(d, o))
      BY <1>3 DEF AnchorObservations, Issues
    <2>2. Licensed(Host, d, Formalize(d, o))
      BY <2>1, HostIsCurrent, FormalizedIdentity DEF Resolved, Licensed
    <2> QED BY <2>1, <2>2
  <1>4. ASSUME NEW s, ProjectInProcess(s) PROVE Kinds
    <2>1. PICK d \in Resolved(HostDefinitions, s.material.anchorId, s.material.anchorVersion) :
            Project(Host, d, s)
      BY <1>4 DEF ProjectInProcess
    <2>2. Licensed(Host, d, s)
      BY <2>1, HostIsCurrent DEF Resolved, SnapshotKey, Licensed
    <2> QED BY <2>1, <2>2 DEF Project, Issues
  <1>5. ASSUME NEW s, NEW b \in bundles, ProjectTool(b, s) PROVE Kinds
    <2>1. PICK d \in Resolved(AnchorDefinitionsIn(b), s.material.anchorId,
                              s.material.anchorVersion) :
            Hydrates(b) /\ Project(RegistryOf(b), d, s)
      BY <1>5 DEF ProjectTool
    <2>2. Licensed(RegistryOf(b), d, s)
      BY <2>1, BundleIsCurrent DEF Resolved, SnapshotKey, Licensed
    <2> QED BY <2>1, <2>2 DEF Project, Issues
  <1>6. ASSUME NEW s, EditSnapshot(s) PROVE Kinds
    BY <1>6 DEF EditSnapshot
  <1>7. CASE UNCHANGED vars
    BY <1>7 DEF vars, clientVars
  <1> QED BY <1>1, <1>2, <1>3, <1>4, <1>5, <1>6, <1>7 DEF PipelineNext

LEMMA PipelineInvInit == PipelineInit => PipelineInv
  BY TypeInit, GroundedInit
  DEF PipelineInit, PipelineInv, BundlesAreCurrent, RecordsAreIssued

LEMMA PipelineInvStep ==
  ASSUME PipelineInv, [PipelineNext]_vars
  PROVE  PipelineInv'
  BY StepKinds, RegisterKeeps, ExportKeeps, IssueKeeps, UntouchedRecords

THEOREM PipelineInvariant == PipelineSpec => []PipelineInv
  <1>1. PipelineInv /\ [PipelineNext]_vars => PipelineInv'
    BY PipelineInvStep
  <1> QED BY <1>1, PipelineInvInit, PTL DEF PipelineSpec

-----------------------------------------------------------------------------
\* A registry holds one definition under a key, accepted by a named authority.
HoldsOnly(registry, key, d) ==
  /\ {a.definition : a \in Held(registry, key)} = {d}
  /\ \A a \in Held(registry, key) : a.authority = "registered" /\ a.acceptedBy # Blank

LEMMA HeldByHost ==
  ASSUME PipelineInv, NEW d, Current(Host, d)
  PROVE  HoldsOnly(Host, KeyOf(d), d)
  <1>1. KeyOf(d) \in AnchorKeys /\ DOMAIN anchors = AnchorKeys
    BY KeysOfDefinitions DEF Current, PipelineInv, TypeOK
  <1>2. anchors[KeyOf(d)] \in Entries(anchors) /\ anchors[KeyOf(d)].definition = d
    BY <1>1 DEF Current, Entries
  <1>3. \A a \in Entries(anchors) :
          /\ anchors[KeyOf(a.definition)] = a
          /\ a \in RegisteredAnchors
    BY EntriesOfAnchors DEF PipelineInv
  <1>4. Held(Host, KeyOf(d)) = {anchors[KeyOf(d)]}
    BY <1>2, <1>3 DEF Held
  <1> QED BY <1>2, <1>3, <1>4, RegisteredFields DEF HoldsOnly

LEMMA HeldByAnother ==
  ASSUME NEW g, g # Host, NEW d, Current(g, d)
  PROVE  HoldsOnly(g, KeyOf(d), d)
  <1>1. Hydrates(g) /\ d \in AnchorDefinitionsIn(g)
    BY DEF Current
  <1>2. PICK a \in g.anchors : a.definition = d
    BY <1>1 DEF AnchorDefinitionsIn
  <1>3. \A e \in Held(g, KeyOf(d)) : e.definition = d
    BY <1>1 DEF Held, Hydrates, ConsistentUnderKeys, AnchorDefinitionsIn
  <1>4. a \in Held(g, KeyOf(d))
    BY <1>2 DEF Held
  <1>5. \A e \in Held(g, KeyOf(d)) : e.authority = "registered" /\ e.acceptedBy # Blank
    BY <1>1 DEF Held, Hydrates
  <1> QED BY <1>2, <1>3, <1>4, <1>5 DEF HoldsOnly

LEMMA RecordsWereRegistered == ASSUME PipelineInv PROVE RecordsAreRegistered
  <1> SUFFICES ASSUME NEW r \in records
               PROVE  HoldsOnly(r.by, SnapshotKey(r.state.snapshot), r.under)
    BY DEF RecordsAreRegistered, HoldsOnly
  <1>1. SnapshotKey(r.state.snapshot) = KeyOf(r.under) /\ Current(r.by, r.under)
    BY DEF PipelineInv, RecordsAreIssued, IssuedUnder
  <1>2. CASE r.by = Host
    BY <1>1, <1>2, HeldByHost
  <1>3. CASE r.by # Host
    BY <1>1, <1>3, HeldByAnother
  <1> QED BY <1>2, <1>3

(* Only a registered anchor, with a named acceptor, creates a record: the   *)
(* registry that made it holds the definition it was made under, and no     *)
(* other, for the anchor version the trace names.                           *)
THEOREM PipelineRecordsAreRegistered == PipelineSpec => []RecordsAreRegistered
  <1>1. PipelineInv => RecordsAreRegistered
    BY RecordsWereRegistered
  <1> QED BY <1>1, PipelineInvariant, PTL

\* Two records one registry made of one snapshot were issued under one definition.
LEMMA SameSnapshotSameBits ==
  ASSUME NEW q, NEW r, IssuedUnder(q), IssuedUnder(r), q.by = r.by,
         q.state.snapshot = r.state.snapshot
  PROVE  q.state.bits = r.state.bits
  <1>1. q.under = r.under
    BY CurrentIsOne DEF IssuedUnder
  <1> QED BY <1>1, IssuedFields DEF IssuedUnder

(* One formal object has one element of B^6 to each registry.               *)
THEOREM PipelineOneElement == PipelineSpec => []OneElementPerFormalObject
  <1>1. PipelineInv => OneElementPerFormalObject
    BY SameSnapshotSameBits DEF PipelineInv, RecordsAreIssued, OneElementPerFormalObject
  <1> QED BY <1>1, PipelineInvariant, PTL

-----------------------------------------------------------------------------
(* Refinement: the registry's definitions and the records' verdicts, step  *)
(* by step, as AuthorityContract has them.                                 *)

AbstractBind ==
  /\ \E i \in AnchorIdentities, d \in AnchorDefs :
       /\ BoundDefinitions[i] = None
       /\ BoundDefinitions' = [BoundDefinitions EXCEPT ![i] = d]
  /\ UNCHANGED Verdicts

AbstractDecide ==
  /\ \E v \in Verdicts' :
       /\ BoundDefinitions[v.identity] # None
       /\ \A w \in Verdicts :
            w.identity = v.identity /\ w.object = v.object => w.element = v.element
       /\ Verdicts' = Verdicts \cup {v}
  /\ UNCHANGED BoundDefinitions

AbstractStep == AbstractBind \/ AbstractDecide \/ UNCHANGED <<BoundDefinitions, Verdicts>>

LEMMA IdentitiesOfHost ==
  /\ \A k \in AnchorKeys : <<Host, k>> \in AnchorIdentities
  /\ \A i \in AnchorIdentities :
       /\ i = <<i[1], i[2]>>
       /\ i[1] = Host => i[2] \in AnchorKeys
  BY NoneIsNoBundle DEF AnchorIdentities, Host

\* What a registry holds is what the contract binds, and is something.
LEMMA CurrentIsBound ==
  ASSUME PipelineInv, NEW g, NEW d, Current(g, d)
  PROVE  /\ BoundDefinitions[<<g, KeyOf(d)>>] = d
         /\ d # None
  <1> DEFINE i == <<g, KeyOf(d)>>
  <1>1. CASE g = Host
    <2>1. /\ d \in AnchorDefs /\ KeyOf(d) \in AnchorKeys
          /\ Present(anchors[KeyOf(d)]) /\ anchors[KeyOf(d)].definition = d
      BY <1>1, KeysOfDefinitions DEF Current
    <2>2. i \in AnchorIdentities
      BY <1>1, <2>1, IdentitiesOfHost
    <2>3. BoundDefinitions[i] = d
      BY <1>1, <2>1, <2>2 DEF BoundDefinitions
    <2> QED BY <2>1, <2>3, NoneIsNoEntry
  <1>2. CASE g # Host
    <2>1. /\ g \in ForeignBundles /\ Hydrates(g)
          /\ d \in AnchorDefinitionsIn(g)
      BY <1>2 DEF Current
    <2>2. i \in AnchorIdentities
      BY <2>1 DEF AnchorIdentities
    <2>3. BoundDefinitions[i] = GivenDefinition(i)
      BY <1>2, <2>2 DEF BoundDefinitions, GivenDefinitions
    <2>4. \A e \in AnchorDefinitionsIn(g) : KeyOf(e) = KeyOf(d) => e = d
      BY <2>1 DEF Hydrates, ConsistentUnderKeys
    <2>5. GivenDefinition(i) = CHOOSE e \in AnchorDefinitionsIn(g) : KeyOf(e) = KeyOf(d)
      BY <1>2 DEF GivenDefinition
    <2>6. GivenDefinition(i) = d
      BY <2>1, <2>4, <2>5
    <2>7. d # None
      BY <2>1, NoneIsNoBundle
    <2> QED BY <2>3, <2>6, <2>7
  <1> QED BY <1>1, <1>2

LEMMA RegisterBinds == ASSUME PipelineInv, Register PROVE AbstractStep
  <1>1. UNCHANGED Verdicts
    BY DEF Register, clientVars, Verdicts, VerdictOf
  <1>2. ASSUME NEW t \in Authorities, NEW a \in AnchorDefs, NEW by \in Acceptors,
               RegisterNewAnchor(t, a, by)
        PROVE  AbstractBind
    <2> DEFINE key == KeyOf(a)
               i   == <<Host, key>>
    <2>1. /\ key \in AnchorKeys
          /\ anchors[key] = None
          /\ anchors' = [anchors EXCEPT ![key] = Accepted(by, a)]
          /\ DOMAIN anchors = AnchorKeys
      BY <1>2, KeysOfDefinitions DEF RegisterNewAnchor, PipelineInv, TypeOK
    <2>2. Accepted(by, a) \in RegisteredAnchors
      BY <1>2 DEF RegisterNewAnchor, AdmitsCandidate, RegisteredAnchors
    <2>3. Present(Accepted(by, a))
      BY <2>2, NoneIsNoEntry DEF Present
    <2>4. i \in AnchorIdentities
      BY <2>1, IdentitiesOfHost
    <2>5. BoundDefinitions[i] = None
      BY <2>1, <2>4 DEF BoundDefinitions, GivenDefinitions, GivenDefinition, Present
    <2>6. ASSUME NEW j \in AnchorIdentities
          PROVE  BoundDefinitions'[j] = IF j = i THEN a ELSE BoundDefinitions[j]
      <3>1. CASE j = i
        BY <2>1, <2>3, <2>4, <3>1, AcceptedFields DEF BoundDefinitions
      <3>2. CASE j # i /\ j[1] = Host
        <4>1. j[2] \in AnchorKeys /\ j[2] # key
          BY <3>2, IdentitiesOfHost
        <4>2. anchors'[j[2]] = anchors[j[2]]
          BY <2>1, <4>1
        <4> QED BY <3>2, <4>2 DEF BoundDefinitions, Present
      <3>3. CASE j # i /\ j[1] # Host
        BY <3>3 DEF BoundDefinitions
      <3> QED BY <3>1, <3>2, <3>3
    <2>7. BoundDefinitions' = [BoundDefinitions EXCEPT ![i] = a]
      BY <2>4, <2>6 DEF BoundDefinitions
    <2> QED BY <1>1, <2>4, <2>5, <2>7 DEF AbstractBind
  <1>3. CASE UNCHANGED anchors
    BY <1>1, <1>3 DEF AbstractStep, BoundDefinitions
  <1> QED
    BY <1>2, <1>3 DEF Register, RegistryNext, RegisterDomain, RegisterKnownAnchor, AbstractStep

LEMMA IssueDecides ==
  ASSUME PipelineInv, NEW g, NEW d, NEW s, Licensed(g, d, s), Issues(g, d, s)
  PROVE  AbstractDecide
  <1> DEFINE p == Issued(g, d, s)
             v == VerdictOf(p)
  <1>1. Verdicts' = Verdicts \cup {v}
    BY DEF Issues, Verdicts
  <1>2. UNCHANGED BoundDefinitions
    BY DEF Issues, registryVars, BoundDefinitions
  <1>3. /\ v.identity = <<g, KeyOf(d)>>
        /\ v.object = s
        /\ v.element = p.state.bits
    BY IssuedFields DEF VerdictOf, Licensed
  <1>4. BoundDefinitions[v.identity] # None
    BY <1>3, CurrentIsBound DEF Licensed
  <1>5. ASSUME NEW w \in Verdicts, w.identity = v.identity, w.object = v.object
        PROVE  w.element = v.element
    <2>1. PICK r \in records : w = VerdictOf(r)
      BY DEF Verdicts
    <2>2. IssuedUnder(r) /\ IssuedUnder(p)
      BY <2>1, LicensedIssue DEF PipelineInv, RecordsAreIssued
    <2>3. r.by = p.by /\ r.state.snapshot = p.state.snapshot
      BY <1>3, <1>5, <2>1, IssuedFields DEF VerdictOf
    <2> QED BY <1>3, <2>1, <2>2, <2>3, SameSnapshotSameBits DEF VerdictOf
  <1> QED BY <1>1, <1>2, <1>4, <1>5 DEF AbstractDecide

LEMMA StepRefines ==
  ASSUME PipelineInv, [PipelineNext]_vars PROVE AbstractStep
  <1>1. CASE ExportBundle
    BY <1>1 DEF ExportBundle, registryVars, AbstractStep, BoundDefinitions, Verdicts, VerdictOf
  <1>2. CASE UNCHANGED <<registryVars, bundles, records>>
    BY <1>2 DEF registryVars, AbstractStep, BoundDefinitions, Verdicts, VerdictOf
  <1> QED BY <1>1, <1>2, StepKinds, RegisterBinds, IssueDecides DEF AbstractStep

(* The pipeline implements the contract, registry by registry: identities   *)
(* bound once, and a formal object decided only under a bound one and       *)
(* always the same way.                                                     *)
THEOREM PipelineImplementsContract == PipelineSpec => ImplementsContract
  <1>1. PipelineInit => Contract!Init
    <2> SUFFICES ASSUME PipelineInit PROVE Contract!Init
      OBVIOUS
    <2>1. \A i \in AnchorIdentities : ~(i[1] = Host /\ Present(anchors[i[2]]))
      BY IdentitiesOfHost DEF PipelineInit, RegistryInit, Present
    <2>2. BoundDefinitions = GivenDefinitions
      BY <2>1 DEF BoundDefinitions, GivenDefinitions
    <2>3. Verdicts = {}
      BY DEF PipelineInit, Verdicts
    <2> QED BY <2>2, <2>3 DEF Contract!Init
  <1>2. AbstractStep => [Contract!Next]_<<BoundDefinitions, Verdicts>>
    BY DEF AbstractStep, AbstractBind, AbstractDecide, Contract!Next, Contract!Bind,
           Contract!Decide
  <1>3. PipelineInv /\ [PipelineNext]_vars => [Contract!Next]_<<BoundDefinitions, Verdicts>>
    BY <1>2, StepRefines
  <1> QED
    BY <1>1, <1>3, PipelineInvariant, PTL DEF PipelineSpec, ImplementsContract, Contract!Spec

-----------------------------------------------------------------------------
(* What holds whatever bundles other registries hand out.                   *)

DomainsAreValid ==
  \A k \in DomainKeys : Present(domains[k]) =>
    KeyOf(domains[k]) = k /\ ValidDomain(domains[k])

\* The inductive invariant of exports.
ExportInv ==
  /\ TypeOK
  /\ AnchorsAreGrounded
  /\ DomainsAreValid
  /\ PipelineTypeOK
  /\ ExportsHydrate

LEMMA ListingHydrates ==
  ASSUME TypeOK, AnchorsAreGrounded, DomainsAreValid
  PROVE  Hydrates(Listing)
  <1>1. \A d \in Entries(domains) :
          /\ ValidDomain(d)
          /\ KeyOf(d) \in DomainKeys
          /\ d = domains[KeyOf(d)]
    BY DEF Entries, TypeOK, DomainsAreValid
  <1>2. ConsistentUnderKeys(Entries(domains))
    BY <1>1 DEF ConsistentUnderKeys
  <1>3. ASSUME NEW e \in Entries(anchors)
        PROVE  \E d \in Entries(domains) :
                 KeyOf(d) = DomainKeyOf(e.definition) /\ ValidAnchor(e.definition, d)
    <2>1. /\ e.definition \in AnchorDefs
          /\ KeyOf(e.definition) \in AnchorKeys
          /\ anchors[KeyOf(e.definition)] = e
          /\ Present(e)
      BY EntriesOfAnchors
    <2> DEFINE k == DomainKeyOf(e.definition)
    <2>2. /\ Present(domains[k])
          /\ ValidAnchor(e.definition, domains[k])
      BY <2>1 DEF AnchorsAreGrounded
    <2>3. k \in DomainKeys
      BY <2>1, KeysOfDefinitions
    <2>4. domains[k] \in Entries(domains)
      BY <2>2, <2>3 DEF Entries, TypeOK
    <2>5. KeyOf(domains[k]) = k
      BY <2>2, <2>3 DEF DomainsAreValid
    <2> QED BY <2>2, <2>4, <2>5
  <1>4. \A e \in Entries(anchors) : e.authority = "registered" /\ e.acceptedBy # Blank
    BY EntriesOfAnchors, RegisteredFields
  <1>5. ConsistentUnderKeys(AnchorDefinitionsIn(Listing))
    BY EntriesOfAnchors DEF ConsistentUnderKeys, AnchorDefinitionsIn, Listing
  <1> QED BY <1>1, <1>2, <1>3, <1>4, <1>5 DEF Hydrates, Listing

LEMMA DomainsValidStep ==
  ASSUME TypeOK, DomainsAreValid, [RegistryNext]_registryVars
  PROVE  DomainsAreValid'
  <1>1. ASSUME NEW d \in DomainDefs, RegisterDomain(d) PROVE DomainsAreValid'
    BY <1>1 DEF RegisterDomain, DomainsAreValid, TypeOK, Present
  <1>2. CASE UNCHANGED domains
    BY <1>2 DEF DomainsAreValid
  <1> QED
    BY <1>1, <1>2 DEF RegistryNext, registryVars, RegisterNewAnchor, RegisterKnownAnchor

LEMMA ListingIsTyped ==
  ASSUME TypeOK, AnchorsAreGrounded PROVE Listing \in BundleSpace
  <1>1. Entries(domains) \subseteq DomainDefs
    BY DEF Entries, TypeOK, Present
  <1>2. Entries(anchors) \subseteq RegisteredAnchors
    BY DEF Entries, TypeOK, Present
  <1> QED BY <1>1, <1>2 DEF Listing, BundleSpace

\* Snapshots only grow, and a record is of a snapshot in circulation and by a
\* registry there is.
RecordsInPlace ==
  /\ formalized \subseteq snapshots
  /\ \A r \in records : r.by \in {Host} \cup ForeignBundles /\ r.state.snapshot \in snapshots

LEMMA RegistriesOfBundles ==
  ASSUME NEW b PROVE RegistryOf(b) \in {Host} \cup ForeignBundles
  BY DEF RegistryOf

LEMMA SnapshotsOnlyGrow ==
  ASSUME RecordsInPlace, [PipelineNext]_vars
  PROVE  RecordsInPlace'
  <1>1. CASE UNCHANGED <<snapshots, formalized, records>>
    BY <1>1 DEF RecordsInPlace
  <1>2. ASSUME NEW d, NEW o, ApplyAnchor(d, o) PROVE RecordsInPlace'
    BY <1>2 DEF ApplyAnchor, RecordsInPlace
  <1>3. ASSUME NEW g \in {Host} \cup ForeignBundles, NEW d, NEW s \in snapshots,
               Project(g, d, s)
        PROVE  RecordsInPlace'
    BY <1>3, IssuedFields DEF Project, RecordsInPlace
  <1>4. ASSUME NEW k, NEW o, AnchorObservations(k, o) PROVE RecordsInPlace'
    BY <1>4, IssuedFields DEF AnchorObservations, RecordsInPlace
  <1>5. ASSUME NEW s, EditSnapshot(s) PROVE RecordsInPlace'
    <2>1. PICK t : snapshots' = snapshots \cup {t} /\ UNCHANGED <<formalized, records>>
      BY <1>5 DEF EditSnapshot
    <2> QED BY <2>1 DEF RecordsInPlace
  <1> QED
    BY <1>1, <1>2, <1>3, <1>4, <1>5, RegistriesOfBundles
    DEF PipelineNext, Register, ExportBundle, clientVars, vars, FormalizeInProcess,
        FormalizeTool, ProjectInProcess, ProjectTool

\* Bundles and registry: the other actions touch neither.
LEMMA BundleSteps ==
  ASSUME [PipelineNext]_vars
  PROVE  /\ [RegistryNext]_registryVars
         /\ bundles' \in {bundles, bundles \cup {Listing}}
  <1>1. ASSUME NEW d, NEW o, ApplyAnchor(d, o) PROVE UNCHANGED <<registryVars, bundles>>
    BY <1>1 DEF ApplyAnchor
  <1>2. ASSUME NEW g, NEW d, NEW s, Project(g, d, s) PROVE UNCHANGED <<registryVars, bundles>>
    BY <1>2 DEF Project
  <1>3. ASSUME NEW k, NEW o, AnchorObservations(k, o) PROVE UNCHANGED <<registryVars, bundles>>
    BY <1>3 DEF AnchorObservations
  <1>4. ASSUME NEW s, EditSnapshot(s) PROVE UNCHANGED <<registryVars, bundles>>
    BY <1>4 DEF EditSnapshot
  <1> QED
    BY <1>1, <1>2, <1>3, <1>4
    DEF PipelineNext, Register, ExportBundle, clientVars, vars, FormalizeInProcess,
        FormalizeTool, ProjectInProcess, ProjectTool

LEMMA ExportInvInit == PipelineInit => ExportInv
  BY TypeInit, GroundedInit
  DEF PipelineInit, RegistryInit, ExportInv, DomainsAreValid, PipelineTypeOK,
      ExportsHydrate, Exports, Present

LEMMA ExportInvStep ==
  ASSUME ExportInv, [PipelineNext]_vars
  PROVE  ExportInv'
  <1>1. (TypeOK /\ AnchorsAreGrounded /\ DomainsAreValid)'
    BY BundleSteps, TypeStep, GroundedStep, DomainsValidStep DEF ExportInv
  <1>2. Hydrates(Listing) /\ Listing \in BundleSpace
    BY ListingHydrates, ListingIsTyped DEF ExportInv
  <1>3. ExportsHydrate'
    BY <1>2, BundleSteps DEF ExportInv, ExportsHydrate, Exports
  <1>4. PipelineTypeOK'
    BY <1>1, <1>2, BundleSteps, SnapshotsOnlyGrow
    DEF ExportInv, PipelineTypeOK, RecordsInPlace
  <1> QED BY <1>1, <1>3, <1>4 DEF ExportInv

THEOREM ExportInvariant == PipelineSpec => []ExportInv
  <1>1. ExportInv /\ [PipelineNext]_vars => ExportInv'
    BY ExportInvStep
  <1> QED BY <1>1, ExportInvInit, PTL DEF PipelineSpec

(* Type correctness of the pipeline.                                        *)
THEOREM PipelineTypeCorrect == PipelineSpec => []PipelineTypeOK
  <1>1. ExportInv => PipelineTypeOK
    BY DEF ExportInv
  <1> QED BY <1>1, ExportInvariant, PTL

(* A bundle the registry exported always hydrates, at any later time.       *)
THEOREM PipelineExportsHydrate == PipelineSpec => []ExportsHydrate
  <1>1. ExportInv => ExportsHydrate
    BY DEF ExportInv
  <1> QED BY <1>1, ExportInvariant, PTL

-----------------------------------------------------------------------------
\* What a row of a snapshot says, observed or not.
LEMMA RowFields ==
  ASSUME NEW b, NEW d, NEW o
  PROVE  LET row == FormalizedRow(b, d, o)
             w == ObservationOf(o, b.key)
         IN  /\ row.binding = b.id /\ row.key = b.key /\ row.variable = b.variable
             /\ Observed(o, b.key) =>
                  /\ row.observed = w.value /\ row.unit = w.unit /\ row.evidence = w.evidence
                  /\ row.formal = FormalValue(w, b, VariableOf(d, b.variable))
                  /\ row.origin = "observation"
             /\ ~Observed(o, b.key) =>
                  /\ row.observed = None /\ row.unit = Blank /\ row.evidence = <<>>
                  /\ row.formal = b.default /\ row.origin = "declared_default"
  BY DEF FormalizedRow

LEMMA FormalValueReads ==
  ASSUME NEW o, NEW b, NEW x
  PROVE  FormalValue([value |-> o.value, unit |-> o.unit], b, x) = FormalValue(o, b, x)
  BY DEF FormalValue, NormalizeUnit

LEMMA ObservedByKey ==
  ASSUME NEW o, NEW k, Observed(o, k)
  PROVE  ObservationOf(o, k) \in Elements(o) /\ ObservationOf(o, k).key = k
  BY DEF Observed, ObservationOf

LEMMA FormalizedMaterial ==
  ASSUME NEW d, NEW o
  PROVE  LET material == Formalize(d, o).material
         IN  /\ material = Material(d, o)
             /\ material.rows = [i \in DOMAIN d.bindings |-> FormalizedRow(d.bindings[i], d, o)]
             /\ material.variables = FormalVariables(material.rows)
  BY DEF Formalize, SnapshotOf, Material

-----------------------------------------------------------------------------
\* What a record may rest on: a replay under a contract whose bindings name
\* different variables.
BindsOnce(d) == \A i, j \in DOMAIN d.bindings : d.bindings[i].variable = d.bindings[j].variable => i = j

LicensedUnder(d, s) ==
  LET rows == Elements(s.material.rows)
  IN  /\ \A row \in rows : s.material.variables[row.variable] = row.formal
      /\ \A row \in rows :
           \E b \in Elements(d.bindings) :
             /\ b.variable = row.variable
             /\ \/ row.origin = "declared_default" /\ ~b.required /\ row.formal = b.default
                \/ /\ Len(row.evidence) >= d.minimumReferences
                   /\ row.formal = FormalValue([value |-> row.observed, unit |-> row.unit],
                                               b, VariableOf(d, b.variable))
      /\ \A p, q \in UNION {Elements(row.evidence) : row \in rows} : p.id = q.id => p = q

LEMMA VariablesAreRows ==
  ASSUME NEW d, NEW o, BindsOnce(d), NEW i \in DOMAIN d.bindings
  PROVE  LET material == Formalize(d, o).material
         IN  material.variables[material.rows[i].variable] = material.rows[i].formal
<1> DEFINE rows == Formalize(d, o).material.rows
<1>1. /\ rows = [k \in DOMAIN d.bindings |-> FormalizedRow(d.bindings[k], d, o)]
      /\ Formalize(d, o).material.variables = FormalVariables(rows)
  BY FormalizedMaterial
<1> HIDE DEF rows
<1>2. \A k \in DOMAIN d.bindings : rows[k].variable = d.bindings[k].variable
  BY <1>1, RowFields
<1>3. DOMAIN rows = DOMAIN d.bindings
  BY <1>1
<1>4. \A r \in Elements(rows) : r.variable = rows[i].variable => r = rows[i]
  BY <1>2, <1>3 DEF Elements, BindsOnce
<1>5. rows[i] \in Elements(rows)
  BY <1>3 DEF Elements
<1>6. (CHOOSE r \in Elements(rows) : r.variable = rows[i].variable) = rows[i]
  BY <1>4, <1>5
<1>7. FormalVariables(rows)[rows[i].variable] = rows[i].formal
  BY <1>5, <1>6 DEF FormalVariables
<1> QED
  BY <1>1, <1>7 DEF rows

LEMMA ReplayedIsLicensed ==
  ASSUME NEW d, NEW s, BindsOnce(d), Replays(d, s)
  PROVE  LicensedUnder(d, s)
<1> DEFINE o == RetainedObservations(s.material)
           rows == s.material.rows
<1>1. AdmitsObservations(d, o) /\ s = Formalize(d, o)
  BY DEF Replays
<1> HIDE DEF o
<1>2. rows = [i \in DOMAIN d.bindings |-> FormalizedRow(d.bindings[i], d, o)]
  BY <1>1, FormalizedMaterial
<1>3. \A i \in DOMAIN d.bindings : s.material.variables[rows[i].variable] = rows[i].formal
  BY <1>1, VariablesAreRows
<1> HIDE DEF rows
<1>4. ASSUME NEW row \in Elements(rows)
      PROVE  /\ s.material.variables[row.variable] = row.formal
             /\ \E b \in Elements(d.bindings) :
                  /\ b.variable = row.variable
                  /\ \/ row.origin = "declared_default" /\ ~b.required /\ row.formal = b.default
                     \/ /\ Len(row.evidence) >= d.minimumReferences
                        /\ row.formal = FormalValue([value |-> row.observed, unit |-> row.unit],
                                                    b, VariableOf(d, b.variable))
             /\ Elements(row.evidence) \subseteq AllEvidence(o)
  <2>1. PICK i \in DOMAIN d.bindings : row = rows[i]
    BY <1>2, <1>4 DEF Elements
  <2> DEFINE b == d.bindings[i]
             w == ObservationOf(o, b.key)
  <2>2. row = FormalizedRow(b, d, o)
    BY <1>2, <2>1
  <2>3. b \in Elements(d.bindings)
    BY DEF Elements
  <2>4. AdmitsBinding(b, d, o)
    BY <1>1, <2>3 DEF AdmitsObservations
  <2>5. s.material.variables[row.variable] = row.formal
    BY <1>3, <2>1
  <2> HIDE DEF b
  <2>6. row.variable = b.variable
    BY <2>2, RowFields
  <2>7. CASE Observed(o, b.key)
    <3>1. /\ row.observed = w.value /\ row.unit = w.unit /\ row.evidence = w.evidence
          /\ row.formal = FormalValue(w, b, VariableOf(d, b.variable))
      BY <2>2, <2>7, RowFields
    <3>2. ValidEvidence(w.evidence, d)
      BY <2>4, <2>7 DEF AdmitsBinding
    <3>3. Len(row.evidence) >= d.minimumReferences
      BY <3>1, <3>2 DEF ValidEvidence
    <3>4. row.formal = FormalValue([value |-> row.observed, unit |-> row.unit], b, VariableOf(d, b.variable))
      BY <3>1, FormalValueReads
    <3>5. Elements(row.evidence) \subseteq AllEvidence(o)
      BY <2>7, <3>1, ObservedByKey DEF AllEvidence
    <3> QED
      BY <2>3, <2>5, <2>6, <3>3, <3>4, <3>5
  <2>8. CASE ~Observed(o, b.key)
    <3>1. row.evidence = <<>> /\ row.formal = b.default /\ row.origin = "declared_default"
      BY <2>2, <2>8, RowFields
    <3>2. ~b.required
      BY <2>4, <2>8 DEF AdmitsBinding
    <3>3. Elements(row.evidence) \subseteq AllEvidence(o)
      BY <3>1 DEF Elements
    <3> QED
      BY <2>3, <2>5, <2>6, <3>1, <3>2, <3>3
  <2> QED
    BY <2>7, <2>8
<1>5. \A p, q \in AllEvidence(o) : p.id = q.id => p = q
  BY <1>1 DEF AdmitsObservations
<1>6. UNION {Elements(row.evidence) : row \in Elements(rows)} \subseteq AllEvidence(o)
  BY <1>4
<1> QED
  BY <1>4, <1>5, <1>6 DEF LicensedUnder, rows

LEMMA ValidAnchorsBindOnce ==
  ASSUME NEW d, NEW domain, ValidAnchor(d, domain) PROVE BindsOnce(d)
  BY DEF ValidAnchor, ValidBindings, IsInjective, BindsOnce

\* Every record is of a snapshot that replayed under the contract that decided it.
RecordsReplay ==
  \A r \in records :
    BindsOnce(r.under) /\ Replays(r.under, r.state.snapshot)

\* A step issues a record of such a snapshot, or none.
IssuesReplayed(g, d, s) ==
  /\ records' = records \cup {Issued(g, d, s)}
  /\ BindsOnce(d) /\ Replays(d, s)

LEMMA HostBindsOnce ==
  ASSUME TypeOK, AnchorsAreGrounded, NEW d \in HostDefinitions PROVE BindsOnce(d)
<1>1. PICK e \in Entries(anchors) : d = e.definition
  BY DEF HostDefinitions
<1>2. \E domain : ValidAnchor(d, domain)
  BY <1>1, EntriesOfAnchors DEF AnchorsAreGrounded
<1> QED
  BY <1>2, ValidAnchorsBindOnce

LEMMA BundleBindsOnce ==
  ASSUME NEW b, Hydrates(b), NEW d \in AnchorDefinitionsIn(b) PROVE BindsOnce(d)
<1>1. \E domain : ValidAnchor(d, domain)
  BY DEF Hydrates, AnchorDefinitionsIn
<1> QED
  BY <1>1, ValidAnchorsBindOnce

LEMMA RecordsReplayStep ==
  ASSUME TypeOK, AnchorsAreGrounded, RecordsReplay, [PipelineNext]_vars
  PROVE  RecordsReplay'
<1>1. ASSUME NEW g, NEW d, NEW s, Project(g, d, s), BindsOnce(d) PROVE IssuesReplayed(g, d, s)
  BY <1>1 DEF Project, AdmitsProjection, IssuesReplayed
<1>2. ASSUME NEW k, NEW o, AnchorObservations(k, o)
      PROVE  \E g, d, s : IssuesReplayed(g, d, s)
  <2>1. PICK d \in Resolved(HostDefinitions, k[1], k[2]) :
          /\ AdmitsProjection(d, Formalize(d, o))
          /\ records' = records \cup {Issued(Host, d, Formalize(d, o))}
    BY <1>2 DEF AnchorObservations
  <2>2. BindsOnce(d)
    BY <2>1, HostBindsOnce DEF Resolved
  <2> QED
    BY <2>1, <2>2 DEF AdmitsProjection, IssuesReplayed
<1>3. ASSUME NEW s, ProjectInProcess(s) PROVE \E g, d : IssuesReplayed(g, d, s)
  BY <1>1, <1>3, HostBindsOnce DEF ProjectInProcess, Resolved
<1>4. ASSUME NEW s, NEW b, ProjectTool(b, s) PROVE \E g, d : IssuesReplayed(g, d, s)
  BY <1>1, <1>4, BundleBindsOnce DEF ProjectTool, Resolved
<1>5. (\E g, d, s : IssuesReplayed(g, d, s)) \/ UNCHANGED records
  <2>1. ASSUME NEW d, NEW o, ApplyAnchor(d, o) PROVE UNCHANGED records
    BY <2>1 DEF ApplyAnchor
  <2>2. ASSUME NEW s, EditSnapshot(s) PROVE UNCHANGED records
    BY <2>2 DEF EditSnapshot
  <2> QED
    BY <1>2, <1>3, <1>4, <2>1, <2>2
    DEF PipelineNext, Register, ExportBundle, clientVars, vars, FormalizeInProcess, FormalizeTool
<1>6. ASSUME NEW g, NEW d, NEW s, IssuesReplayed(g, d, s) PROVE RecordsReplay'
  BY <1>6, IssuedFields DEF IssuesReplayed, RecordsReplay
<1>7. CASE UNCHANGED records
  BY <1>7 DEF RecordsReplay
<1> QED
  BY <1>5, <1>6, <1>7

LEMMA NothingInvents == RecordsReplay => NothingInvented
<1> SUFFICES ASSUME RecordsReplay, NEW r \in records PROVE LicensedUnder(r.under, r.state.snapshot)
  BY DEF NothingInvented, LicensedUnder
<1> QED
  BY ReplayedIsLicensed DEF RecordsReplay

(* No value in the snapshot of a record is invented, whatever bundles,      *)
(* observations and edited snapshots clients hand in.                       *)
THEOREM PipelineInventsNothing == PipelineSpec => []NothingInvented
<1>1. PipelineInit => RecordsReplay
  BY DEF PipelineInit, RecordsReplay
<1>2. ExportInv /\ RecordsReplay /\ [PipelineNext]_vars => RecordsReplay'
  BY RecordsReplayStep DEF ExportInv
<1> QED
  BY <1>1, <1>2, NothingInvents, ExportInvariant, PTL DEF PipelineSpec

-----------------------------------------------------------------------------
(* The last part is about callers that restate their evidence.  It needs    *)
(* two facts about the naturals: induction, for sets of naturals, and that  *)
(* the rounds of a loop exist.                                              *)
LEMMA LeastNatural ==
  ASSUME NEW S \in SUBSET Nat, S # {}
  PROVE  \E n \in S : \A m \in S : n <= m
<1> DEFINE R == OpToRel(<, Nat)
<1>1. \A x, y \in Nat : <<x, y>> \in R <=> x < y
  BY DEF OpToRel
<1>2. IsWellFoundedOn(R, Nat)
  BY NatLessThanWellFounded
<1> HIDE DEF R
<1>3. PICK n \in S : \A m \in S : ~ (<<m, n>> \in R)
  BY <1>2, WFMin
<1>4. ASSUME NEW m \in S PROVE n <= m
  <2>1. m \in Nat /\ n \in Nat /\ ~ (<<m, n>> \in R)
    BY <1>3
  <2>2. ~ (m < n)
    BY <1>1, <2>1
  <2> QED
    BY <2>1, <2>2
<1> QED
  BY <1>4

LEMMA NatSetInduction ==
  ASSUME NEW S, 0 \in S, \A n \in Nat : n \in S => n + 1 \in S
  PROVE  Nat \subseteq S
<1> SUFFICES ASSUME Nat \ S # {} PROVE FALSE
  OBVIOUS
<1>1. PICK n \in Nat \ S : \A m \in Nat \ S : n <= m
  BY LeastNatural
<1>2. n # 0 /\ n - 1 \in Nat /\ n - 1 \notin Nat \ S
  BY <1>1
<1> QED
  BY <1>1, <1>2

\* The first n rounds of a loop over S.
IsRun(f, S, base, n, step) ==
  f \in [0..n -> S] /\ f[0] = base /\ \A i \in 1..n : f[i] = step[i][f[i - 1]]

(* A loop of n rounds over S runs to its end.                               *)
LEMMA PrimitiveRecursion ==
  ASSUME NEW S, NEW base \in S, NEW n \in Nat, NEW step \in [Nat -> [S -> S]]
  PROVE  \E f : IsRun(f, S, base, n, step)
<1> DEFINE Good == {k \in Nat : \E f : IsRun(f, S, base, k, step)}
<1>1. 0 \in Good
  <2>1. IsRun([i \in 0..0 |-> base], S, base, 0, step)
    BY DEF IsRun
  <2> QED
    BY <2>1
<1>2. ASSUME NEW k \in Nat, k \in Good PROVE k + 1 \in Good
  <2>1. PICK f : IsRun(f, S, base, k, step)
    BY <1>2
  <2> DEFINE g == [i \in 0..(k + 1) |-> IF i = k + 1 THEN step[k + 1][f[k]] ELSE f[i]]
  <2>2. /\ f[k] \in S /\ step[k + 1][f[k]] \in S
    BY <2>1 DEF IsRun
  <2>3. g \in [0..(k + 1) -> S]
    BY <2>1, <2>2 DEF IsRun
  <2>4. g[0] = base
    BY <2>1 DEF IsRun
  <2>5. ASSUME NEW i \in 1..(k + 1) PROVE g[i] = step[i][g[i - 1]]
    BY <2>1 DEF IsRun
  <2>6. IsRun(g, S, base, k + 1, step)
    BY <2>3, <2>4, <2>5 DEF IsRun
  <2> HIDE DEF g
  <2> QED
    BY <2>6
<1> HIDE DEF Good
<1>3. n \in Good
  BY <1>1, <1>2, NatSetInduction
<1> QED
  BY <1>3 DEF Good

\* The loop of RetainedObservations, row by row.
Kept(rows, kept, i) ==
  IF rows[i].origin = "observation"
  THEN Append(kept, RetainedObservation(rows[i])) ELSE kept

(* The recursive function of RetainedObservations is a run of that loop.    *)
LEMMA RetainedByRow ==
  ASSUME NEW T, NEW material, material.rows \in Seq(T)
  PROVE  LET rows == material.rows
             S == Seq({RetainedObservation(rows[i]) : i \in 1..Len(rows)})
         IN  \E f \in [0..Len(rows) -> S] :
               /\ f[0] = <<>>
               /\ \A i \in 1..Len(rows) : f[i] = Kept(rows, f[i - 1], i)
               /\ RetainedObservations(material) = f[Len(rows)]
<1> DEFINE rows == material.rows
           R == {RetainedObservation(rows[i]) : i \in 1..Len(rows)}
           S == Seq(R)
           n == Len(rows)
           step == [i \in Nat |-> [u \in S |-> IF i \in 1..n THEN Kept(rows, u, i) ELSE u]]
<1>1. n \in Nat /\ <<>> \in S
  BY LenProperties, EmptySeq
<1>2. ASSUME NEW i \in 1..n, NEW u \in S PROVE Kept(rows, u, i) \in S
  <2>1. RetainedObservation(rows[i]) \in R
    OBVIOUS
  <2> HIDE DEF R
  <2> QED
    BY <2>1, AppendProperties DEF Kept
<1> HIDE DEF S
<1>3. step \in [Nat -> [S -> S]]
  BY <1>2
<1>4. \A i \in 1..n, u \in S : step[i][u] = Kept(rows, u, i)
  BY <1>1
<1> HIDE DEF step
<1>5. PICK f \in [0..n -> S] : f[0] = <<>> /\ \A i \in 1..n : f[i] = step[i][f[i - 1]]
  <2>1. \E f : IsRun(f, S, <<>>, n, step)
    <3> HIDE DEF n
    <3> QED
      BY <1>1, <1>3, PrimitiveRecursion
  <2> QED
    BY <2>1 DEF IsRun
<1>6. \A i \in 1..n : f[i - 1] \in S
  BY <1>1, <1>5
<1>7. \A i \in 1..n : f[i] = Kept(rows, f[i - 1], i)
  BY <1>4, <1>5, <1>6
<1> DEFINE Body(g) == [i \in 0..n |-> IF i = 0 THEN <<>>
                                      ELSE IF rows[i].origin = "observation"
                                           THEN Append(g[i - 1], RetainedObservation(rows[i]))
                                           ELSE g[i - 1]]
           F == CHOOSE g : g = Body(g)
<1>8. f = Body(f)
  <2>1. \A i \in 1..n : i - 1 \in 0..n /\ i \in 0..n /\ i # 0
    BY <1>1
  <2>2. \A i \in 0..n : i = 0 \/ i \in 1..n
    BY <1>1
  <2>3. ASSUME NEW i \in 0..n PROVE f[i] = Body(f)[i]
    <3>1. CASE i = 0
      BY <1>5, <3>1
    <3>2. CASE i \in 1..n
      BY <1>7, <2>1, <3>2 DEF Kept
    <3> QED
      BY <2>2, <3>1, <3>2
  <2>4. f = [i \in 0..n |-> f[i]] /\ Body(f) = [i \in 0..n |-> Body(f)[i]]
    BY <1>5
  <2> HIDE DEF Body
  <2> QED
    BY <2>3, <2>4
<1>9. F = Body(F)
  <2> HIDE DEF Body
  <2> QED
    BY <1>8
<1>10. RetainedObservations(material) = F[n]
  BY DEF RetainedObservations
<1> HIDE DEF F
<1>11. \A i \in 0..n : F[i] = f[i]
  <2> DEFINE G == {i \in Nat : i <= n => F[i] = f[i]}
  <2>1. 0 \in G
    BY <1>1, <1>5, <1>9
  <2>2. ASSUME NEW i \in Nat, i \in G PROVE i + 1 \in G
    <3> SUFFICES ASSUME i + 1 <= n PROVE F[i + 1] = f[i + 1]
      OBVIOUS
    <3>1. i + 1 \in 0..n /\ F[i] = f[i] /\ (i + 1) - 1 = i /\ i + 1 # 0
      BY <1>1, <2>2
    <3>2. F[i + 1] = Body(F)[i + 1] /\ f[i + 1] = Body(f)[i + 1]
      BY <1>8, <1>9, Zenon
    <3> QED
      BY <3>1, <3>2
  <2> HIDE DEF G
  <2>3. Nat \subseteq G
    BY <2>1, <2>2, NatSetInduction
  <2> QED
    BY <1>1, <2>3 DEF G
<1> QED
  BY <1>1, <1>5, <1>7, <1>10, <1>11 DEF S

(* What is retained are the observations of the observed rows, in a list    *)
(* that names no key twice when the rows do not.                            *)
LEMMA RetainedShape ==
  ASSUME NEW T, NEW material, material.rows \in Seq(T)
  PROVE  LET rows == material.rows
             retained == RetainedObservations(material)
         IN  /\ retained \in Seq({RetainedObservation(rows[i]) : i \in 1..Len(rows)})
             /\ Elements(retained) =
                  {RetainedObservation(rows[i]) :
                     i \in {j \in 1..Len(rows) : rows[j].origin = "observation"}}
             /\ (\A i, j \in 1..Len(rows) : rows[i].key = rows[j].key => i = j) =>
                  IsInjective([i \in DOMAIN retained |-> retained[i].key])
<1> DEFINE rows == material.rows
           R == {RetainedObservation(rows[i]) : i \in 1..Len(rows)}
           n == Len(rows)
           From(m) == {RetainedObservation(rows[i]) :
                         i \in {j \in 1..m : rows[j].origin = "observation"}}
           Distinct(s) == \A a, b \in 1..Len(s) : s[a].key = s[b].key => a = b
<1>1. n \in Nat
  BY LenProperties
<1>2. PICK f \in [0..n -> Seq(R)] :
        /\ f[0] = <<>>
        /\ \A i \in 1..n : f[i] = Kept(rows, f[i - 1], i)
        /\ RetainedObservations(material) = f[n]
  BY RetainedByRow
<1> DEFINE G == {m \in Nat : m <= n =>
                   /\ Elements(f[m]) = From(m)
                   /\ (\A i, j \in 1..n : rows[i].key = rows[j].key => i = j) => Distinct(f[m])}
<1>3. 0 \in G
  BY <1>1, <1>2 DEF Elements
<1>4. ASSUME NEW m \in Nat, m \in G PROVE m + 1 \in G
  <2> SUFFICES ASSUME m + 1 <= n
               PROVE  /\ Elements(f[m + 1]) = From(m + 1)
                      /\ (\A i, j \in 1..n : rows[i].key = rows[j].key => i = j) => Distinct(f[m + 1])
    OBVIOUS
  <2>1. /\ m \in 0..n /\ m + 1 \in 1..n /\ (m + 1) - 1 = m
        /\ f[m] \in Seq(R) /\ Elements(f[m]) = From(m)
        /\ f[m + 1] = Kept(rows, f[m], m + 1)
    BY <1>1, <1>2, <1>4
  <2> DEFINE s == f[m]
             x == RetainedObservation(rows[m + 1])
  <2>2. CASE rows[m + 1].origin # "observation"
    <3>1. f[m + 1] = s
      BY <2>1, <2>2 DEF Kept
    <3>2. From(m + 1) = From(m)
      BY <2>2
    <3>3. (\A i, j \in 1..n : rows[i].key = rows[j].key => i = j) => Distinct(f[m])
      BY <1>1, <1>4, <2>1
    <3> HIDE DEF From, Distinct
    <3> QED
      BY <2>1, <3>1, <3>2, <3>3
  <2>3. CASE rows[m + 1].origin = "observation"
    <3>1. f[m + 1] = Append(s, x) /\ x \in R
      BY <2>1, <2>3 DEF Kept
    <3>2. From(m + 1) = From(m) \cup {x}
      BY <2>3
    <3> HIDE DEF R, From, s, x
    <3>3. s \in Seq(R) /\ Len(s) \in Nat /\ DOMAIN s = 1..Len(s)
      BY <2>1, LenProperties DEF s
    <3>4. /\ Len(Append(s, x)) = Len(s) + 1
          /\ DOMAIN Append(s, x) = 1..(Len(s) + 1)
          /\ \A k \in 1..Len(s) : Append(s, x)[k] = s[k]
          /\ Append(s, x)[Len(s) + 1] = x
      BY <3>1, <3>3, AppendProperties, LenProperties
    <3>5. Elements(Append(s, x)) = Elements(s) \cup {x}
      BY <3>3, <3>4 DEF Elements
    <3>6. Elements(f[m + 1]) = From(m + 1)
      BY <2>1, <3>1, <3>2, <3>5 DEF s
    <3>7. ASSUME \A i, j \in 1..n : rows[i].key = rows[j].key => i = j
          PROVE  Distinct(f[m + 1])
      <4>1. Distinct(s)
        BY <1>4, <1>1, <2>1, <3>7 DEF s
      <4>2. \A a \in 1..Len(s) : s[a].key # x.key
        <5>1. TAKE a \in 1..Len(s)
        <5>2. s[a] \in From(m)
          BY <2>1, <3>3 DEF Elements, s
        <5>3. PICK i \in 1..m : s[a] = RetainedObservation(rows[i])
          BY <5>2 DEF From
        <5>4. i # m + 1 /\ i \in 1..n
          BY <1>1, <2>1
        <5>5. rows[i].key # rows[m + 1].key
          BY <2>1, <3>7, <5>4
        <5> QED
          BY <5>3, <5>5 DEF x, RetainedObservation
      <4> QED
        BY <3>1, <3>3, <3>4, <4>1, <4>2
    <3> QED
      BY <3>6, <3>7
  <2> QED
    BY <2>2, <2>3
<1> HIDE DEF G
<1>5. Nat \subseteq G
  BY <1>3, <1>4, NatSetInduction
<1>6. /\ f[n] \in Seq(R) /\ Elements(f[n]) = From(n)
      /\ (\A i, j \in 1..n : rows[i].key = rows[j].key => i = j) => Distinct(f[n])
  <2>1. n \in G /\ n \in 0..n /\ n <= n
    BY <1>1, <1>5
  <2> HIDE DEF From, Distinct, R
  <2> QED
    BY <1>2, <2>1 DEF G
<1>7. DOMAIN f[n] = 1..Len(f[n])
  BY <1>6, LenProperties
<1> DEFINE keys == [i \in DOMAIN f[n] |-> f[n][i].key]
<1>8. Distinct(f[n]) => IsInjective(keys)
  BY <1>7 DEF IsInjective
<1> HIDE DEF Distinct
<1> QED
  BY <1>2, <1>6, <1>8

-----------------------------------------------------------------------------
KeysOnce(o) == IsInjective([i \in DOMAIN o |-> o[i].key])

BindsKeysOnce(d) == \A i, j \in DOMAIN d.bindings : d.bindings[i].key = d.bindings[j].key => i = j

\* What the observations say is read off their set.
LEMMA SameObservations ==
  ASSUME NEW d, NEW o, NEW q, Elements(o) = Elements(q)
  PROVE  /\ Formalize(d, o) = Formalize(d, q)
         /\ KeysOnce(q) /\ AdmitsObservations(d, o) => AdmitsObservations(d, q)
<1>1. \A k : /\ Observed(o, k) <=> Observed(q, k)
             /\ ObservationOf(o, k) = ObservationOf(q, k)
  BY DEF Observed, ObservationOf
<1>2. AllEvidence(o) = AllEvidence(q)
  BY DEF AllEvidence
<1>3. \A b : FormalizedRow(b, d, o) = FormalizedRow(b, d, q)
  BY <1>1 DEF FormalizedRow
<1>4. Material(d, o) = Material(d, q)
  BY <1>3 DEF Material
<1>5. \A b : AdmitsBinding(b, d, o) <=> AdmitsBinding(b, d, q)
  BY <1>1 DEF AdmitsBinding
<1>6. Elements([i \in DOMAIN o |-> o[i].key]) = Elements([i \in DOMAIN q |-> q[i].key])
  BY DEF Elements
<1> QED
  BY <1>2, <1>4, <1>5, <1>6 DEF AdmitsObservations, KeysOnce, Formalize

LEMMA AdmittedKeys ==
  ASSUME NEW d, NEW o, AdmitsObservations(d, o)
  PROVE  /\ KeysOnce(o)
         /\ \A x, y \in Elements(o) : x.key = y.key => x = y
         /\ \A x \in Elements(o) : Observed(o, x.key) /\ ObservationOf(o, x.key) = x
         /\ \A x \in Elements(o) : \E b \in Elements(d.bindings) : b.key = x.key
<1>1. KeysOnce(o)
  BY DEF AdmitsObservations, KeysOnce
<1>2. \A x, y \in Elements(o) : x.key = y.key => x = y
  BY <1>1 DEF KeysOnce, IsInjective, Elements
<1>3. ASSUME NEW x \in Elements(o) PROVE Observed(o, x.key) /\ ObservationOf(o, x.key) = x
  BY <1>2 DEF Observed, ObservationOf
<1>4. ASSUME NEW x \in Elements(o) PROVE \E b \in Elements(d.bindings) : b.key = x.key
  <2>1. PICK i \in DOMAIN o : x = o[i]
    BY <1>4 DEF Elements
  <2> DEFINE keys == [j \in DOMAIN o |-> o[j].key]
  <2>2. x.key \in Elements(keys)
    BY <2>1 DEF Elements
  <2>3. Elements(keys) \subseteq {b.key : b \in Elements(d.bindings)}
    BY DEF AdmitsObservations
  <2> QED
    BY <2>2, <2>3
<1> QED
  BY <1>1, <1>2, <1>3, <1>4

WellFormed(o) ==
  /\ o \in Seq(Elements(o))
  /\ \A x \in Elements(o) :
       /\ x = [key |-> x.key, value |-> x.value, unit |-> x.unit, evidence |-> x.evidence]
       /\ Present(x.value)

\* The rows of what was admitted keep all of the observations, each once.
LEMMA RetainedAreAdmitted ==
  ASSUME NEW d, NEW o, d.bindings \in Seq(Elements(d.bindings)), BindsKeysOnce(d),
         WellFormed(o), AdmitsObservations(d, o)
  PROVE  LET retained == RetainedObservations(Formalize(d, o).material)
         IN  /\ Elements(retained) = Elements(o)
             /\ KeysOnce(retained)
             /\ \A i \in DOMAIN retained : Present(retained[i].value)
<1> DEFINE material == Formalize(d, o).material
           rows == material.rows
           retained == RetainedObservations(material)
           n == Len(d.bindings)
<1>1. rows = [i \in DOMAIN d.bindings |-> FormalizedRow(d.bindings[i], d, o)]
  BY FormalizedMaterial
<1>2. DOMAIN d.bindings = 1..n /\ n \in Nat
  BY LenProperties
<1> HIDE DEF material
<1> DEFINE S == {rows[i] : i \in 1..n}
<1>3. rows \in Seq(S) /\ Len(rows) = n
  BY <1>1, <1>2
<1>4. \A i \in 1..n : rows[i] = FormalizedRow(d.bindings[i], d, o)
  BY <1>1, <1>2
<1> HIDE DEF rows, S, n
<1>5. \A i \in 1..n : /\ rows[i].key = d.bindings[i].key
                      /\ rows[i].origin = "observation" <=> Observed(o, d.bindings[i].key)
  BY <1>4, RowFields
<1>6. \A i, j \in 1..n : rows[i].key = rows[j].key => i = j
  BY <1>2, <1>5 DEF BindsKeysOnce
<1>7. ASSUME NEW i \in 1..n, rows[i].origin = "observation"
      PROVE  RetainedObservation(rows[i]) = ObservationOf(o, d.bindings[i].key)
  <2> DEFINE x == ObservationOf(o, d.bindings[i].key)
  <2>1. /\ x \in Elements(o) /\ x.key = d.bindings[i].key
    BY <1>5, <1>7, ObservedByKey
  <2>2. /\ rows[i].observed = x.value /\ rows[i].unit = x.unit /\ rows[i].evidence = x.evidence
        /\ rows[i].key = x.key
    BY <1>4, <1>5, <1>7, <2>1, RowFields
  <2>3. x = [key |-> x.key, value |-> x.value, unit |-> x.unit, evidence |-> x.evidence]
    BY <2>1 DEF WellFormed
  <2> HIDE DEF x
  <2>4. RetainedObservation(rows[i]) = x
    BY <2>2, <2>3 DEF RetainedObservation
  <2> QED
    BY <2>4 DEF x
<1>8. /\ Elements(retained) = {RetainedObservation(rows[i]) :
                                 i \in {j \in 1..n : rows[j].origin = "observation"}}
      /\ KeysOnce(retained)
  <2>1. rows = material.rows
    BY DEF rows
  <2>2. material.rows \in Seq(S)
    BY <1>3, <2>1
  <2>3. /\ Elements(retained) = {RetainedObservation(material.rows[i]) :
                 i \in {j \in 1..Len(material.rows) : material.rows[j].origin = "observation"}}
        /\ (\A i, j \in 1..Len(material.rows) : material.rows[i].key = material.rows[j].key => i = j)
             => KeysOnce(retained)
    BY <2>2, RetainedShape DEF KeysOnce
  <2> HIDE DEF retained
  <2> QED
    BY <1>3, <1>6, <2>1, <2>3
<1> HIDE DEF retained
<1>9. Elements(retained) \subseteq Elements(o)
  BY <1>5, <1>7, <1>8, ObservedByKey
<1>10. ASSUME NEW x \in Elements(o) PROVE x \in Elements(retained)
  <2>1. PICK b \in Elements(d.bindings) : b.key = x.key
    BY <1>10, AdmittedKeys
  <2>2. PICK i \in 1..n : b = d.bindings[i]
    BY <1>2, <2>1 DEF Elements
  <2>3. Observed(o, d.bindings[i].key) /\ ObservationOf(o, d.bindings[i].key) = x
    BY <1>10, <2>1, <2>2, AdmittedKeys
  <2> QED
    BY <1>5, <1>7, <1>8, <2>3
<1>11. \A i \in DOMAIN retained : retained[i] \in Elements(o)
  BY <1>9 DEF Elements
<1>12. Elements(retained) = Elements(o)
  BY <1>9, <1>10
<1>13. \A i \in DOMAIN retained : Present(retained[i].value)
  BY <1>11 DEF WellFormed
<1> QED
  BY <1>8, <1>12, <1>13 DEF retained, material

LEMMA FormalizedFits ==
  ASSUME NEW d, NEW o
  PROVE  /\ SameIdentity(d, Formalize(d, o).material)
         /\ SameScope(d, Formalize(d, o).material)
         /\ Formalize(d, o).replayKey = ReplayKey(Formalize(d, o).material)
<1>1. /\ Formalize(d, o).material = Material(d, o)
      /\ Formalize(d, o).replayKey = ReplayKey(Material(d, o))
  BY DEF Formalize, SnapshotOf
<1>2. LET m == Material(d, o)
      IN  /\ m.domainId = d.domainId /\ m.domainVersion = d.domainVersion
          /\ m.projectionVersion = d.projectionVersion
          /\ m.assumptions = d.assumptions /\ m.scope = d.scope
  BY DEF Material
<1> DEFINE m == Material(d, o)
<1>3. SameIdentity(d, m)
  <2> HIDE DEF m
  <2> QED
    BY <1>2 DEF SameIdentity, m
<1>4. SameScope(d, m)
  <2> HIDE DEF m
  <2> QED
    BY <1>2 DEF SameScope, m
<1> QED
  BY <1>1, <1>3, <1>4

LEMMA AdmittedReplays ==
  ASSUME NEW d, NEW o, d.bindings \in Seq(Elements(d.bindings)), BindsKeysOnce(d),
         WellFormed(o), AdmitsObservations(d, o)
  PROVE  Replays(d, Formalize(d, o))
<1> DEFINE s == Formalize(d, o)
           retained == RetainedObservations(s.material)
<1>1. /\ Elements(o) = Elements(retained) /\ KeysOnce(retained)
      /\ \A i \in DOMAIN retained : Present(retained[i].value)
  BY RetainedAreAdmitted
<1>2. /\ SameIdentity(d, s.material) /\ SameScope(d, s.material)
      /\ s.replayKey = ReplayKey(s.material)
  <2> HIDE DEF retained
  <2> QED
    BY FormalizedFits
<1> HIDE DEF s
<1>3. AdmitsObservations(d, retained) /\ Formalize(d, retained) = s
  <2> HIDE DEF retained
  <2> QED
    BY <1>1, SameObservations DEF s
<1> QED
  BY <1>1, <1>2, <1>3 DEF Replays, s

-----------------------------------------------------------------------------
\* What a caller does to its statement: it never adds to it, and the steps
\* that keep its length keep all it says.
Restates(o, q) ==
  /\ WellFormed(q)
  /\ Elements(q) \subseteq Elements(o)
  /\ KeysOnce(o) => KeysOnce(q)
  /\ Len(q) = Len(o) => Elements(q) = Elements(o) /\ (KeysOnce(q) => KeysOnce(o))

LEMMA SubstatementsAreWellFormed ==
  ASSUME NEW o, NEW q, WellFormed(o), q \in Seq(Elements(o))
  PROVE  WellFormed(q) /\ Elements(q) \subseteq Elements(o)
<1>1. DOMAIN q = 1..Len(q) /\ Len(q) \in Nat
  BY LenProperties
<1>2. \A i \in 1..Len(q) : q[i] \in Elements(o)
  BY ElementOfSeq
<1>3. Elements(q) \subseteq Elements(o)
  BY <1>1, <1>2 DEF Elements
<1>4. \A i \in 1..Len(q) : q[i] \in Elements(q)
  BY <1>1 DEF Elements
<1>5. q \in Seq(Elements(q))
  <2>1. q = [i \in 1..Len(q) |-> q[i]]
    BY <1>1, LenProperties
  <2>2. [i \in 1..Len(q) |-> q[i]] \in Seq(Elements(q))
    BY <1>1, <1>4, IsASeq
  <2> QED
    BY <2>1, <2>2
<1> QED
  BY <1>3, <1>5 DEF WellFormed

LEMMA ReorderRestates ==
  ASSUME NEW o, WellFormed(o), NEW i \in 1..(Len(o) - 1), NEW q,
         q = [o EXCEPT ![i] = o[i + 1], ![i + 1] = o[i]]
  PROVE  Restates(o, q)
<1>1. o \in Seq(Elements(o)) /\ DOMAIN o = 1..Len(o) /\ Len(o) \in Nat
  BY LenProperties DEF WellFormed
<1>2. i \in 1..Len(o) /\ i + 1 \in 1..Len(o) /\ i # i + 1
  BY <1>1
<1> DEFINE swap(k) == IF k = i THEN i + 1 ELSE IF k = i + 1 THEN i ELSE k
<1>3. DOMAIN q = 1..Len(o) /\ \A k \in 1..Len(o) : q[k] = o[swap(k)]
  BY <1>1, <1>2
<1>4. \A k \in 1..Len(o) : swap(k) \in 1..Len(o) /\ swap(swap(k)) = k
  BY <1>1, <1>2
<1>5. \A k \in 1..Len(o) : o[k] \in Elements(o)
  BY <1>1 DEF Elements
<1>6. q \in Seq(Elements(o)) /\ Len(q) = Len(o)
  <2>1. q = [k \in 1..Len(o) |-> q[k]]
    BY <1>1
  <2>2. \A k \in 1..Len(o) : q[k] \in Elements(o)
    BY <1>3, <1>4, <1>5
  <2>3. [k \in 1..Len(o) |-> q[k]] \in Seq(Elements(o))
    BY <1>1, <2>2, IsASeq
  <2>4. q \in Seq(Elements(o))
    BY <2>1, <2>3
  <2> QED
    BY <1>1, <1>3, <2>4, LenProperties
<1> HIDE DEF swap
<1>7. Elements(q) = Elements(o)
  <2>1. \A k \in 1..Len(o) : o[k] = q[swap(k)]
    BY <1>3, <1>4
  <2>2. ASSUME NEW x \in Elements(q) PROVE x \in Elements(o)
    <3>1. PICK k \in 1..Len(o) : x = q[k]
      BY <1>3, <2>2 DEF Elements
    <3> QED
      BY <1>3, <1>4, <1>5, <3>1
  <2>3. ASSUME NEW x \in Elements(o) PROVE x \in Elements(q)
    <3>1. PICK k \in 1..Len(o) : x = o[k]
      BY <1>1, <2>3 DEF Elements
    <3>2. x = q[swap(k)] /\ swap(k) \in DOMAIN q
      BY <1>3, <1>4, <2>1, <3>1
    <3> QED
      BY <3>2 DEF Elements
  <2> QED
    BY <2>2, <2>3
<1>8. KeysOnce(o) <=> KeysOnce(q)
  <2>1. ASSUME KeysOnce(o) PROVE KeysOnce(q)
    BY <1>1, <1>3, <1>4, <2>1 DEF KeysOnce, IsInjective
  <2>2. ASSUME KeysOnce(q) PROVE KeysOnce(o)
    <3>1. \A k \in 1..Len(o) : o[k] = q[swap(k)]
      BY <1>3, <1>4
    <3> QED
      BY <1>1, <1>3, <1>4, <2>2, <3>1 DEF KeysOnce, IsInjective
  <2> QED
    BY <2>1, <2>2
<1> QED
  BY <1>6, <1>7, <1>8, SubstatementsAreWellFormed DEF Restates

LEMMA WithdrawRestates ==
  ASSUME NEW o, WellFormed(o), NEW i \in DOMAIN o, NEW q, q = RemoveAt(o, i)
  PROVE  Restates(o, q)
<1>1. o \in Seq(Elements(o)) /\ DOMAIN o = 1..Len(o) /\ Len(o) \in Nat /\ i \in 1..Len(o)
  BY LenProperties DEF WellFormed
<1> DEFINE n == Len(o)
           before == SubSeq(o, 1, i - 1)
           after == SubSeq(o, i + 1, n)
<1>2. /\ before \in Seq(Elements(o)) /\ Len(before) = i - 1
      /\ \A k \in 1..(i - 1) : before[k] = o[k]
  <2>1. \A k \in 1..(i - 1) : k \in 1..n
    BY <1>1
  <2>2. \A k \in 1..(i - 1) : o[k] \in Elements(o)
    BY <1>1, <2>1 DEF Elements
  <2> QED
    BY <1>1, <2>1, <2>2, SubSeqProperties
<1>3. /\ after \in Seq(Elements(o)) /\ Len(after) = n - i
      /\ \A k \in 1..(n - i) : after[k] = o[i + k]
  <2>1. \A k \in (i + 1)..n : k \in 1..n
    BY <1>1
  <2>2. \A k \in (i + 1)..n : o[k] \in Elements(o)
    BY <1>1, <2>1 DEF Elements
  <2> QED
    BY <1>1, <2>1, <2>2, SubSeqProperties
<1> HIDE DEF before, after, n
<1>4. q = before \o after
  BY DEF RemoveAt, before, after, n
<1>5. /\ q \in Seq(Elements(o)) /\ Len(q) = n - 1
      /\ \A k \in 1..(n - 1) : q[k] = IF k < i THEN o[k] ELSE o[k + 1]
  <2>1. /\ q \in Seq(Elements(o)) /\ Len(q) = Len(before) + Len(after)
        /\ \A k \in 1..(Len(before) + Len(after)) :
             q[k] = IF k <= Len(before) THEN before[k] ELSE after[k - Len(before)]
    BY <1>2, <1>3, <1>4, ConcatProperties
  <2>2. n \in Nat /\ i \in 1..n
    BY <1>1 DEF n
  <2>3. Len(before) + Len(after) = n - 1
    BY <1>2, <1>3, <2>2
  <2>4. ASSUME NEW k \in 1..(n - 1) PROVE q[k] = IF k < i THEN o[k] ELSE o[k + 1]
    <3>1. CASE k < i
      BY <1>2, <2>1, <2>2, <2>3, <3>1
    <3>2. CASE ~(k < i)
      <4>1. k - (i - 1) \in 1..(n - i) /\ i + (k - (i - 1)) = k + 1
        BY <2>2, <3>2
      <4> QED
        BY <1>2, <1>3, <2>1, <2>2, <2>3, <3>2, <4>1
    <3> QED
      BY <3>1, <3>2
  <2> QED
    BY <2>1, <2>3, <2>4
<1>6. DOMAIN q = 1..(n - 1) /\ n \in Nat /\ Len(o) = n
  BY <1>1, <1>5, LenProperties DEF n
<1>7. ASSUME KeysOnce(o) PROVE KeysOnce(q)
  <2>1. \A a, b \in 1..n : o[a].key = o[b].key => a = b
    BY <1>1, <1>6, <1>7 DEF KeysOnce, IsInjective
  <2>2. ASSUME NEW a \in 1..(n - 1), NEW b \in 1..(n - 1), q[a].key = q[b].key PROVE a = b
    <3>1. a \in 1..n /\ a + 1 \in 1..n /\ b \in 1..n /\ b + 1 \in 1..n
      BY <1>6
    <3>2. i \in Nat
      BY <1>1
    <3>3. /\ q[a] = IF a < i THEN o[a] ELSE o[a + 1]
          /\ q[b] = IF b < i THEN o[b] ELSE o[b + 1]
      BY <1>5
    <3> QED
      BY <2>1, <2>2, <3>1, <3>2, <3>3
  <2> QED
    BY <1>6, <2>2 DEF KeysOnce, IsInjective
<1>8. Len(q) # Len(o)
  BY <1>5, <1>6
<1> QED
  BY <1>5, <1>7, <1>8, SubstatementsAreWellFormed DEF Restates

CallerInv == definition \in Contracts /\ WellFormed(observations)

LEMMA CallerSteps ==
  ASSUME CallerInv, ReplayNext
  PROVE  definition' = definition /\ Restates(observations, observations')
<1>1. CASE Reorder
  BY <1>1, ReorderRestates DEF Reorder, CallerInv
<1>2. CASE Withdraw
  BY <1>2, WithdrawRestates DEF Withdraw, CallerInv
<1> QED
  BY <1>1, <1>2 DEF ReplayNext

(* Whatever a caller does to it, a statement is a list of observations      *)
(* under a registered contract.                                             *)
THEOREM CallerInvariant == ReplaySpec => []CallerInv
<1>1. ReplayInit => CallerInv
  BY StatementsAreObservations DEF ReplayInit, CallerInv, WellFormed
<1>2. CallerInv /\ [ReplayNext]_replayVars => CallerInv'
  <2> SUFFICES ASSUME CallerInv, [ReplayNext]_replayVars PROVE CallerInv'
    OBVIOUS
  <2>1. CASE ReplayNext
    BY <2>1, CallerSteps DEF CallerInv, Restates
  <2>2. CASE UNCHANGED replayVars
    BY <2>2 DEF replayVars, CallerInv
  <2> QED
    BY <2>1, <2>2
<1> QED
  BY <1>1, <1>2, PTL DEF ReplaySpec

\* What registration guarantees of a contract.
LEMMA ContractsBind ==
  ASSUME NEW d \in Contracts
  PROVE  d.bindings \in Seq(Elements(d.bindings)) /\ BindsKeysOnce(d) /\ BindsOnce(d)
  BY ContractsAreRegistered DEF IsInjective, BindsKeysOnce, BindsOnce

(* What applyMathematicalAnchor() admits, the projection replays: the        *)
(* observations rebuilt from the rows are those admitted, each once.        *)
THEOREM EvidenceReplays == ReplaySpec => []AdmittedEvidenceReplays
<1>1. CallerInv => AdmittedEvidenceReplays
  BY ContractsBind, AdmittedReplays DEF CallerInv, AdmittedEvidenceReplays, Admitted, Formalized
<1> QED
  BY <1>1, CallerInvariant, PTL

LEMMA OrderStep ==
  ASSUME CallerInv, ReplayNext, Len(observations') = Len(observations)
  PROVE  (Admitted' <=> Admitted) /\ (Admitted => Formalized' = Formalized)
<1> DEFINE o == observations
<1>1. PICK q : q = observations'
  OBVIOUS
<1>2. /\ definition' = definition /\ Elements(q) = Elements(o)
      /\ KeysOnce(q) <=> KeysOnce(o)
  BY <1>1, CallerSteps DEF Restates
<1>3. /\ Formalize(definition, o) = Formalize(definition, q)
      /\ AdmitsObservations(definition, o) <=> AdmitsObservations(definition, q)
  BY <1>2, SameObservations, AdmittedKeys
<1> QED
  BY <1>1, <1>2, <1>3 DEF Admitted, Formalized

(* The same observations in another order are admitted alike and give the   *)
(* same snapshot.                                                           *)
THEOREM OrderNeverMatters == ReplaySpec => OrderIsImmaterial
<1>1. CallerInv /\ [ReplayNext]_replayVars =>
        [Len(observations') = Len(observations) =>
           /\ Admitted' <=> Admitted
           /\ Admitted => Formalized' = Formalized]_replayVars
  BY OrderStep
<1> QED
  BY <1>1, CallerInvariant, PTL DEF ReplaySpec, OrderIsImmaterial

-----------------------------------------------------------------------------
\* The rows of a material whose variables a predicate reads.
RowsRead(p, material) ==
  {r \in Elements(material.rows) : r.variable \in VariablesOf(p.expression)}

LEMMA DecisionFields ==
  ASSUME NEW p, NEW material
  PROVE  /\ Decision(p, material).variables = VariablesOf(p.expression)
         /\ Decision(p, material).evidence = UNION {Elements(r.evidence) : r \in RowsRead(p, material)}
  BY DEF Decision, RowsRead

\* Each decision is the decision of some predicate, whatever the order.
LEMMA DecisionsDecide ==
  ASSUME NEW d, NEW s
  PROVE  State64Record(d, s).decisions =
           [i \in DOMAIN d.predicates |-> Decision(InOrder(d.predicates)[i], s.material)]
  BY DEF State64Record, Decisions, InOrder

LEMMA DecisionOfPredicate ==
  ASSUME NEW d, NEW s, NEW x \in Elements(State64Record(d, s).decisions)
  PROVE  \E p : x = Decision(p, s.material)
<1>1. State64Record(d, s).decisions = Decisions(d, s.material)
  BY DEF State64Record
<1>2. PICK i \in DOMAIN Decisions(d, s.material) : x = Decisions(d, s.material)[i]
  BY <1>1 DEF Elements
<1> QED
  BY <1>2 DEF Decisions

LEMMA TraceCites ==
  ASSUME NEW d, NEW o, AdmitsObservations(d, o),
         NEW x \in Elements(State64Record(d, Formalize(d, o)).decisions)
  PROVE  x.evidence = UNION {Elements(u.evidence) : u \in
           {w \in Elements(o) : \E b \in Elements(d.bindings) :
              b.key = w.key /\ b.variable \in x.variables}}
<1> DEFINE material == Formalize(d, o).material
           cited(vs) == {w \in Elements(o) : \E b \in Elements(d.bindings) :
                            b.key = w.key /\ b.variable \in vs}
<1>1. material.rows = [i \in DOMAIN d.bindings |-> FormalizedRow(d.bindings[i], d, o)]
  BY FormalizedMaterial
<1>2. PICK p : x = Decision(p, material)
  BY DecisionOfPredicate
<1> HIDE DEF material
<1> DEFINE vs == VariablesOf(p.expression)
<1>3. x.variables = vs /\ x.evidence = UNION {Elements(r.evidence) : r \in RowsRead(p, material)}
  BY <1>2, DecisionFields
<1> HIDE DEF vs
<1>4. ASSUME NEW r \in RowsRead(p, material), NEW e \in Elements(r.evidence)
      PROVE  \E u \in cited(vs) : e \in Elements(u.evidence)
  <2>1. r \in Elements(material.rows) /\ r.variable \in vs
    BY <1>4 DEF RowsRead, vs
  <2>2. PICK i \in DOMAIN d.bindings : r = FormalizedRow(d.bindings[i], d, o)
    BY <1>1, <2>1 DEF Elements
  <2> DEFINE b == d.bindings[i]
             w == ObservationOf(o, b.key)
  <2>3. b \in Elements(d.bindings)
    BY DEF Elements
  <2> HIDE DEF b
  <2>4. r.variable = b.variable
    BY <2>2, RowFields DEF b
  <2>5. Observed(o, b.key) /\ r.evidence = w.evidence
    <3>1. ASSUME ~Observed(o, b.key) PROVE FALSE
      <4>1. r.evidence = <<>>
        BY <2>2, <3>1, RowFields DEF b
      <4> QED
        BY <1>4, <4>1 DEF Elements
    <3> QED
      BY <2>2, <3>1, RowFields DEF b
  <2>6. w \in Elements(o) /\ w.key = b.key
    BY <2>5, ObservedByKey
  <2> HIDE DEF w
  <2>7. w \in cited(vs)
    BY <2>1, <2>3, <2>4, <2>6
  <2> QED
    BY <1>4, <2>5, <2>7
<1>5. ASSUME NEW u \in cited(vs), NEW e \in Elements(u.evidence)
      PROVE  \E r \in RowsRead(p, material) : e \in Elements(r.evidence)
  <2>1. PICK b \in Elements(d.bindings) : b.key = u.key /\ b.variable \in vs
    BY <1>5
  <2>2. PICK i \in DOMAIN d.bindings : b = d.bindings[i]
    BY <2>1 DEF Elements
  <2> DEFINE r == FormalizedRow(b, d, o)
  <2>3. r \in Elements(material.rows)
    BY <1>1, <2>2 DEF Elements
  <2>4. Observed(o, b.key) /\ ObservationOf(o, b.key) = u
    BY <1>5, <2>1, AdmittedKeys
  <2>5. r.variable = b.variable /\ r.evidence = u.evidence
    BY <2>4, RowFields
  <2> HIDE DEF r
  <2>6. r \in RowsRead(p, material)
    BY <2>1, <2>3, <2>5 DEF RowsRead, vs
  <2> QED
    BY <1>5, <2>5, <2>6
<1>6. UNION {Elements(r.evidence) : r \in RowsRead(p, material)}
        = UNION {Elements(u.evidence) : u \in cited(vs)}
  <2> HIDE DEF cited
  <2> QED
    BY <1>4, <1>5
<1> QED
  BY <1>3, <1>6

(* A decision cites the evidence of the variables its predicate reads, all  *)
(* of it and no other.                                                      *)
THEOREM TraceCitesEvidence == ReplaySpec => []TraceCitesItsEvidence
<1>1. TraceCitesItsEvidence
  BY TraceCites DEF TraceCitesItsEvidence, Admitted, Projected, Formalized
<1> QED
  BY <1>1, PTL

-----------------------------------------------------------------------------
\* Whether an expression holds depends on the variables its tests read.
LEMMA TruthIsRead ==
  ASSUME NEW expression, NEW v, NEW w,
         \A x \in VariablesOf(expression) : v[x] = w[x]
  PROVE  EvaluateExpression(expression, v) = EvaluateExpression(expression, w)
<1> DEFINE Body(f, u) ==
             [i \in DOMAIN expression |->
                LET node == expression[i]
                IN  IF node.kind = "test"
                    THEN Compare(u[node.variable], node)
                    ELSE /\ \A j \in node.all : f[j]
                         /\ node.hasAny => \E j \in node.any : f[j]
                         /\ \A j \in node.none : ~f[j]]
<1>1. ASSUME NEW i \in DOMAIN expression, expression[i].kind = "test"
      PROVE  v[expression[i].variable] = w[expression[i].variable]
  BY <1>1 DEF VariablesOf, Tests, Elements
<1>2. \A f : Body(f, v) = Body(f, w)
  BY <1>1
<1> HIDE DEF Body
<1>3. (CHOOSE f : f = Body(f, v)) = (CHOOSE f : f = Body(f, w))
  BY <1>2
<1>4. /\ EvaluateExpression(expression, v) = (CHOOSE f : f = Body(f, v))[1]
      /\ EvaluateExpression(expression, w) = (CHOOSE f : f = Body(f, w))[1]
  BY DEF EvaluateExpression, TruthOf, Body
<1> QED
  BY <1>3, <1>4

LEMMA DecisionIsRead ==
  ASSUME NEW p, NEW m, NEW n,
         \A x \in VariablesOf(p.expression) : m.variables[x] = n.variables[x],
         RowsRead(p, m) = RowsRead(p, n)
  PROVE  Decision(p, m) = Decision(p, n)
<1>1. EvaluateExpression(p.expression, m.variables) = EvaluateExpression(p.expression, n.variables)
  BY TruthIsRead
<1> QED
  BY <1>1 DEF Decision, RowsRead

\* The variables of bindings whose observation is in o but not in q.
Moved(d, o, q) ==
  {b.variable : b \in {c \in Elements(d.bindings) :
     c.key \in {x.key : x \in Elements(o)} \ {x.key : x \in Elements(q)}}}

LEMMA RowsThatStand ==
  ASSUME NEW d, NEW o, NEW q, AdmitsObservations(d, o), Elements(q) \subseteq Elements(o),
         NEW i \in DOMAIN d.bindings, d.bindings[i].variable \notin Moved(d, o, q)
  PROVE  FormalizedRow(d.bindings[i], d, o) = FormalizedRow(d.bindings[i], d, q)
<1> DEFINE b == d.bindings[i]
<1>1. b \in Elements(d.bindings)
  BY DEF Elements
<1> HIDE DEF b
<1>2. b.key \in {x.key : x \in Elements(o)} => b.key \in {x.key : x \in Elements(q)}
  BY <1>1 DEF Moved, b
<1>3. Observed(o, b.key) <=> Observed(q, b.key)
  BY <1>2 DEF Observed
<1>4. CASE Observed(o, b.key)
  <2>1. ObservationOf(q, b.key) \in Elements(o) /\ ObservationOf(q, b.key).key = b.key
    BY <1>3, <1>4, ObservedByKey
  <2>2. ObservationOf(o, b.key) = ObservationOf(q, b.key)
    BY <2>1, AdmittedKeys
  <2>3. FormalizedRow(b, d, o) = FormalizedRow(b, d, q)
    BY <1>3, <2>2 DEF FormalizedRow
  <2> QED
    BY <2>3 DEF b
<1>5. CASE ~Observed(o, b.key)
  <2>1. FormalizedRow(b, d, o) = FormalizedRow(b, d, q)
    BY <1>3, <1>5 DEF FormalizedRow
  <2> QED
    BY <2>1 DEF b
<1> QED
  BY <1>4, <1>5

LEMMA BoundVariables ==
  ASSUME NEW d, NEW o
  PROVE  DOMAIN Formalize(d, o).material.variables =
           {d.bindings[i].variable : i \in DOMAIN d.bindings}
<1> DEFINE m == Formalize(d, o).material
<1>1. /\ m.rows = [i \in DOMAIN d.bindings |-> FormalizedRow(d.bindings[i], d, o)]
      /\ m.variables = FormalVariables(m.rows)
  BY FormalizedMaterial
<1> HIDE DEF m
<1>2. \A i \in DOMAIN d.bindings : m.rows[i].variable = d.bindings[i].variable
  BY <1>1, RowFields
<1>3. DOMAIN m.variables = {r.variable : r \in Elements(m.rows)}
  BY <1>1 DEF FormalVariables
<1>4. DOMAIN m.rows = DOMAIN d.bindings
  BY <1>1
<1>5. {r.variable : r \in Elements(m.rows)} = {d.bindings[i].variable : i \in DOMAIN d.bindings}
  BY <1>2, <1>4 DEF Elements
<1> QED
  BY <1>3, <1>5 DEF m

(* What stands when observations are withdrawn, for any contract.           *)
LEMMA WithdrawalLemma ==
  ASSUME NEW d, BindsOnce(d), NEW o, NEW q, AdmitsObservations(d, o),
         Elements(q) \subseteq Elements(o)
  PROVE  LET m == Formalize(d, o).material
             n == Formalize(d, q).material
         IN  /\ DOMAIN n.variables = DOMAIN m.variables
             /\ \A x \in DOMAIN m.variables \ Moved(d, o, q) : n.variables[x] = m.variables[x]
             /\ \A p : VariablesOf(p.expression) \subseteq DOMAIN m.variables
                         /\ VariablesOf(p.expression) \cap Moved(d, o, q) = {} =>
                       Decision(p, n) = Decision(p, m)
<1> DEFINE m == Formalize(d, o).material
           n == Formalize(d, q).material
           vars0 == {d.bindings[i].variable : i \in DOMAIN d.bindings}
<1>1. /\ m.rows = [i \in DOMAIN d.bindings |-> FormalizedRow(d.bindings[i], d, o)]
      /\ n.rows = [i \in DOMAIN d.bindings |-> FormalizedRow(d.bindings[i], d, q)]
      /\ m.variables = FormalVariables(m.rows) /\ n.variables = FormalVariables(n.rows)
  BY FormalizedMaterial
<1>2. \A i \in DOMAIN d.bindings : /\ m.rows[i].variable = d.bindings[i].variable
                                   /\ n.rows[i].variable = d.bindings[i].variable
  BY <1>1, RowFields
<1>3. \A i \in DOMAIN d.bindings : /\ m.variables[d.bindings[i].variable] = m.rows[i].formal
                                   /\ n.variables[d.bindings[i].variable] = n.rows[i].formal
  BY <1>2, VariablesAreRows
<1> HIDE DEF m, n
<1>4. DOMAIN m.variables = vars0 /\ DOMAIN n.variables = vars0
  BY BoundVariables DEF m, n
<1>5. \A i \in DOMAIN d.bindings :
        d.bindings[i].variable \notin Moved(d, o, q) => m.rows[i] = n.rows[i]
  BY <1>1, RowsThatStand
<1>6. ASSUME NEW x \in DOMAIN m.variables \ Moved(d, o, q) PROVE n.variables[x] = m.variables[x]
  <2>1. PICK i \in DOMAIN d.bindings : x = d.bindings[i].variable
    BY <1>4
  <2> QED
    BY <1>3, <1>5, <2>1
<1>7. ASSUME NEW p, VariablesOf(p.expression) \subseteq DOMAIN m.variables,
             VariablesOf(p.expression) \cap Moved(d, o, q) = {}
      PROVE  Decision(p, n) = Decision(p, m)
  <2>1. \A x \in VariablesOf(p.expression) : n.variables[x] = m.variables[x]
    BY <1>6, <1>7
  <2>2. RowsRead(p, n) = RowsRead(p, m)
    <3>1. \A i \in DOMAIN d.bindings :
            d.bindings[i].variable \in VariablesOf(p.expression) => m.rows[i] = n.rows[i]
      BY <1>5, <1>7
    <3>2. DOMAIN m.rows = DOMAIN d.bindings /\ DOMAIN n.rows = DOMAIN d.bindings
      BY <1>1
    <3> QED
      BY <1>2, <3>1, <3>2 DEF RowsRead, Elements
  <2> QED
    BY <2>1, <2>2, DecisionIsRead
<1> QED
  BY <1>4, <1>6, <1>7 DEF m, n

-----------------------------------------------------------------------------
(* The sort of the predicates by position puts one at every place, since    *)
(* each has its own number of predecessors.                                 *)
LEMMA PlacesAreTaken ==
  ASSUME NEW T, NEW s \in Seq(T), \A k \in 1..Len(s) : s[k].position \in Int,
         NEW i \in DOMAIN s
  PROVE  \E k \in DOMAIN s : Place(s, k) = i
<1> DEFINE n == Len(s)
           K == 1..n
           Behind(k) == {j \in K : Before(s, j, k)}
           place == [k \in K |-> Place(s, k)]
<1>1. n \in Nat /\ DOMAIN s = K
  BY LenProperties
<1>2. IsFiniteSet(K) /\ Cardinality(K) = n
  <2>1. 1 \in Int /\ n \in Int
    BY <1>1
  <2>2. IsFiniteSet(1..n) /\ Cardinality(1..n) = IF 1 > n THEN 0 ELSE n - 1 + 1
    BY <2>1, FS_Interval
  <2> QED
    BY <1>1, <2>2
<1>3. \A k \in K : Place(s, k) = Cardinality(Behind(k)) + 1
  BY <1>1 DEF Place
<1>4. \A j, k \in K : s[j].position \in Int /\ j \in Int
  BY <1>1
<1>5. /\ \A k \in K : ~Before(s, k, k)
      /\ \A j, k, l \in K : Before(s, j, k) /\ Before(s, k, l) => Before(s, j, l)
      /\ \A j, k \in K : j # k => Before(s, j, k) \/ Before(s, k, j)
  BY <1>4 DEF Before
<1> HIDE DEF K, n
<1>6. ASSUME NEW k \in K
      PROVE  /\ IsFiniteSet(Behind(k)) /\ Cardinality(Behind(k)) \in Nat
             /\ Cardinality(Behind(k)) + 1 <= n
  <2>1. IsFiniteSet(Behind(k)) /\ k \notin Behind(k) /\ Behind(k) \cup {k} \in SUBSET K
    BY <1>2, <1>5, FS_Subset
  <2>2. Cardinality(Behind(k)) \in Nat
    BY <2>1, FS_CardinalityType
  <2>3. Cardinality(Behind(k) \cup {k}) = Cardinality(Behind(k)) + 1
    BY <2>1, FS_AddElement
  <2>4. Cardinality(Behind(k) \cup {k}) <= Cardinality(K)
    BY <1>2, <2>1, FS_Subset
  <2> QED
    BY <1>2, <2>1, <2>2, <2>3, <2>4
<1>7. ASSUME NEW j \in K, NEW k \in K, Before(s, j, k)
      PROVE  Cardinality(Behind(j)) + 1 <= Cardinality(Behind(k))
  <2>1. IsFiniteSet(Behind(j)) /\ j \notin Behind(j) /\ Behind(j) \cup {j} \in SUBSET Behind(k)
    BY <1>5, <1>6, <1>7
  <2>2. Cardinality(Behind(j) \cup {j}) = Cardinality(Behind(j)) + 1
    BY <2>1, FS_AddElement
  <2>3. Cardinality(Behind(j) \cup {j}) <= Cardinality(Behind(k))
    BY <1>6, <2>1, FS_Subset
  <2> QED
    BY <2>2, <2>3
<1> HIDE DEF Behind
<1>8. place \in [K -> K]
  <2>1. ASSUME NEW k \in K PROVE Place(s, k) \in K
    BY <1>1, <1>3, <1>6 DEF K
  <2> QED
    BY <2>1
<1>9. \A j, k \in K : place[j] = place[k] => j = k
  <2>1. ASSUME NEW j \in K, NEW k \in K, Before(s, j, k) PROVE place[j] # place[k]
    BY <1>3, <1>6, <1>7, <2>1
  <2> QED
    BY <1>5, <2>1
<1>10. place \in Injection(K, K)
  BY <1>8, <1>9 DEF Injection, IsInjective
<1>11. place \in Surjection(K, K)
  BY <1>2, <1>10, FS_Injection
<1>12. \E k \in K : place[k] = i
  BY <1>1, <1>11 DEF Surjection
<1> QED
  BY <1>1, <1>12

LEMMA InOrderSelects ==
  ASSUME NEW T, NEW s \in Seq(T), \A k \in 1..Len(s) : s[k].position \in Int
  PROVE  /\ DOMAIN InOrder(s) = DOMAIN s
         /\ \A i \in DOMAIN s : InOrder(s)[i] \in Elements(s)
<1>1. ASSUME NEW i \in DOMAIN s PROVE InOrder(s)[i] \in Elements(s)
  <2>1. \E k \in DOMAIN s : Place(s, k) = i
    BY PlacesAreTaken
  <2> DEFINE at == CHOOSE k \in DOMAIN s : Place(s, k) = i
  <2>2. at \in DOMAIN s
    BY <2>1
  <2>3. InOrder(s)[i] = s[at]
    BY DEF InOrder
  <2> QED
    BY <2>2, <2>3 DEF Elements
<1> QED
  BY <1>1 DEF InOrder

\* Predicates read variables that have a formal value.
LEMMA ContractsPredicate ==
  ASSUME NEW d \in Contracts, NEW i \in DOMAIN d.predicates
  PROVE  VariablesOf(InOrder(d.predicates)[i].expression) \subseteq
           {d.bindings[j].variable : j \in DOMAIN d.bindings}
<1>1. /\ d.predicates \in Seq(Elements(d.predicates))
      /\ \A p \in Elements(d.predicates) :
           /\ p.position \in Int
           /\ VariablesOf(p.expression) \subseteq {b.variable : b \in Elements(d.bindings)}
  BY ContractsAreRegistered
<1>2. \A k \in 1..Len(d.predicates) : d.predicates[k].position \in Int
  BY <1>1, ElementOfSeq
<1>3. InOrder(d.predicates)[i] \in Elements(d.predicates)
  BY <1>1, <1>2, InOrderSelects
<1>4. {b.variable : b \in Elements(d.bindings)}
        = {d.bindings[j].variable : j \in DOMAIN d.bindings}
  BY DEF Elements
<1> QED
  BY <1>1, <1>3, <1>4

LEMMA WithdrawalStep ==
  ASSUME CallerInv, ReplayNext, Admitted, Admitted'
  PROVE  LET withdrawn == {o.key : o \in Elements(observations)}
                            \ {o.key : o \in Elements(observations')}
             moved == {b.variable : b \in
                         {c \in Elements(definition.bindings) : c.key \in withdrawn}}
             before == Formalized.material.variables
             after  == Formalized'.material.variables
         IN  /\ DOMAIN after = DOMAIN before
             /\ \A x \in DOMAIN before \ moved : after[x] = before[x]
             /\ \A i \in DOMAIN Projected.decisions :
                  Projected.decisions[i].variables \cap moved = {} =>
                    Projected'.decisions[i] = Projected.decisions[i]
<1> DEFINE d == definition
           o == observations
<1>1. PICK q : q = observations'
  OBVIOUS
<1>2. definition' = d /\ Elements(q) \subseteq Elements(o) /\ AdmitsObservations(d, o)
  BY <1>1, CallerSteps DEF Restates, Admitted
<1>3. d \in Contracts /\ BindsOnce(d)
  BY ContractsBind DEF CallerInv
<1> DEFINE m == Formalize(d, o).material
           n == Formalize(d, q).material
<1>4. /\ DOMAIN n.variables = DOMAIN m.variables
      /\ \A x \in DOMAIN m.variables \ Moved(d, o, q) : n.variables[x] = m.variables[x]
      /\ \A p : /\ VariablesOf(p.expression) \subseteq DOMAIN m.variables
                /\ VariablesOf(p.expression) \cap Moved(d, o, q) = {}
                => Decision(p, n) = Decision(p, m)
  BY <1>2, <1>3, WithdrawalLemma
<1>5. /\ Formalized = Formalize(d, o) /\ Formalized' = Formalize(d, q)
      /\ Projected.decisions =
           [i \in DOMAIN d.predicates |-> Decision(InOrder(d.predicates)[i], m)]
      /\ Projected'.decisions =
           [i \in DOMAIN d.predicates |-> Decision(InOrder(d.predicates)[i], n)]
  BY <1>1, <1>2, DecisionsDecide DEF Formalized, Projected
<1>6. DOMAIN m.variables = {d.bindings[i].variable : i \in DOMAIN d.bindings}
  BY <1>3, BoundVariables
<1> HIDE DEF m, n
<1>7. ASSUME NEW i \in DOMAIN Projected.decisions,
             Projected.decisions[i].variables \cap Moved(d, o, q) = {}
      PROVE  Projected'.decisions[i] = Projected.decisions[i]
  <2> DEFINE p == InOrder(d.predicates)[i]
  <2>1. /\ i \in DOMAIN d.predicates /\ Projected.decisions[i] = Decision(p, m)
        /\ Projected'.decisions[i] = Decision(p, n)
    BY <1>5, <1>7
  <2>2. VariablesOf(p.expression) \subseteq DOMAIN m.variables
    BY <1>3, <1>6, <2>1, ContractsPredicate
  <2> HIDE DEF p
  <2>3. VariablesOf(p.expression) \cap Moved(d, o, q) = {}
    BY <1>7, <2>1, DecisionFields
  <2> QED
    BY <1>4, <2>1, <2>2, <2>3
<1> QED
  BY <1>1, <1>4, <1>5, <1>7 DEF Moved, m, n

(* Without an observation, the formal values and the decisions that do not  *)
(* read its variable stand.                                                 *)
THEOREM WithdrawalStaysLocal == ReplaySpec => WithdrawalIsLocal
<1>1. CallerInv /\ [ReplayNext]_replayVars =>
        [Admitted /\ Admitted' =>
           LET withdrawn == {o.key : o \in Elements(observations)}
                              \ {o.key : o \in Elements(observations')}
               moved == {b.variable : b \in
                           {c \in Elements(definition.bindings) : c.key \in withdrawn}}
               before == Formalized.material.variables
               after  == Formalized'.material.variables
           IN  /\ DOMAIN after = DOMAIN before
               /\ \A x \in DOMAIN before \ moved : after[x] = before[x]
               /\ \A i \in DOMAIN Projected.decisions :
                    Projected.decisions[i].variables \cap moved = {} =>
                      Projected'.decisions[i] = Projected.decisions[i]]_replayVars
  BY WithdrawalStep
<1> QED
  BY <1>1, CallerInvariant, PTL DEF ReplaySpec, WithdrawalIsLocal
=============================================================================
