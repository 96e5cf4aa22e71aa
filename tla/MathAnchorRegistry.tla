------------------------- MODULE MathAnchorRegistry -------------------------
(***************************************************************************)
(* MathematicalAnchorRegistry (packages/math-anchors/src/registry.ts): two *)
(* maps from an (id, version) key to the first definition accepted under   *)
(* it.  A call that throws changes nothing and is a stuttering step.       *)
(***************************************************************************)
EXTENDS AnchorDefinitions

CONSTANTS
  DomainDefs,   \* the domain definitions callers submit
  AnchorDefs,   \* the anchor definitions callers submit
  Authorities,  \* the authority tags a submitted candidate may carry
  Acceptors     \* the accepting authorities callers name, Blank included

VARIABLES
  domains,  \* #domains: key -> registered definition, or None
  anchors,  \* #anchors: key -> registered anchor, or None
  granted   \* history: what registerAnchor() has returned to each acceptor

registryVars == <<domains, anchors, granted>>

\* `${id}\u0000${version}`: an id never holds the separator, so a key is a pair.
VersionKey(id, version) == <<id, version>>

KeyOf(definition) == VersionKey(definition.id, definition.version)

DomainKeyOf(definition) == VersionKey(definition.domainId, definition.domainVersion)

DomainKeys == {KeyOf(d) : d \in DomainDefs} \cup {DomainKeyOf(a) : a \in AnchorDefs}

AnchorKeys == {KeyOf(a) : a \in AnchorDefs}

Accepted(acceptedBy, definition) ==
  [authority |-> "registered", acceptedBy |-> acceptedBy, definition |-> definition]

RegisteredAnchors ==
  {Accepted(by, a) : by \in Acceptors \ {Blank}, a \in AnchorDefs}

\* None is the undefined that get() returns for a key that is not there.
ASSUME NoneIsNoEntry == None \notin DomainDefs \cup AnchorDefs \cup RegisteredAnchors

TypeOK ==
  /\ domains \in [DomainKeys -> DomainDefs \cup {None}]
  /\ anchors \in [AnchorKeys -> RegisteredAnchors \cup {None}]
  /\ granted \subseteq [acceptor : Acceptors, entry : RegisteredAnchors]

RegistryInit ==
  /\ domains = [k \in DomainKeys |-> None]
  /\ anchors = [k \in AnchorKeys |-> None]
  /\ granted = {}

\* registerDomain(): the same content again returns the entry, other content
\* under a taken key is an identity collision.
RegisterDomain(definition) ==
  LET key == KeyOf(definition)
  IN  /\ ValidDomain(definition)
      /\ domains[key] \in {None, definition}
      /\ domains' = [domains EXCEPT ![key] = definition]
      /\ UNCHANGED <<anchors, granted>>

\* Mutation: acceptance stands in for validation.
AdmitsUnvalidated(authority, definition, acceptedBy) ==
  /\ authority = "candidate"
  /\ acceptedBy # Blank
  /\ Present(domains[DomainKeyOf(definition)])

\* What must hold before registerAnchor() looks at the key.
AdmitsCandidate(authority, definition, acceptedBy) ==
  LET domain == domains[DomainKeyOf(definition)]
  IN  /\ authority = "candidate"
      /\ acceptedBy # Blank
      /\ Present(domain)
      /\ ValidAnchor(definition, domain)

\* Mutation: a taken key is not looked up.
RebindAnchor(authority, definition, acceptedBy) ==
  LET entry == Accepted(acceptedBy, definition)
  IN  /\ AdmitsCandidate(authority, definition, acceptedBy)
      /\ anchors' = [anchors EXCEPT ![KeyOf(definition)] = entry]
      /\ granted' = granted \cup {[acceptor |-> acceptedBy, entry |-> entry]}
      /\ UNCHANGED domains

\* The anchor's first registration: the candidate becomes the entry.
RegisterNewAnchor(authority, definition, acceptedBy) ==
  LET key   == KeyOf(definition)
      entry == Accepted(acceptedBy, definition)
  IN  /\ AdmitsCandidate(authority, definition, acceptedBy)
      /\ anchors[key] = None
      /\ anchors' = [anchors EXCEPT ![key] = entry]
      /\ granted' = granted \cup {[acceptor |-> acceptedBy, entry |-> entry]}
      /\ UNCHANGED domains

\* Mutation: the caller gets a fresh entry in its own name.
GrantAfresh(authority, definition, acceptedBy) ==
  /\ AdmitsCandidate(authority, definition, acceptedBy)
  /\ Present(anchors[KeyOf(definition)])
  /\ anchors[KeyOf(definition)].definition = definition
  /\ granted' = granted \cup
       {[acceptor |-> acceptedBy, entry |-> Accepted(acceptedBy, definition)]}
  /\ UNCHANGED <<domains, anchors>>

\* The same definition again: the existing entry is returned, with the
\* accepting authority of the first registration.
RegisterKnownAnchor(authority, definition, acceptedBy) ==
  LET existing == anchors[KeyOf(definition)]
  IN  /\ AdmitsCandidate(authority, definition, acceptedBy)
      /\ Present(existing)
      /\ existing.definition = definition
      /\ granted' = granted \cup {[acceptor |-> acceptedBy, entry |-> existing]}
      /\ UNCHANGED <<domains, anchors>>

RegistryNext ==
  \/ \E d \in DomainDefs : RegisterDomain(d)
  \/ \E t \in Authorities, a \in AnchorDefs, by \in Acceptors :
       \/ RegisterNewAnchor(t, a, by)
       \/ RegisterKnownAnchor(t, a, by)

RegistrySpec == RegistryInit /\ [][RegistryNext]_registryVars

-----------------------------------------------------------------------------
(* Every registered anchor stands on a registered domain it is valid for,  *)
(* under its own key: what requireRegisteredAnchor() returns needs no      *)
(* second validation, however registrations were interleaved.              *)
AnchorsAreGrounded ==
  \A k \in AnchorKeys : Present(anchors[k]) =>
    LET definition == anchors[k].definition
        domain     == domains[DomainKeyOf(definition)]
    IN  /\ KeyOf(definition) = k
        /\ Present(domain)
        /\ ValidAnchor(definition, domain)

(* An entry handed to a caller stays the authority for its key: nothing    *)
(* registered later replaces its definition or its accepting authority, so *)
(* two callers that registered the same anchor hold the same entry.        *)
GrantsStand ==
  \A g \in granted : anchors[KeyOf(g.entry.definition)] = g.entry

(* A definition is immutable once registered: no step changes or removes   *)
(* an entry of either map.                                                 *)
EntriesAreImmutable ==
  [][ /\ \A k \in DomainKeys : Present(domains[k]) => domains'[k] = domains[k]
      /\ \A k \in AnchorKeys : Present(anchors[k]) => anchors'[k] = anchors[k]
    ]_registryVars
=============================================================================
