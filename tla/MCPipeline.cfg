SPECIFICATION PipelineSpec
CONSTANTS
  None = None
  MaxNumber = 1000
  DomainDefs <- Domains
  AnchorDefs <- Versions
  Authorities <- Tags
  Acceptors <- Boards
  ObservationSets <- Measured
  EditedValues <- Seventy
  ForeignBundles <- BroughtBundles
  MaxBundles = 7
  MaxSnapshots = 2
INVARIANTS
  AnchorsAreGrounded
  GrantsStand
  ExportsHydrate
  RecordsAreRegistered
  OneElementPerFormalObject
  NothingInvented
PROPERTIES
  ImplementsContract
