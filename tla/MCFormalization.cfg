SPECIFICATION ReplaySpec
CONSTANTS
  None = None
  MaxNumber = 1000
  Contracts <- MCContracts
  Statements <- MCStatements
INVARIANTS
  AdmittedEvidenceReplays
  TraceCitesItsEvidence
PROPERTIES
  OrderIsImmaterial
  WithdrawalIsLocal
CHECK_DEADLOCK FALSE
