SPECIFICATION Spec
CONSTANTS
  Nil = Nil
  Manifests <- ValidManifests
  Cassettes <- AllCassettes
  Exponents <- MCExponents
  ApplyTransform <- MCApplyTransform
  Numbers <- MCNumbers
  Objects <- MCObjects
INVARIANTS
  NoStructuralError
  TerminalStatusIsLast
  FailureFollowsTable
  NextActionIsDeclared
  IntegratorMeetsClosedSets
  IntegratorHandles
  MatchedErrorBypassesFlow
  TransportFailureIsUnknown
