SPECIFICATION Spec
CONSTANTS
  Nil = Nil
  Manifests <- ContractManifests
  Cassettes <- ContractCassettes
  Exponents <- MCExponents
  ApplyTransform <- MCApplyTransform
  Numbers <- MCNumbers
  Objects <- MCObjects
INVARIANTS
  SecondDispatchIsAnError
