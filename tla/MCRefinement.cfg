SPECIFICATION SpecWithArrival
CONSTANTS
  Nil = Nil
  Manifests <- OrderFreeManifests
  Cassettes <- RefinementCassettes
  Exponents <- MCExponents
  ApplyTransform <- MCApplyTransform
PROPERTIES
  ImplementsWalk
