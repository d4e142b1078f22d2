SPECIFICATION SpecTwice
CONSTANTS
  Nil = Nil
  Manifests <- SwappingManifests
  Cassettes <- SwappingCassettes
  Exponents <- MCExponents
  ApplyTransform <- MCApplyTransform
INVARIANTS
  Deterministic
