SPECIFICATION PairedSpec
CONSTANTS
  Nil = Nil
  Manifests <- AllManifests
  Cassettes <- AllCassettes
  Exponents <- MCExponents
  ApplyTransform <- MCApplyTransform
INVARIANTS
  TypeOK
  StateIsPatched
  CredentialIsAsserted
PROPERTIES
  Returns
