SPECIFICATION CommandSpec
CONSTANTS
  Nil = Nil
  Rank <- MCRank
  Repositories <- AllRepositories
  CommandLines <- AllCommandLines
  Encodable <- MCEncodable
  Manifests <- AllManifests
  Cassettes = {}
  Exponents <- MCExponents
  ApplyTransform <- MCApplyTransform
  Numbers <- MCNumbers
  Objects <- MCObjects
INVARIANTS
  ExitIsEarned
  EveryCassetteIsReported
  EveryOperationIsShown
  EveryOperationIsHandled
  LintVouchesForCatalog
  EveryFailureHasMessage
  TemplateInOrder
PROPERTIES
  CommandEnds
