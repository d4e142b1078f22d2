SPECIFICATION Spec
CONSTANTS
  Half = 512
  MaxExponent = 3
  Ten <- MCTen
  Jobs <- ConditionJobs
  Interpolations <- MCInterpolations
  Exponents <- MCExponents
  PlainLimit = 100
  Grain = 2
  TooSmall <- MCLeast
  TooGreat <- MCLeast
  Convert <- MCConvert
  MaxDepth = 5
INVARIANTS
  EqualsNeverCoerces
