CONSTANTS
  Ks = {0, 3, 13, 63}
  PtrSize = 8
SPECIFICATION WordSpec
INVARIANTS
  TrailingZerosCorrect
  LenCorrect
  OnesCountCorrect
  BswapCorrect
  AlignCorrect
  GoStartCallReturns
