CONSTANTS
  Exes <- MCExesWrap
  Dsyms <- MCDsyms
  Rounds = {1}
  MaxOut = 40
SPECIFICATION Spec
INVARIANT OffsetsPreserved
CHECK_DEADLOCK FALSE
