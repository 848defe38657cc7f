CONSTANTS
  Exes <- MCExes
  Dsyms <- MCDsyms
  Rounds = {1, 8}
  MaxOut = 40
SPECIFICATION Spec
INVARIANTS OffsetsPreserved DwarfSegmentPlaced
CHECK_DEADLOCK FALSE
