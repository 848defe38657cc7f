CONSTANT W = 6

SPECIFICATION Spec

INVARIANT TypeOK

PROPERTY AllocFirstFit
