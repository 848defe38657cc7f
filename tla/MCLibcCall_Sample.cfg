CONSTANTS
  g1 = g1
  g2 = g2
  GSignal = GSignal
  None = None
  G <- MCG

SPECIFICATION Spec

INVARIANT SampleConsistent
