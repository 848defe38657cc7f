CONSTANTS
  p1 = p1
  p2 = p2
  s1 = s1
  s2 = s2
  s3 = s3
  Empty = Empty
  P <- MCP
  Spans <- MCSpans2
  SweepgenMod = 8
  SpanBudget = 1
  SpanBytes = 9
  ElemSize = 4
  LargeBytes = 8
  MaxTinySize = 4
  TinySizes = {1, 2}
SYMMETRY Symmetry
SPECIFICATION Spec
INVARIANTS
  StatsExact
  TinyBlockCurrent
PROPERTY ImplementsSpanOwner
