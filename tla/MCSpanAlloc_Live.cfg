CONSTANTS
  p1 = p1
  p2 = p2
  s1 = s1
  s2 = s2
  s3 = s3
  Empty = Empty
  P <- MCP
  Spans <- MCSpans2
  SweepgenMod = 8
  SpanBudget = 1
  SpanBytes = 5
  ElemSize = 2
  LargeBytes = 4
  MaxTinySize = 0
  TinySizes = {}
SPECIFICATION Spec
PROPERTY SweepCompletes
