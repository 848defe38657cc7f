---------------------------- MODULE MCSpanAlloc ----------------------------
(***************************************************************************)
(* Model of SpanAlloc for TLC: two Ps, three spans, a small class of two *)
(* 2-byte slots in a 5-byte span (one byte of tail waste), a span budget *)
(* of one so that the budget runs out, and sweepgen modulo 8.           *)
(***************************************************************************)
EXTENDS SpanAlloc, TLC

CONSTANTS p1, p2, s1, s2, s3

MCP      == {p1, p2}
MCSpans  == {s1, s2, s3}
MCSpans2 == {s1, s2}
Symmetry == Permutations(MCP) \cup Permutations(MCSpans)
=============================================================================
