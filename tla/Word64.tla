----------------------------- MODULE Word64 -----------------------------
(***************************************************************************)
(* Go's unsigned integer operators on uint32 and uint64, for values TLC's  *)
(* integers cannot hold.  A word is the sequence of its bytes, lowest     *)
(* byte first; every operator wraps modulo 2^(8*Len(w)) as Go's do.       *)
(***************************************************************************)
EXTENDS Naturals, Sequences, SequencesExt, FiniteSetsExt, Bitwise

Words(nb) == [1..nb -> 0..255]

\* The word whose bytes, most significant first, are s (a hex constant).
Word(s) == Reverse(s)

\* The nb-byte word of a natural below 2^31.
Small(nb, v) == [j \in 1..nb |-> IF j <= 4 THEN (v \div 2^(8 * (j - 1))) % 256 ELSE 0]

Zero(nb) == Small(nb, 0)

\* Bit i of w (bit 0 is the least significant).
Bit(w, i) == (w[i \div 8 + 1] \div 2^(i % 8)) % 2

BitsOf(w) == {i \in 0..(8 * Len(w) - 1) : Bit(w, i) = 1}

\* The nb-byte word whose bit i is F(i).
FromBits(nb, F(_)) ==
  [j \in 1..nb |-> MapThenSumSet(LAMBDA b : F(8 * (j - 1) + b) * 2^b, 0..7)]

Shr(w, n) == FromBits(Len(w), LAMBDA i : IF i + n < 8 * Len(w) THEN Bit(w, i + n) ELSE 0)
Shl(w, n) == FromBits(Len(w), LAMBDA i : IF i >= n THEN Bit(w, i - n) ELSE 0)
AndW(a, b) == [j \in DOMAIN a |-> a[j] & b[j]]
OrW(a, b)  == [j \in DOMAIN a |-> a[j] | b[j]]

\* Column sums s to bytes, the carry c entering column j; the last carry is lost.
RECURSIVE Carry(_, _, _)
Carry(s, j, c) ==
  IF j > Len(s) THEN <<>>
  ELSE <<(s[j] + c) % 256>> \o Carry(s, j + 1, (s[j] + c) \div 256)

AddW(a, b) == Carry([j \in DOMAIN a |-> a[j] + b[j]], 1, 0)
MulW(a, b) ==
  Carry([k \in DOMAIN a |-> MapThenSumSet(LAMBDA i : a[i] * b[k + 1 - i], 1..k)], 1, 0)
NegW(a) == AddW([j \in DOMAIN a |-> 255 - a[j]], Small(Len(a), 1))

\* a >= b, compared from the most significant differing byte.
GeW(a, b) ==
  LET d == {j \in DOMAIN a : a[j] # b[j]} IN d = {} \/ a[Max(d)] > b[Max(d)]
====
