---------------------------- MODULE Intrinsics ----------------------------
(***************************************************************************)
(* The portable bit algorithms of runtime/internal/sys/intrinsics.go, on  *)
(* words of Word64, each checked against a reference definition by bits.  *)
(* PageBits uses TrailingZeros64 and OnesCount64 by what they compute;    *)
(* this module shows that the code computes it.  A state is one input     *)
(* word; the 32- and 8-bit functions take its low bytes.  Tables are       *)
(* indexed from 1 in TLA+, so table[v] in Go is table[v + 1] here.        *)
(***************************************************************************)
EXTENDS Naturals, Sequences, FiniteSets, FiniteSetsExt, Word64

deBruijn32tab == <<0, 1, 28, 2, 29, 14, 24, 3, 30, 22, 20, 15, 25, 17, 4, 8,
    31, 27, 13, 23, 21, 19, 16, 7, 26, 12, 18, 6, 11, 5, 10, 9>>
deBruijn32 == Word(<<\h07, \h7C, \hB5, \h31>>)

deBruijn64tab == <<0, 1, 56, 2, 57, 49, 28, 3, 61, 58, 42, 50, 38, 29, 17, 4,
    62, 47, 59, 36, 45, 43, 51, 22, 53, 39, 33, 30, 24, 18, 12, 5,
    63, 55, 48, 27, 60, 41, 37, 16, 46, 35, 44, 21, 52, 32, 23, 11,
    54, 26, 40, 15, 34, 20, 31, 10, 25, 14, 19, 9, 13, 8, 7, 6>>
deBruijn64 == Word(<<\h03, \hf7, \h9d, \h71, \hb4, \hca, \h8b, \h09>>)

ntz8tab == <<8, 0, 1, 0, 2, 0, 1, 0, 3, 0, 1, 0, 2, 0, 1, 0, 4, 0, 1, 0, 2, 0, 1, 0, 3, 0, 1, 0, 2, 0, 1, 0,
    5, 0, 1, 0, 2, 0, 1, 0, 3, 0, 1, 0, 2, 0, 1, 0, 4, 0, 1, 0, 2, 0, 1, 0, 3, 0, 1, 0, 2, 0, 1, 0,
    6, 0, 1, 0, 2, 0, 1, 0, 3, 0, 1, 0, 2, 0, 1, 0, 4, 0, 1, 0, 2, 0, 1, 0, 3, 0, 1, 0, 2, 0, 1, 0,
    5, 0, 1, 0, 2, 0, 1, 0, 3, 0, 1, 0, 2, 0, 1, 0, 4, 0, 1, 0, 2, 0, 1, 0, 3, 0, 1, 0, 2, 0, 1, 0,
    7, 0, 1, 0, 2, 0, 1, 0, 3, 0, 1, 0, 2, 0, 1, 0, 4, 0, 1, 0, 2, 0, 1, 0, 3, 0, 1, 0, 2, 0, 1, 0,
    5, 0, 1, 0, 2, 0, 1, 0, 3, 0, 1, 0, 2, 0, 1, 0, 4, 0, 1, 0, 2, 0, 1, 0, 3, 0, 1, 0, 2, 0, 1, 0,
    6, 0, 1, 0, 2, 0, 1, 0, 3, 0, 1, 0, 2, 0, 1, 0, 4, 0, 1, 0, 2, 0, 1, 0, 3, 0, 1, 0, 2, 0, 1, 0,
    5, 0, 1, 0, 2, 0, 1, 0, 3, 0, 1, 0, 2, 0, 1, 0, 4, 0, 1, 0, 2, 0, 1, 0, 3, 0, 1, 0, 2, 0, 1, 0>>

\* x & -x isolates the lowest set bit; the multiply puts a distinct
\* 5- or 6-bit pattern in the top bits, which the table maps back.
TrailingZeros32(x) ==
  IF x = Zero(4) THEN 32
  ELSE deBruijn32tab[Shr(MulW(AndW(x, NegW(x)), deBruijn32), 32 - 5)[1] + 1]

TrailingZeros64Shift5(x) ==
  IF x = Zero(8) THEN 64
  ELSE deBruijn64tab[Shr(MulW(AndW(x, NegW(x)), deBruijn64), 64 - 5)[1] + 1]

TrailingZeros64(x) ==
  IF x = Zero(8) THEN 64
  ELSE deBruijn64tab[Shr(MulW(AndW(x, NegW(x)), deBruijn64), 64 - 6)[1] + 1]

TrailingZeros8(x) == ntz8tab[x + 1]

len8tab == <<0, 1, 2, 2, 3, 3, 3, 3, 4, 4, 4, 4, 4, 4, 4, 4, 5, 5, 5, 5, 5, 5, 5, 5, 5, 5, 5, 5, 5, 5, 5, 5,
    6, 6, 6, 6, 6, 6, 6, 6, 6, 6, 6, 6, 6, 6, 6, 6, 6, 6, 6, 6, 6, 6, 6, 6, 6, 6, 6, 6, 6, 6, 6, 6,
    7, 7, 7, 7, 7, 7, 7, 7, 7, 7, 7, 7, 7, 7, 7, 7, 7, 7, 7, 7, 7, 7, 7, 7, 7, 7, 7, 7, 7, 7, 7, 7,
    7, 7, 7, 7, 7, 7, 7, 7, 7, 7, 7, 7, 7, 7, 7, 7, 7, 7, 7, 7, 7, 7, 7, 7, 7, 7, 7, 7, 7, 7, 7, 7,
    8, 8, 8, 8, 8, 8, 8, 8, 8, 8, 8, 8, 8, 8, 8, 8, 8, 8, 8, 8, 8, 8, 8, 8, 8, 8, 8, 8, 8, 8, 8, 8,
    8, 8, 8, 8, 8, 8, 8, 8, 8, 8, 8, 8, 8, 8, 8, 8, 8, 8, 8, 8, 8, 8, 8, 8, 8, 8, 8, 8, 8, 8, 8, 8,
    8, 8, 8, 8, 8, 8, 8, 8, 8, 8, 8, 8, 8, 8, 8, 8, 8, 8, 8, 8, 8, 8, 8, 8, 8, 8, 8, 8, 8, 8, 8, 8,
    8, 8, 8, 8, 8, 8, 8, 8, 8, 8, 8, 8, 8, 8, 8, 8, 8, 8, 8, 8, 8, 8, 8, 8, 8, 8, 8, 8, 8, 8, 8, 8>>

\* One "if x >= 1<<k { x >>= k; n += k }" of Len64 on s = <<x, n>>.
Len64StepStrict(s, k) ==
  IF GeW(s[1], Shl(Small(8, 1), k)) /\ s[1] # Shl(Small(8, 1), k)
  THEN <<Shr(s[1], k), s[2] + k>> ELSE s

Len64Step(s, k) ==
  IF GeW(s[1], Shl(Small(8, 1), k)) THEN <<Shr(s[1], k), s[2] + k>> ELSE s

Len64(x) ==
  LET s == Len64Step(Len64Step(Len64Step(<<x, 0>>, 32), 16), 8)
  IN  s[2] + len8tab[s[1][1] + 1]

Len8(x) == len8tab[x + 1]
LeadingZeros64(x) == 64 - Len64(x)
LeadingZeros8(x)  == 8 - Len8(x)

\* m0, m1, m2; "& m" with m = 1<<64 - 1 leaves a uint64 unchanged.
m0 == Word(<<\h55, \h55, \h55, \h55, \h55, \h55, \h55, \h55>>)
m1 == Word(<<\h33, \h33, \h33, \h33, \h33, \h33, \h33, \h33>>)
m2 == Word(<<\h0f, \h0f, \h0f, \h0f, \h0f, \h0f, \h0f, \h0f>>)

\* Mutant of OnesCount64: the last fold, x += x >> 32, is missing.
OnesCount64NoFold32(x) ==
  LET x1 == AddW(AndW(Shr(x, 1), m0), AndW(x, m0))
      x2 == AddW(AndW(Shr(x1, 2), m1), AndW(x1, m1))
      x3 == AndW(AddW(Shr(x2, 4), x2), m2)
      x4 == AddW(x3, Shr(x3, 8))
      x5 == AddW(x4, Shr(x4, 16))
  IN  x5[1] & 127

\* Sums of 1, 2, 4, then 8 bits side by side; the total is in the low 7 bits.
OnesCount64(x) ==
  LET x1 == AddW(AndW(Shr(x, 1), m0), AndW(x, m0))
      x2 == AddW(AndW(Shr(x1, 2), m1), AndW(x1, m1))
      x3 == AndW(AddW(Shr(x2, 4), x2), m2)
      x4 == AddW(x3, Shr(x3, 8))
      x5 == AddW(x4, Shr(x4, 16))
      x6 == AddW(x5, Shr(x5, 32))
  IN  x6[1] & 127

\* Mutant of BswapStep: the high half is not masked.
BswapStepNoMask(x, c, k) == OrW(Shr(x, k), Shl(AndW(x, c), k))

\* a := x >> k & c; b := (x & c) << k; x = a | b
BswapStep(x, c, k) == OrW(AndW(Shr(x, k), c), Shl(AndW(x, c), k))

Bswap64(x) ==
  BswapStep(BswapStep(BswapStep(x, Word(<<0, 255, 0, 255, 0, 255, 0, 255>>), 8),
                      Word(<<0, 0, 255, 255, 0, 0, 255, 255>>), 16),
            Word(<<0, 0, 0, 0, 255, 255, 255, 255>>), 32)

Bswap32(x) ==
  BswapStep(BswapStep(x, Word(<<0, 255, 0, 255>>), 8), Word(<<0, 0, 255, 255>>), 16)

-----------------------------------------------------------------------------
(***************************************************************************)
(* Inputs: every byte value in the low byte, every single bit, every mask  *)
(* of the low k bits, and a few mixed words.                              *)
(***************************************************************************)
Inputs ==
  {Small(8, v) : v \in 0..255}
  \cup {Shl(Small(8, 1), k) : k \in 0..63}
  \cup {Shr(Word(<<255, 255, 255, 255, 255, 255, 255, 255>>), k) : k \in 0..63}
  \cup {deBruijn64, m0, m2, Word(<<\h01, \h23, \h45, \h67, \h89, \hab, \hcd, \hef>>),
        Word(<<\h80, 0, 0, 0, 0, 0, 0, 1>>), Word(<<0, 0, 0, 1, 0, 0, 0, 0>>)}

VARIABLE x

Init == x \in Inputs

\* Apply the functions to another input.
Next == \E y \in Inputs : x' = y

Spec == Init /\ [][Next]_x

Low32 == SubSeq(x, 1, 4)

\* Reference definitions, bit by bit.
TZRef(w)  == IF BitsOf(w) = {} THEN 8 * Len(w) ELSE Min(BitsOf(w))
LenRef(w) == IF BitsOf(w) = {} THEN 0 ELSE Max(BitsOf(w)) + 1

(***************************************************************************)
(* TrailingZeros8/32/64 (table and de Bruijn multiply) return the index of *)
(* the lowest set bit, and the width for zero.                            *)
(***************************************************************************)
TrailingZerosCorrect ==
  /\ TrailingZeros64(x) = TZRef(x)
  /\ TrailingZeros32(Low32) = TZRef(Low32)
  /\ TrailingZeros8(x[1]) = TZRef(<<x[1]>>)

(***************************************************************************)
(* Len64 (three halving tests, then len8tab), Len8 and LeadingZeros return *)
(* one more than the index of the highest set bit, 0 for zero, including   *)
(* at the test boundaries 1<<32, 1<<16 and 1<<8.                          *)
(***************************************************************************)
LenCorrect ==
  /\ Len64(x) = LenRef(x) /\ LeadingZeros64(x) = 64 - LenRef(x)
  /\ Len8(x[1]) = LenRef(<<x[1]>>) /\ LeadingZeros8(x[1]) = 8 - LenRef(<<x[1]>>)

(***************************************************************************)
(* OnesCount64's SWAR folds count the set bits, up to all 64.             *)
(***************************************************************************)
OnesCountCorrect == OnesCount64(x) = Cardinality(BitsOf(x))

(***************************************************************************)
(* Bswap64 and Bswap32 reverse the order of the bytes.                    *)
(***************************************************************************)
BswapCorrect == Bswap64(x) = Reverse(x) /\ Bswap32(Low32) = Reverse(Low32)
====
