------------------------------ MODULE PageBits ------------------------------
(***************************************************************************)
(* The pageCache's bit operations (runtime/mpagecache.go) on W-bit words, *)
(* W standing for pageCachePages = 64: alloc, allocN and the helpers they *)
(* call.  A pageCache is a record [base, cache, scav]; base is a page     *)
(* number, and a failed allocation returns NoBase where the code returns  *)
(* address 0 (page 0 is a real page in the models).                       *)
(***************************************************************************)
EXTENDS Integers, FiniteSets, FiniteSetsExt, Bitwise

CONSTANT W   \* pages per window (pageCachePages)

NoBase == -1        \* the code's base address 0
Full   == 2^W - 1   \* all W bits set

(***************************************************************************)
(* Bit operations on W-bit words, by what they compute.                   *)
(***************************************************************************)
Bit(x, i)        == (x \div 2^i) % 2
BitSet(x)        == {i \in 0..(W - 1) : Bit(x, i) = 1}
Word(S)          == MapThenSumSet(LAMBDA i : 2^i, S)
AndNot(x, m)     == x - (x & m)                          \* x &^ m
OnesCount(x)     == Cardinality(BitSet(x))               \* sys.OnesCount64
TrailingZeros(x) == IF x = 0 THEN W ELSE Min(BitSet(x))  \* sys.TrailingZeros64
PagesOf(base, x) == {base + i : i \in BitSet(x)}

(***************************************************************************)
(* findBitRange64 (mpallocbits.go): shrink every run of 1s by n-1 bits,   *)
(* doubling the shift while the runs of 0s grow, then take the lowest 1.  *)
(***************************************************************************)
RECURSIVE shrinkRuns(_, _, _)
shrinkRuns(c, p, k) ==
  IF p = 0 THEN c
  ELSE IF p <= k THEN c & (c \div 2^p)
  ELSE LET c2 == c & (c \div 2^k) IN
       IF c2 = 0 THEN 0 ELSE shrinkRuns(c2, p - k, 2 * k)

findBitRange(c, n) == TrailingZeros(shrinkRuns(c, n - 1, 1))

\* Mutant of RunMask: the run is built from npages-1 ones.
RunMaskShort(n, i) == ((((2^(n - 1) % 2^W) - 1 + 2^W) % 2^W) * 2^i) % 2^W

\* ((uint64(1) << npages) - 1) << i, with the unsigned wrap at width W.
RunMask(n, i) == ((((2^n % 2^W) - 1 + 2^W) % 2^W) * 2^i) % 2^W

Failed(c) == [base |-> NoBase, scav |-> 0, next |-> c]

\* Mutant of alloc1: the cache bit of the page handed out is not cleared.
alloc1KeepsCacheBit(c) ==
  LET i == TrailingZeros(c.cache) IN
  [base |-> c.base + i, scav |-> Bit(c.scav, i),
   next |-> [c EXCEPT !.scav = AndNot(@, 2^i)]]

\* Mutant of alloc1: "c.scav &^= 1 << i" is left out.
alloc1KeepsScavBit(c) ==
  LET i == TrailingZeros(c.cache) IN
  [base |-> c.base + i, scav |-> Bit(c.scav, i),
   next |-> [c EXCEPT !.cache = AndNot(@, 2^i)]]

\* The npages == 1 path of pageCache.alloc: the lowest free page.
alloc1(c) ==
  LET i == TrailingZeros(c.cache) IN
  [base |-> c.base + i, scav |-> Bit(c.scav, i),
   next |-> [c EXCEPT !.cache = AndNot(@, 2^i), !.scav = AndNot(@, 2^i)]]

\* Mutant of allocN: "if i >= 64" read as "if i > 64".
allocNPastEnd(c, n) ==
  LET i == findBitRange(c.cache, n) IN
  IF i > W THEN Failed(c)
  ELSE LET mask == RunMask(n, i) IN
       [base |-> c.base + i, scav |-> OnesCount(c.scav & mask),
        next |-> [c EXCEPT !.cache = AndNot(@, mask), !.scav = AndNot(@, mask)]]

\* pageCache.allocN: the lowest run of n free pages, if any.
allocN(c, n) ==
  LET i == findBitRange(c.cache, n) IN
  IF i >= W THEN Failed(c)
  ELSE LET mask == RunMask(n, i) IN
       [base |-> c.base + i, scav |-> OnesCount(c.scav & mask),
        next |-> [c EXCEPT !.cache = AndNot(@, mask), !.scav = AndNot(@, mask)]]

\* pageCache.alloc: the result's base (NoBase on failure), the number of
\* scavenged pages it covers and the cache left behind.
alloc(c, n) ==
  IF c.cache = 0 THEN Failed(c)
  ELSE IF n = 1 THEN alloc1(c)
  ELSE allocN(c, n)

====
