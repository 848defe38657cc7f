---------------------------- MODULE RuntimeStubs ----------------------------
(***************************************************************************)
(* The runtime's uintptr helpers in stubs.go (alignUp, alignDown,          *)
(* divRoundUp) and gostartcall (sys_x86.go), as operators on 64-bit words  *)
(* (Word64), checked against reference definitions over inputs near 0 and *)
(* near 2^64, where the additions wrap.  It extends Intrinsics so that one *)
(* run applies both files' word algorithms to the union of their inputs.  *)
(***************************************************************************)
EXTENDS Intrinsics

CONSTANTS
  Ks,        \* the exponents k of the alignments a = 1 << k
  PtrSize    \* goarch.PtrSize: 8 on amd64, 4 on 386

\* 1 << k.
Pow(k) == [j \in 1..8 |-> IF j = k \div 8 + 1 THEN 2^(k % 8) ELSE 0]
One    == Small(8, 1)
SubW(a, b) == AddW(a, NegW(b))

\* n &^ m: n with the bits of m cleared.
AndNotW(n, m) == AndW(n, [j \in DOMAIN m |-> 255 - m[j]])

\* A plausible slip: rounding n + a instead of n + a - 1.
alignUpPlusA(n, a) == AndNotW(AddW(n, a), SubW(a, One))

\* alignUp: (n + a - 1) &^ (a - 1).
alignUp(n, a) == AndNotW(AddW(n, SubW(a, One)), SubW(a, One))

\* alignDown: n &^ (a - 1).
alignDown(n, a) == AndNotW(n, SubW(a, One))

\* divRoundUp: (n + a - 1) / a; for a = 1 << k the division is the shift.
divRoundUp(n, k) == Shr(AddW(n, SubW(Pow(k), One)), k)

(***************************************************************************)
(* gostartcall: push buf.pc below buf.sp, as if the goroutine had called  *)
(* fn from there, and set pc to fn and ctxt.  mem maps a stack address to *)
(* the word stored there.                                                  *)
(***************************************************************************)
\* A variant that stores the return address at buf.sp itself.
gostartcallNoDec(buf, mem, fn, ctxt) ==
  [mem |-> (buf.sp :> buf.pc) @@ mem,
   buf |-> [buf EXCEPT !.pc = fn, !.ctxt = ctxt]]

gostartcall(buf, mem, fn, ctxt) ==
  LET sp == SubW(buf.sp, Small(8, PtrSize)) IN
  [mem |-> (sp :> buf.pc) @@ mem,
   buf |-> [buf EXCEPT !.sp = sp, !.pc = fn, !.ctxt = ctxt]]

\* The RET instruction that ends fn: pop the return address.
Ret(buf, mem) == [buf EXCEPT !.pc = mem[buf.sp], !.sp = AddW(buf.sp, Small(8, PtrSize))]

-----------------------------------------------------------------------------
(***************************************************************************)
(* Inputs: besides the intrinsics' inputs (every n below 256 among them), *)
(* every n above 2^64 - 65, the words around 2^64 - 8192 and 2^63, and a *)
(* few mixed words.                                                       *)
(***************************************************************************)
StubInputs ==
  {NegW(Small(8, v)) : v \in 1..64 \cup 8191..8193}
  \cup {AddW(Pow(63), Small(8, v)) : v \in {1, 8191}}
  \cup {Word(<<\h01, \h23, \h45, \h67, \h89, \hab, \hcd, \hef>>),
        Word(<<\h80, 0, 0, 0, 0, 0, 0, 0>>), Word(<<0, 0, 0, 0, 0, 0, \h20, 1>>)}

WordInputs == Inputs \cup StubInputs

WordInit == x \in WordInputs

\* Apply the intrinsics and the helpers to another input.
WordNext == \E y \in WordInputs : x' = y

WordSpec == WordInit /\ [][WordNext]_x

\* w is a multiple of 1 << k.
Aligned(w, k) == \A i \in 0..(k - 1) : Bit(w, i) = 0

\* w - v < 1 << k, for w >= v.
Within(w, v, k) == ~GeW(SubW(w, v), Pow(k))

(***************************************************************************)
(* alignDown returns the largest multiple of a at most n.  alignUp returns *)
(* the least multiple of a at least n when there is one below 2^64, that  *)
(* is when n <= 2^64 - a, and otherwise wraps to 0.  divRoundUp returns   *)
(* the ceiling of n / a when n + a - 1 does not wrap.  The code's callers *)
(* rely on these for page and chunk arithmetic (mpagecache.go's window    *)
(* base) and for the tiny allocator's offsets.                            *)
(***************************************************************************)
AlignCorrect ==
  \A k \in Ks :
    LET a    == Pow(k)
        up   == alignUp(x, a)
        down == alignDown(x, a)
        q    == divRoundUp(x, k)
    IN  /\ Aligned(down, k) /\ GeW(x, down) /\ Within(x, down, k)
        /\ Aligned(up, k)
        /\ IF GeW(NegW(a), x)
           THEN GeW(up, x) /\ Within(up, x, k)
           ELSE up = Zero(8)
        /\ GeW(AddW(NegW(a), One), x) => Shl(q, k) = up /\ Shr(Shl(q, k), k) = q

(***************************************************************************)
(* After gostartcall, fn runs with ctxt; when fn returns, the goroutine is *)
(* back at the old buf.pc (goexit in newproc1) with the old sp, and the    *)
(* word at the old sp (the caller's frame) was not overwritten, for every *)
(* sp, including one that wraps below 0.                                   *)
(***************************************************************************)
GoStartCallReturns ==
  LET buf  == [sp |-> x, pc |-> "goexit", ctxt |-> "none"]
      r    == gostartcall(buf, x :> "frame", "fn", "ctxt")
      back == Ret(r.buf, r.mem)
  IN  /\ r.buf.pc = "fn" /\ r.buf.ctxt = "ctxt"
      /\ back.pc = "goexit" /\ back.sp = x
      /\ r.mem[x] = "frame"
====
