----------------------------- MODULE AllocBits -----------------------------
(***************************************************************************)
(* pageCache.alloc and allocN (PageBits) on one cache, from every cache   *)
(* and scav mask with scav inside cache, for every npages up to W: each   *)
(* call is checked against a first-fit reference definition.             *)
(***************************************************************************)
EXTENDS PageBits

VARIABLES
  c,     \* the pageCache
  last   \* the last call: its npages, and the base and scav it returned

vars == <<c, last>>

Init ==
  /\ c \in {r \in [base : {0}, cache : 0..Full, scav : 0..Full] :
              BitSet(r.scav) \subseteq BitSet(r.cache)}
  /\ last = [n |-> 0, base |-> NoBase, scav |-> 0]

\* One c.alloc(npages) call.
Alloc(n) ==
  LET r == alloc(c, n) IN
  /\ c' = r.next
  /\ last' = [n |-> n, base |-> r.base, scav |-> r.scav]

Next == \E n \in 1..W : Alloc(n)

Spec == Init /\ [][Next]_vars

\* Reference: the lowest bit index starting n set bits, or NoBase.
FirstFit(x, n) ==
  LET fits == {i \in 0..(W - n) : i..(i + n - 1) \subseteq BitSet(x)} IN
  IF fits = {} THEN NoBase ELSE Min(fits)

TypeOK ==
  /\ c \in [base : {0}, cache : 0..Full, scav : 0..Full]
  /\ last \in [n : 0..W, base : {NoBase} \cup 0..(W - 1), scav : 0..W]

(***************************************************************************)
(* Spec 4.3 and 8: alloc(n) (TrailingZeros for one page, findBitRange64   *)
(* and the shifted mask for more, up to npages = 64 where the shift      *)
(* wraps) returns the lowest run of n free pages, or fails exactly when  *)
(* there is none; it clears exactly that run in cache and scav and       *)
(* reports how many of its pages were scavenged.                          *)
(***************************************************************************)
AllocFirstFit ==
  [][LET n   == last'.n
         i   == FirstFit(c.cache, n)
         run == IF i = NoBase THEN {} ELSE i..(i + n - 1)
     IN /\ last'.base = IF i = NoBase THEN NoBase ELSE c.base + i
        /\ BitSet(c'.cache) = BitSet(c.cache) \ run
        /\ BitSet(c'.scav) = BitSet(c.scav) \ run
        /\ last'.scav = Cardinality(BitSet(c.scav) \cap run)]_vars

====
