----------------------------- MODULE SpanOwner -----------------------------
(***************************************************************************)
(* What the span protocol of mcache.go and mcentral.go promises, without  *)
(* sweep generations, span sets or refill's intermediate steps.  Every    *)
(* span has one owner: the heap, the small class's mcentral, the large    *)
(* object list, or one P.  live[s] is the number of objects of s that are *)
(* still reachable.  Objects are allocated only from the span a P owns,   *)
(* they die only when a GC cycle marks, and a span goes back to the heap  *)
(* only when none of its objects is live.                                 *)
(***************************************************************************)
EXTENDS Naturals

CONSTANTS
  P,        \* the processors
  Spans,    \* the spans
  Nelems    \* the slots of a small-class span

Owners == {"heap", "central", "large"} \cup P

VARIABLES owner, live

vars == <<owner, live>>

Init ==
  /\ owner = [s \in Spans |-> "heap"]
  /\ live = [s \in Spans |-> 0]

Holds(p) == {s \in Spans : owner[s] = p}

\* A P without a span takes one from mcentral or the heap and allocates in it.
Cache(p, s) ==
  /\ Holds(p) = {}
  /\ owner[s] \in {"heap", "central"}
  /\ live[s] < Nelems
  /\ owner' = [owner EXCEPT ![s] = p]
  /\ live' = [live EXCEPT ![s] = @ + 1]

\* A P allocates another object in the span it holds.
Alloc(p, s) ==
  /\ owner[s] = p
  /\ live[s] < Nelems
  /\ live' = [live EXCEPT ![s] = @ + 1]
  /\ UNCHANGED owner

\* A P gives its span back: to mcentral, or to the heap if nothing in it lives.
Uncache(p, s) ==
  /\ owner[s] = p
  /\ \E o \in {"central"} \cup (IF live[s] = 0 THEN {"heap"} ELSE {}) :
       owner' = [owner EXCEPT ![s] = o]
  /\ UNCHANGED live

\* A large object gets a span of its own.
AllocLarge(s) ==
  /\ owner[s] = "heap"
  /\ owner' = [owner EXCEPT ![s] = "large"]
  /\ live' = [live EXCEPT ![s] = 1]

\* A span that mcentral or the large list holds and in which nothing lives
\* is freed to the heap.
Free(s) ==
  /\ owner[s] \in {"central", "large"}
  /\ live[s] = 0
  /\ owner' = [owner EXCEPT ![s] = "heap"]
  /\ UNCHANGED live

\* A GC cycle marks: any objects may turn out to be dead.
Collect ==
  /\ \E l \in [Spans -> 0..Nelems] :
       /\ \A s \in Spans : l[s] <= live[s]
       /\ live' = l
  /\ UNCHANGED owner

Next ==
  \/ \E p \in P, s \in Spans : Cache(p, s) \/ Alloc(p, s) \/ Uncache(p, s)
  \/ \E s \in Spans : AllocLarge(s) \/ Free(s)
  \/ Collect

Spec == Init /\ [][Next]_vars

====
