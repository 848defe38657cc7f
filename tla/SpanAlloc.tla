----------------------------- MODULE SpanAlloc -----------------------------
(***************************************************************************)
(* The span protocol between the per-P caches (mcache.go) and the central *)
(* free lists (mcentral.go) of the Go runtime allocator, together with    *)
(* the collaborators that share the spans with them: the background       *)
(* sweeper and the page reclaimer (mgcsweep.go, mheap.go), the start of a *)
(* GC cycle (mgc.go) and the allocation fast path (malloc.go).  Those     *)
(* files are not part of this repository; their definitions below are     *)
(* taken from the spec and marked "environment".                          *)
(*                                                                         *)
(* Data is abstracted to what the sweep protocol tells apart: a span is a *)
(* model value with a sweep generation, a count of allocated slots and a  *)
(* count of slots found dead by the last mark; a size class holds         *)
(* nelems = SpanBytes \div ElemSize slots.  One small size class and the  *)
(* large-object class (span class 0) are modelled.                        *)
(***************************************************************************)
EXTENDS Integers, Sequences, FiniteSets, FiniteSetsExt

CONSTANTS
  P,            \* the processors, each owning one mcache
  Spans,        \* the slab of spans the heap can hand out
  Empty,        \* &emptymspan, the placeholder in an unused mcache slot
  SweepgenMod,  \* sweepgen is a uint32: arithmetic on it is modulo 2^32
  SpanBudget,   \* spanBudget in cacheSpan (100 in the code)
  SpanBytes,    \* class_to_allocnpages * _PageSize of the small class
  ElemSize,     \* class_to_size of the small class
  LargeBytes,   \* npages * pageSize of a large object
  MaxTinySize,  \* maxTinySize: a tiny block is one slot of the small class
  TinySizes     \* sizes of the pointer-free objects mallocgc combines ({}: none)

ASSUME SweepgenMod >= 8 /\ SweepgenMod % 4 = 0
ASSUME SpanBudget \in Nat /\ ElemSize \in Nat \ {0} /\ LargeBytes \in Nat
ASSUME Empty \notin Spans

nelems == SpanBytes \div ElemSize
ASSUME nelems >= 1

Classes == {"small", "large"}
SetIds  == Classes \X {"partial", "full"} \X {0, 1}
Errors  == {"none", "out of memory", "refill of span with free space remaining",
            "bad sweepgen in refill", "uncaching span but s.allocCount == 0",
            "span has no free objects", "bad flushGen"}
PCs     == {"Idle", "RefillStats", "CacheSpan", "PartialUnswept",
            "FullUnswept", "Grow"}

VARIABLES
  sweepgen,              \* mheap_.sweepgen
  sgen,                  \* s.sweepgen of every span
  kind,                  \* "free" (owned by the heap), "small" or "large"
  allocCount,            \* s.allocCount
  dead,                  \* allocated slots the last mark found unreachable
  allocCountBeforeCache, \* s.allocCountBeforeCache
  sets,                  \* mcentral partial[2] and full[2] of each class
  alloc,                 \* c.alloc[spc] of the small class, per P
  flushGen,              \* c.flushGen, per P
  pc,                    \* where each P is inside refill / cacheSpan
  held,                  \* the span refill has just uncached
  budget,                \* spanBudget of the running cacheSpan
  heapLive,              \* gcController.heapLive
  sweepDrained,          \* sweep.active has been marked drained
  err,                   \* the message of the throw that ended the process
  tiny,                  \* c.tiny: NoTiny, or the sweepgen at which its block was taken
  tinyoffset,            \* c.tinyoffset
  tinyAllocs,            \* c.tinyAllocs
  unflushedSlots,        \* slots mallocgc took that memstats' smallAllocCount lacks
  unflushedTiny          \* tiny allocations that memstats' tinyAllocCount lacks

vars == <<sweepgen, sgen, kind, allocCount, dead, allocCountBeforeCache,
          sets, alloc, flushGen, pc, held, budget, heapLive, sweepDrained, err,
          tiny, tinyoffset, tinyAllocs, unflushedSlots, unflushedTiny>>

\* The mcache's tiny allocator state and the tiny half of the stats.
tinyVars == <<tiny, tinyoffset, tinyAllocs, unflushedTiny>>

NoTiny == -1   \* c.tiny == 0

(***************************************************************************)
(* Generation arithmetic and the generation-indexed span sets.            *)
(***************************************************************************)
Gen(k) == (sweepgen + k + SweepgenMod) % SweepgenMod

partialSwept(c)   == <<c, "partial", (sweepgen \div 2) % 2>>
partialUnswept(c) == <<c, "partial", 1 - ((sweepgen \div 2) % 2)>>
fullSwept(c)      == <<c, "full", (sweepgen \div 2) % 2>>
fullUnswept(c)    == <<c, "full", 1 - ((sweepgen \div 2) % 2)>>

Push(q, id, s) == [q EXCEPT ![id] = Append(@, s)]
Pop(q, id)     == [q EXCEPT ![id] = Tail(@)]

\* sweepLocker.tryAcquire: only a span of state sweepgen-2 can be claimed.
tryAcquire(s) == sgen[s] = Gen(-2)

Size(s) == IF kind[s] = "large" THEN LargeBytes ELSE ElemSize

Throw(msg) == err' = msg /\ UNCHANGED <<sweepgen, sgen, kind, allocCount, dead,
                 allocCountBeforeCache, sets, alloc, flushGen, pc, held,
                 budget, heapLive, sweepDrained, unflushedSlots, tinyVars>>

Running(p) == err = "none" /\ flushGen[p] = sweepgen /\ pc[p] = "Idle"

(***************************************************************************)
(* Environment: mspan.sweep(false).  The dead slots are freed; an empty   *)
(* span goes back to the heap, any other one onto the swept list that     *)
(* fits it.  q is the value of the span sets after the caller's pops.     *)
(***************************************************************************)
sweep(s, q) ==
  LET n == allocCount[s] - dead[s] IN
  /\ allocCount' = [allocCount EXCEPT ![s] = n]
  /\ dead' = [dead EXCEPT ![s] = 0]
  /\ sgen' = [sgen EXCEPT ![s] = sweepgen]
  /\ kind' = IF n = 0 THEN [kind EXCEPT ![s] = "free"] ELSE kind
  /\ sets' = CASE n = 0 -> q
               [] kind[s] = "small" /\ n < nelems -> Push(q, partialSwept("small"), s)
               [] OTHER -> Push(q, fullSwept(kind[s]), s)

\* Mutant of uncacheSpan: "int(s.nelems)-int(s.allocCount) > 0" read as ">= 0".
uncacheSpanFullAsPartial(s, q) ==
  IF sgen[s] = Gen(1)
  THEN sweep(s, q)
  ELSE /\ sgen' = [sgen EXCEPT ![s] = sweepgen]
       /\ sets' = IF nelems - allocCount[s] >= 0
                  THEN Push(q, partialSwept("small"), s)
                  ELSE Push(q, fullSwept("small"), s)
       /\ UNCHANGED <<allocCount, dead, kind>>

(***************************************************************************)
(* mcentral.uncacheSpan, after its allocCount == 0 check.  A stale span   *)
(* (cached before this sweep phase began) is swept on the spot; any other *)
(* one is marked swept and pushed on the partial or full swept set.       *)
(***************************************************************************)
uncacheSpan(s, q) ==
  IF sgen[s] = Gen(1)
  THEN sweep(s, q)
  ELSE /\ sgen' = [sgen EXCEPT ![s] = sweepgen]
       /\ sets' = IF nelems - allocCount[s] > 0
                  THEN Push(q, partialSwept("small"), s)
                  ELSE Push(q, fullSwept("small"), s)
       /\ UNCHANGED <<allocCount, dead, kind>>

(***************************************************************************)
(* The havespan tail of cacheSpan and the tail of refill: s has been      *)
(* obtained with n allocated slots, d of them dead (0 once swept).        *)
(* refill marks it cached (sweepgen+3), snapshots allocCount, adds its    *)
(* free bytes to heapLive and installs it; mallocgc then takes one slot   *)
(* from it in the same non-preemptible call.                              *)
(***************************************************************************)
haveSpan(p, s, n, d, q) ==
  IF n = nelems
  THEN Throw("span has no free objects")
  ELSE /\ sgen' = [sgen EXCEPT ![s] = Gen(3)]
       /\ kind' = [kind EXCEPT ![s] = "small"]
       /\ allocCount' = [allocCount EXCEPT ![s] = n + 1]
       /\ dead' = [dead EXCEPT ![s] = d]
       /\ allocCountBeforeCache' = [allocCountBeforeCache EXCEPT ![s] = n]
       /\ unflushedSlots' = unflushedSlots + 1
       /\ heapLive' = heapLive + SpanBytes - n * ElemSize
       /\ alloc' = [alloc EXCEPT ![p] = s]
       /\ sets' = q
       /\ pc' = [pc EXCEPT ![p] = "Idle"]
       /\ budget' = [budget EXCEPT ![p] = SpanBudget]
       /\ UNCHANGED <<sweepgen, flushGen, held, sweepDrained, err, tinyVars>>

-----------------------------------------------------------------------------
Init ==
  /\ sweepgen = 0
  /\ sgen = [s \in Spans |-> 0]
  /\ kind = [s \in Spans |-> "free"]
  /\ allocCount = [s \in Spans |-> 0]
  /\ dead = [s \in Spans |-> 0]
  /\ allocCountBeforeCache = [s \in Spans |-> 0]
  /\ sets = [id \in SetIds |-> <<>>]
  /\ alloc = [p \in P |-> Empty]           \* allocmcache
  /\ flushGen = [p \in P |-> 0]            \* allocmcache
  /\ pc = [p \in P |-> "Idle"]
  /\ held = [p \in P |-> Empty]
  /\ budget = [p \in P |-> SpanBudget]
  /\ heapLive = 0
  /\ sweepDrained = TRUE
  /\ err = "none"
  /\ tiny = [p \in P |-> NoTiny]          \* allocmcache: the mcache is zeroed
  /\ tinyoffset = [p \in P |-> 0]
  /\ tinyAllocs = [p \in P |-> 0]
  /\ unflushedSlots = 0
  /\ unflushedTiny = 0

\* Mutant of Allocate: the allocCache is trusted even when the span is full.
AllocateUnchecked(p) ==
  /\ Running(p)
  /\ alloc[p] # Empty
  /\ allocCount' = [allocCount EXCEPT ![alloc[p]] = @ + 1]
  /\ unflushedSlots' = unflushedSlots + 1
  /\ UNCHANGED <<sweepgen, sgen, kind, dead, allocCountBeforeCache, sets,
                 alloc, flushGen, pc, held, budget, heapLive, sweepDrained, err, tinyVars>>

(***************************************************************************)
(* Environment: mallocgc's nextFreeFast takes a free slot of the cached   *)
(* span without any lock.                                                  *)
(***************************************************************************)
Allocate(p) ==
  /\ Running(p)
  /\ alloc[p] # Empty
  /\ allocCount[alloc[p]] < nelems
  /\ allocCount' = [allocCount EXCEPT ![alloc[p]] = @ + 1]
  /\ unflushedSlots' = unflushedSlots + 1
  /\ UNCHANGED <<sweepgen, sgen, kind, dead, allocCountBeforeCache, sets,
                 alloc, flushGen, pc, held, budget, heapLive, sweepDrained, err, tinyVars>>

\* alignUp (stubs.go): (n + a - 1) &^ (a - 1), for a a power of two.
alignUp(n, a) == (n + a - 1) - ((n + a - 1) % a)

\* The alignment mallocgc's tiny path gives an object of this size (64-bit).
TinyAlign(size) ==
  CASE size % 8 = 0 -> 8
    [] size % 4 = 0 -> 4
    [] size % 2 = 0 -> 2
    [] OTHER        -> 1

(***************************************************************************)
(* Environment: mallocgc's tiny allocator.  A pointer-free object of     *)
(* `size` goes into the current tiny block if it fits after alignment;    *)
(* otherwise a new maxTinySize block is taken from the cached span with   *)
(* nextFreeFast, and it replaces c.tiny if it leaves more room.  A full   *)
(* span sends the P through refill first.                                 *)
(***************************************************************************)
TinyAlloc(p, size) ==
  LET off == alignUp(tinyoffset[p], TinyAlign(size))
      s   == alloc[p]
  IN
  /\ Running(p)
  /\ IF off + size <= MaxTinySize /\ tiny[p] # NoTiny
     THEN /\ tinyoffset' = [tinyoffset EXCEPT ![p] = off + size]
          /\ tinyAllocs' = [tinyAllocs EXCEPT ![p] = @ + 1]
          /\ unflushedTiny' = unflushedTiny + 1
          /\ UNCHANGED <<tiny, allocCount, unflushedSlots>>
     ELSE /\ s # Empty
          /\ allocCount[s] < nelems
          /\ allocCount' = [allocCount EXCEPT ![s] = @ + 1]
          /\ unflushedSlots' = unflushedSlots + 1
          /\ IF size < tinyoffset[p] \/ tiny[p] = NoTiny
             THEN /\ tiny' = [tiny EXCEPT ![p] = sweepgen]
                  /\ tinyoffset' = [tinyoffset EXCEPT ![p] = size]
             ELSE UNCHANGED <<tiny, tinyoffset>>
          /\ UNCHANGED <<tinyAllocs, unflushedTiny>>
  /\ UNCHANGED <<sweepgen, sgen, kind, dead, allocCountBeforeCache, sets, alloc,
                 flushGen, pc, held, budget, heapLive, sweepDrained, err>>

(***************************************************************************)
(* mcache.refill, up to uncacheSpan: mallocgc found no free slot, so the  *)
(* cached span is full (emptymspan counts as full).                       *)
(***************************************************************************)
RefillUncache(p) ==
  LET s == alloc[p] IN
  /\ Running(p)
  /\ IF s = Empty THEN TRUE ELSE allocCount[s] = nelems
  /\ IF s = Empty
     THEN /\ pc' = [pc EXCEPT ![p] = "CacheSpan"]
          /\ UNCHANGED <<sweepgen, sgen, kind, allocCount, dead,
                allocCountBeforeCache, sets, alloc, flushGen, held, budget,
                heapLive, sweepDrained, err, unflushedSlots, tinyVars>>
     ELSE CASE sgen[s] # Gen(3)  -> Throw("bad sweepgen in refill")
            [] allocCount[s] = 0 -> Throw("uncaching span but s.allocCount == 0")
            [] OTHER ->
                 /\ uncacheSpan(s, sets)
                 /\ held' = [held EXCEPT ![p] = s]
                 /\ pc' = [pc EXCEPT ![p] = "RefillStats"]
                 /\ UNCHANGED <<sweepgen, allocCountBeforeCache, alloc,
                                flushGen, budget, heapLive, sweepDrained, err, unflushedSlots, tinyVars>>

(***************************************************************************)
(* mcache.refill after uncacheSpan: it reads the span it no longer owns   *)
(* to count the slots used into smallAllocCount, flushes tinyAllocs (the  *)
(* small class stands for tinySpanClass) and clears                      *)
(* allocCountBeforeCache.                                                 *)
(***************************************************************************)
RefillStats(p) ==
  /\ pc[p] = "RefillStats"
  /\ err = "none"
  /\ unflushedSlots' = unflushedSlots
                         - (allocCount[held[p]] - allocCountBeforeCache[held[p]])
  /\ unflushedTiny' = unflushedTiny - tinyAllocs[p]
  /\ tinyAllocs' = [tinyAllocs EXCEPT ![p] = 0]
  /\ UNCHANGED <<tiny, tinyoffset>>
  /\ allocCountBeforeCache' = [allocCountBeforeCache EXCEPT ![held[p]] = 0]
  /\ pc' = [pc EXCEPT ![p] = "CacheSpan"]
  /\ held' = [held EXCEPT ![p] = Empty]
  /\ UNCHANGED <<sweepgen, sgen, kind, allocCount, dead, sets, alloc,
                 flushGen, budget, heapLive, sweepDrained, err>>

(***************************************************************************)
(* mcentral.cacheSpan: try the partial swept set, then (if sweeping is    *)
(* not done) begin the bounded scan of the unswept sets.                  *)
(***************************************************************************)
CacheSpan(p) ==
  LET id == partialSwept("small") IN
  /\ pc[p] = "CacheSpan"
  /\ err = "none"
  /\ IF sets[id] # <<>>
     THEN haveSpan(p, Head(sets[id]), allocCount[Head(sets[id])], dead[Head(sets[id])],
                   Pop(sets, id))
     ELSE /\ pc' = [pc EXCEPT ![p] = IF sweepDrained THEN "Grow" ELSE "PartialUnswept"]
          /\ budget' = [budget EXCEPT ![p] = SpanBudget]
          /\ UNCHANGED <<sweepgen, sgen, kind, allocCount, dead,
                allocCountBeforeCache, sets, alloc, flushGen, held, heapLive,
                sweepDrained, err, unflushedSlots, tinyVars>>

\* Mutant of CacheSpanPartialUnswept: the claimed span is used without s.sweep(true).
CacheSpanPartialUnsweptNoSweep(p) ==
  LET id == partialUnswept("small")
      s  == Head(sets[id])
  IN
  /\ pc[p] = "PartialUnswept"
  /\ err = "none"
  /\ IF budget[p] < 0 \/ sets[id] = <<>>
     THEN /\ pc' = [pc EXCEPT ![p] = IF budget[p] < 0 THEN "Grow" ELSE "FullUnswept"]
          /\ UNCHANGED <<sweepgen, sgen, kind, allocCount, dead,
                allocCountBeforeCache, sets, alloc, flushGen, held, budget,
                heapLive, sweepDrained, err, unflushedSlots, tinyVars>>
     ELSE IF tryAcquire(s)
     THEN haveSpan(p, s, allocCount[s], dead[s], Pop(sets, id))
     ELSE /\ sets' = Pop(sets, id)
          /\ budget' = [budget EXCEPT ![p] = @ - 1]
          /\ UNCHANGED <<sweepgen, sgen, kind, allocCount, dead,
                allocCountBeforeCache, alloc, flushGen, pc, held, heapLive,
                sweepDrained, err, unflushedSlots, tinyVars>>

\* One iteration of the partial unswept loop: pop, claim, sweep(true), use.
CacheSpanPartialUnswept(p) ==
  LET id == partialUnswept("small")
      s  == Head(sets[id])
  IN
  /\ pc[p] = "PartialUnswept"
  /\ err = "none"
  /\ IF budget[p] < 0 \/ sets[id] = <<>>
     THEN /\ pc' = [pc EXCEPT ![p] = IF budget[p] < 0 THEN "Grow" ELSE "FullUnswept"]
          /\ UNCHANGED <<sweepgen, sgen, kind, allocCount, dead,
                allocCountBeforeCache, sets, alloc, flushGen, held, budget,
                heapLive, sweepDrained, err, unflushedSlots, tinyVars>>
     ELSE IF tryAcquire(s)
     THEN haveSpan(p, s, allocCount[s] - dead[s], 0, Pop(sets, id))
     ELSE
            /\ sets' = Pop(sets, id)
            /\ budget' = [budget EXCEPT ![p] = @ - 1]
            /\ UNCHANGED <<sweepgen, sgen, kind, allocCount, dead,
                  allocCountBeforeCache, alloc, flushGen, pc, held, heapLive,
                  sweepDrained, err, unflushedSlots, tinyVars>>

\* Mutant of CacheSpanFullUnswept: a popped entry is used without tryAcquire.
CacheSpanFullUnsweptNoAcquire(p) ==
  LET id == fullUnswept("small")
      s  == Head(sets[id])
      n  == allocCount[s] - dead[s]
  IN
  /\ pc[p] = "FullUnswept"
  /\ err = "none"
  /\ IF budget[p] < 0 \/ sets[id] = <<>>
     THEN /\ pc' = [pc EXCEPT ![p] = "Grow"]
          /\ UNCHANGED <<sweepgen, sgen, kind, allocCount, dead,
                allocCountBeforeCache, sets, alloc, flushGen, held, budget,
                heapLive, sweepDrained, err, unflushedSlots, tinyVars>>
     ELSE IF n # nelems
     THEN haveSpan(p, s, n, 0, Pop(sets, id))
     ELSE /\ sets' = Pop(sets, id)
          /\ budget' = [budget EXCEPT ![p] = @ - 1]
          /\ UNCHANGED <<sweepgen, sgen, kind, allocCount, dead,
                allocCountBeforeCache, alloc, flushGen, pc, held, heapLive,
                sweepDrained, err, unflushedSlots, tinyVars>>

\* One iteration of the full unswept loop: a span whose sweep frees no slot
\* goes onto the full swept set.
CacheSpanFullUnswept(p) ==
  LET id == fullUnswept("small")
      s  == Head(sets[id])
      n  == allocCount[s] - dead[s]
  IN
  /\ pc[p] = "FullUnswept"
  /\ err = "none"
  /\ IF budget[p] < 0 \/ sets[id] = <<>>
     THEN /\ pc' = [pc EXCEPT ![p] = "Grow"]
          /\ UNCHANGED <<sweepgen, sgen, kind, allocCount, dead,
                allocCountBeforeCache, sets, alloc, flushGen, held, budget,
                heapLive, sweepDrained, err, unflushedSlots, tinyVars>>
     ELSE IF tryAcquire(s) /\ n # nelems
     THEN haveSpan(p, s, n, 0, Pop(sets, id))
     ELSE IF tryAcquire(s)
     THEN
            /\ allocCount' = [allocCount EXCEPT ![s] = n]
            /\ dead' = [dead EXCEPT ![s] = 0]
            /\ sgen' = [sgen EXCEPT ![s] = sweepgen]
            /\ sets' = Push(Pop(sets, id), fullSwept("small"), s)
            /\ budget' = [budget EXCEPT ![p] = @ - 1]
            /\ UNCHANGED <<sweepgen, kind, allocCountBeforeCache, alloc,
                  flushGen, pc, held, heapLive, sweepDrained, err, unflushedSlots, tinyVars>>
     ELSE
            /\ sets' = Pop(sets, id)
            /\ budget' = [budget EXCEPT ![p] = @ - 1]
            /\ UNCHANGED <<sweepgen, sgen, kind, allocCount, dead,
                  allocCountBeforeCache, alloc, flushGen, pc, held, heapLive,
                  sweepDrained, err, unflushedSlots, tinyVars>>

\* mcentral.grow: a fresh span from mheap_.alloc; nil ends in "out of memory".
Grow(p) ==
  /\ pc[p] = "Grow"
  /\ err = "none"
  /\ IF \E s \in Spans : kind[s] = "free"
     THEN \E s \in {t \in Spans : kind[t] = "free"} : haveSpan(p, s, 0, 0, sets)
     ELSE Throw("out of memory")

(***************************************************************************)
(* mcache.allocLarge with mallocgc's allocCount = 1: a dedicated span     *)
(* from the heap, counted in heapLive and published on the full swept set *)
(* of the large class so that the background sweeper sees it.             *)
(***************************************************************************)
AllocLarge(p) ==
  /\ Running(p)
  /\ IF \E s \in Spans : kind[s] = "free"
     THEN \E s \in {t \in Spans : kind[t] = "free"} :
            /\ kind' = [kind EXCEPT ![s] = "large"]
            /\ sgen' = [sgen EXCEPT ![s] = sweepgen]
            /\ allocCount' = [allocCount EXCEPT ![s] = 1]
            /\ dead' = [dead EXCEPT ![s] = 0]
            /\ heapLive' = heapLive + LargeBytes
            /\ sets' = Push(sets, fullSwept("large"), s)
            /\ UNCHANGED <<sweepgen, allocCountBeforeCache, alloc, flushGen,
                           pc, held, budget, sweepDrained, err, unflushedSlots, tinyVars>>
     ELSE Throw("out of memory")

\* Mutant of releaseAll: the slot is not reset to &emptymspan.
releaseAllKeepsSlot(p) ==
  LET s == alloc[p] IN
  IF s = Empty
  THEN UNCHANGED <<sgen, kind, allocCount, dead, allocCountBeforeCache, sets,
                   alloc, heapLive, unflushedSlots>>
  ELSE /\ unflushedSlots' = unflushedSlots - (allocCount[s] - allocCountBeforeCache[s])
       /\ allocCountBeforeCache' = [allocCountBeforeCache EXCEPT ![s] = 0]
       /\ heapLive' = IF sgen[s] # Gen(1)
                      THEN heapLive - (nelems - allocCount[s]) * ElemSize
                      ELSE heapLive
       /\ uncacheSpan(s, sets)
       /\ alloc' = alloc

\* Mutant of releaseAll: the "s.sweepgen != sg+1" test is dropped.
releaseAllIgnoresStale(p) ==
  LET s == alloc[p] IN
  IF s = Empty
  THEN UNCHANGED <<sgen, kind, allocCount, dead, allocCountBeforeCache, sets,
                   alloc, heapLive, unflushedSlots>>
  ELSE /\ unflushedSlots' = unflushedSlots - (allocCount[s] - allocCountBeforeCache[s])
       /\ allocCountBeforeCache' = [allocCountBeforeCache EXCEPT ![s] = 0]
       /\ heapLive' = heapLive - (nelems - allocCount[s]) * ElemSize
       /\ uncacheSpan(s, sets)
       /\ alloc' = [alloc EXCEPT ![p] = Empty]

\* Mutant of releaseAll: the slots used are counted after uncacheSpan, as refill does.
releaseAllCountsAfterUncache(p) ==
  LET s == alloc[p] IN
  IF s = Empty
  THEN UNCHANGED <<sgen, kind, allocCount, dead, allocCountBeforeCache, sets,
                   alloc, heapLive, unflushedSlots>>
  ELSE /\ allocCountBeforeCache' = [allocCountBeforeCache EXCEPT ![s] = 0]
       /\ heapLive' = IF sgen[s] # Gen(1)
                      THEN heapLive - (nelems - allocCount[s]) * ElemSize
                      ELSE heapLive
       /\ uncacheSpan(s, sets)
       /\ unflushedSlots' = unflushedSlots - (allocCount'[s] - allocCountBeforeCache[s])
       /\ alloc' = [alloc EXCEPT ![p] = Empty]

(***************************************************************************)
(* mcache.releaseAll for the cached span: undo refill's overestimate of   *)
(* heapLive unless the span is stale, hand it back with uncacheSpan and   *)
(* reset the slot to emptymspan.  The remaining variables are the         *)
(* caller's.                                                               *)
(***************************************************************************)
releaseAll(p) ==
  LET s == alloc[p] IN
  IF s = Empty
  THEN UNCHANGED <<sgen, kind, allocCount, dead, allocCountBeforeCache, sets,
                   alloc, heapLive, unflushedSlots>>
  ELSE /\ unflushedSlots' = unflushedSlots - (allocCount[s] - allocCountBeforeCache[s])
       /\ allocCountBeforeCache' = [allocCountBeforeCache EXCEPT ![s] = 0]
       /\ heapLive' = IF sgen[s] # Gen(1)
                      THEN heapLive - (nelems - allocCount[s]) * ElemSize
                      ELSE heapLive
       /\ uncacheSpan(s, sets)
       /\ alloc' = [alloc EXCEPT ![p] = Empty]

\* Mutant of releaseAllTiny: c.tiny and c.tinyoffset are not cleared.
releaseAllTinyKeepsBlock(p) ==
  /\ unflushedTiny' = unflushedTiny - tinyAllocs[p]
  /\ tinyAllocs' = [tinyAllocs EXCEPT ![p] = 0]
  /\ UNCHANGED <<tiny, tinyoffset>>

(***************************************************************************)
(* The end of releaseAll: clear the tiny block (c.tiny is a heap pointer  *)
(* the GC does not scan) and flush tinyAllocs into memstats.              *)
(***************************************************************************)
releaseAllTiny(p) ==
  /\ tiny' = [tiny EXCEPT ![p] = NoTiny]
  /\ tinyoffset' = [tinyoffset EXCEPT ![p] = 0]
  /\ unflushedTiny' = unflushedTiny - tinyAllocs[p]
  /\ tinyAllocs' = [tinyAllocs EXCEPT ![p] = 0]

\* Mutant of PrepareForSweep: c.flushGen is not stored after releaseAll.
PrepareForSweepNoStamp(p) ==
  /\ err = "none"
  /\ pc[p] = "Idle"
  /\ flushGen[p] # sweepgen
  /\ CASE flushGen[p] # Gen(-2) -> Throw("bad flushGen")
       [] alloc[p] # Empty /\ allocCount[alloc[p]] = 0 ->
            Throw("uncaching span but s.allocCount == 0")
       [] OTHER ->
            /\ releaseAll(p) /\ releaseAllTiny(p)
            /\ UNCHANGED <<sweepgen, flushGen, pc, held, budget, sweepDrained, err>>

(***************************************************************************)
(* mcache.prepareForSweep, run by every P (acquirep, and forEachP at mark *)
(* termination) between the start of a sweep phase and its next           *)
(* allocation.                                                             *)
(***************************************************************************)
PrepareForSweep(p) ==
  /\ err = "none"
  /\ pc[p] = "Idle"
  /\ flushGen[p] # sweepgen
  /\ CASE flushGen[p] # Gen(-2) -> Throw("bad flushGen")
       [] alloc[p] # Empty /\ allocCount[alloc[p]] = 0 ->
            Throw("uncaching span but s.allocCount == 0")
       [] OTHER ->
            /\ releaseAll(p) /\ releaseAllTiny(p)
            /\ flushGen' = [flushGen EXCEPT ![p] = sweepgen]
            /\ UNCHANGED <<sweepgen, pc, held, budget, sweepDrained, err>>

(***************************************************************************)
(* procresize with the world stopped: freemcache releases the mcache of a *)
(* P being destroyed (releaseAll, without prepareForSweep), and           *)
(* allocmcache gives the P a fresh one stamped with the current sweepgen. *)
(***************************************************************************)
ProcResize(p) ==
  /\ err = "none"
  /\ \A q \in P : pc[q] = "Idle"
  /\ IF alloc[p] # Empty /\ allocCount[alloc[p]] = 0
     THEN Throw("uncaching span but s.allocCount == 0")
     ELSE /\ releaseAll(p) /\ releaseAllTiny(p)
          /\ flushGen' = [flushGen EXCEPT ![p] = sweepgen]
          /\ UNCHANGED <<sweepgen, pc, held, budget, sweepDrained, err>>

(***************************************************************************)
(* Environment: sweepone.  nextSpanForSweep pops the unswept sets, full   *)
(* before partial, class by class; a span it cannot claim was swept by   *)
(* someone else and is dropped.  With nothing left the sweep is drained. *)
(***************************************************************************)
SweepOrder == <<fullUnswept("small"), partialUnswept("small"),
                fullUnswept("large"), partialUnswept("large")>>

\* Mutant of BgSweep: nextSpanForSweep stops before the large-object class.
BgSweepSmallOnly ==
  LET ready == {i \in 1..2 : sets[SweepOrder[i]] # <<>>}
      id    == SweepOrder[Min(ready)]
      s     == Head(sets[id])
  IN
  /\ err = "none"
  /\ ~sweepDrained
  /\ IF ready = {}
     THEN /\ sweepDrained' = TRUE
          /\ UNCHANGED <<sweepgen, sgen, kind, allocCount, dead,
                allocCountBeforeCache, sets, alloc, flushGen, pc, held, budget,
                heapLive, err, unflushedSlots, tinyVars>>
     ELSE /\ IF tryAcquire(s)
             THEN sweep(s, Pop(sets, id))
             ELSE /\ sets' = Pop(sets, id)
                  /\ UNCHANGED <<sgen, kind, allocCount, dead>>
          /\ UNCHANGED <<sweepgen, allocCountBeforeCache, alloc, flushGen, pc,
                         held, budget, heapLive, sweepDrained, err, unflushedSlots, tinyVars>>

BgSweep ==
  LET ready == {i \in 1..Len(SweepOrder) : sets[SweepOrder[i]] # <<>>}
      id    == SweepOrder[Min(ready)]
      s     == Head(sets[id])
  IN
  /\ err = "none"
  /\ ~sweepDrained
  /\ IF ready = {}
     THEN /\ sweepDrained' = TRUE
          /\ UNCHANGED <<sweepgen, sgen, kind, allocCount, dead,
                allocCountBeforeCache, sets, alloc, flushGen, pc, held, budget,
                heapLive, err, unflushedSlots, tinyVars>>
     ELSE /\ IF tryAcquire(s)
             THEN sweep(s, Pop(sets, id))
             ELSE /\ sets' = Pop(sets, id)
                  /\ UNCHANGED <<sgen, kind, allocCount, dead>>
          /\ UNCHANGED <<sweepgen, allocCountBeforeCache, alloc, flushGen, pc,
                         held, budget, heapLive, sweepDrained, err, unflushedSlots, tinyVars>>

(***************************************************************************)
(* Environment: mheap.reclaim.  It finds in-use, unswept spans with no    *)
(* marked object through the page index, claims and sweeps them in place *)
(* (freeing them), and cannot remove them from the unswept set.          *)
(***************************************************************************)
Reclaim(s) ==
  /\ err = "none"
  /\ ~sweepDrained
  /\ kind[s] # "free"
  /\ tryAcquire(s)
  /\ dead[s] = allocCount[s]
  /\ sweep(s, sets)
  /\ UNCHANGED <<sweepgen, allocCountBeforeCache, alloc, flushGen, pc, held,
                 budget, heapLive, sweepDrained, err, unflushedSlots, tinyVars>>

(***************************************************************************)
(* Environment: a GC cycle, from gcStart to gcSweep.  The world is        *)
(* stopped (every P idle), the previous sweep is finished and every       *)
(* mcache was flushed by the previous mark termination.  The mark decides *)
(* which allocated slots are dead, heapLive is reset to the marked bytes  *)
(* and sweepgen advances by 2.                                            *)
(***************************************************************************)
LiveBytes(d) == MapThenSumSet(LAMBDA s : (allocCount[s] - d[s]) * Size(s), Spans)

GCStart ==
  /\ err = "none"
  /\ sweepDrained
  /\ \A p \in P : pc[p] = "Idle" /\ flushGen[p] = sweepgen
  /\ \E d \in [Spans -> 0..nelems] :
       /\ \A s \in Spans : d[s] <= allocCount[s]
       /\ dead' = d
       /\ heapLive' = LiveBytes(d)
  /\ sweepgen' = Gen(2)
  /\ sweepDrained' = FALSE
  /\ UNCHANGED <<sgen, kind, allocCount, allocCountBeforeCache, sets, alloc,
                 flushGen, pc, held, budget, err, unflushedSlots, tinyVars>>

\* A throw ends the process: nothing happens after it.
Crashed == err # "none" /\ UNCHANGED vars

Next ==
  \/ \E p \in P :
       \/ Allocate(p) \/ RefillUncache(p) \/ RefillStats(p) \/ CacheSpan(p)
       \/ CacheSpanPartialUnswept(p) \/ CacheSpanFullUnswept(p) \/ Grow(p)
       \/ AllocLarge(p) \/ PrepareForSweep(p) \/ ProcResize(p)
       \/ \E size \in TinySizes : TinyAlloc(p, size)
  \/ BgSweep
  \/ \E s \in Spans : Reclaim(s)
  \/ GCStart
  \/ Crashed

\* The sweeper, the flush of every mcache and a refill under way always
\* progress; allocation and the start of a GC cycle need not.
Fairness ==
  /\ WF_vars(BgSweep)
  /\ \A p \in P : /\ WF_vars(PrepareForSweep(p))
                  /\ WF_vars(RefillStats(p) \/ CacheSpan(p) \/ Grow(p)
                             \/ CacheSpanPartialUnswept(p) \/ CacheSpanFullUnswept(p))

Spec == Init /\ [][Next]_vars /\ Fairness

-----------------------------------------------------------------------------
(***************************************************************************)
(* Properties.                                                             *)
(***************************************************************************)
TypeOK ==
  /\ sweepgen \in 0..(SweepgenMod - 1) /\ sweepgen % 2 = 0
  /\ sgen \in [Spans -> 0..(SweepgenMod - 1)]
  /\ kind \in [Spans -> {"free"} \cup Classes]
  /\ allocCount \in [Spans -> 0..nelems]
  /\ dead \in [Spans -> 0..nelems]
  /\ allocCountBeforeCache \in [Spans -> 0..nelems]
  /\ sets \in [SetIds -> Seq(Spans)]
  /\ alloc \in [P -> Spans \cup {Empty}]
  /\ flushGen \in [P -> 0..(SweepgenMod - 1)]
  /\ pc \in [P -> PCs]
  /\ held \in [P -> Spans \cup {Empty}]
  /\ budget \in [P -> -1..SpanBudget]
  /\ heapLive \in Int
  /\ sweepDrained \in BOOLEAN
  /\ err \in Errors
  /\ tiny \in [P -> {NoTiny} \cup 0..(SweepgenMod - 1)]
  /\ tinyoffset \in [P -> 0..MaxTinySize]
  /\ tinyAllocs \in [P -> Nat]

SweptIds   == {partialSwept(c) : c \in Classes} \cup {fullSwept(c) : c \in Classes}
UnsweptIds == {partialUnswept(c) : c \in Classes} \cup {fullUnswept(c) : c \in Classes}

Occurrences(q, s) == Cardinality({i \in DOMAIN q : q[i] = s})

\* The mcaches that own s: a slot counts only while its P is not inside refill.
CachedBy(s) == {p \in P : pc[p] = "Idle" /\ alloc[p] = s}

\* Entries of s in the mcentral sets that give ownership: every entry of a
\* swept set, and an entry of an unswept set only while s is still unswept
\* (a span swept in place by the reclaimer leaves a dead entry behind).
ListRefs(s) ==
  MapThenSumSet(LAMBDA id : Occurrences(sets[id], s), SweptIds)
  + IF tryAcquire(s) THEN MapThenSumSet(LAMBDA id : Occurrences(sets[id], s), UnsweptIds)
                     ELSE 0

(***************************************************************************)
(* Span ownership (refill, releaseAll, uncacheSpan, cacheSpan, grow and   *)
(* the sweepers): an in-use span is owned by exactly one mcache or one    *)
(* live entry of one mcentral set, and a span back in the heap by none.   *)
(***************************************************************************)
OwnershipExclusive ==
  \A s \in Spans :
    Cardinality(CachedBy(s)) + ListRefs(s) = IF kind[s] = "free" THEN 0 ELSE 1

(***************************************************************************)
(* The sweep-state encoding of mcentral.go: a span cached by a P is at    *)
(* sweepgen+3, or at sweepgen+1 while that P has not yet run              *)
(* prepareForSweep in this phase; a span in a swept set is at sweepgen;   *)
(* and a span whose state says swept holds no garbage of the last mark,   *)
(* so no mcache ever allocates from a span that was not swept first.      *)
(***************************************************************************)
SweepStateConsistent ==
  /\ \A p \in P : pc[p] = "Idle" /\ alloc[p] # Empty =>
        sgen[alloc[p]] = IF flushGen[p] = sweepgen THEN Gen(3) ELSE Gen(1)
  /\ \A id \in SweptIds : \A i \in DOMAIN sets[id] : sgen[sets[id][i]] = sweepgen
  /\ \A s \in Spans : kind[s] # "free" /\ sgen[s] \in {sweepgen, Gen(3)} => dead[s] = 0

(***************************************************************************)
(* None of the consistency checks of refill, cacheSpan, uncacheSpan and   *)
(* prepareForSweep ever throws; only running out of spans ends the run.   *)
(* refill's free-space throw is its caller's precondition (a guard here), *)
(* and "bad flushGen" cannot arise while GCStart waits for every P to     *)
(* flush, as gcStart does; the other throws are reachable steps.          *)
(***************************************************************************)
NoThrow == err \in {"none", "out of memory"}

(***************************************************************************)
(* refill adds a span's free bytes to heapLive and releaseAll takes back  *)
(* only what is still free, and nothing for a stale span (heapLive was   *)
(* recomputed since): heapLive never falls below the bytes really live.  *)
(***************************************************************************)
HeapLiveOverestimates == heapLive >= LiveBytes(dead)

(***************************************************************************)
(* When a new GC cycle may start (sweep drained, every mcache flushed)    *)
(* every in-use span has been swept in this cycle.                        *)
(***************************************************************************)
SweepDone == sweepDrained /\ \A p \in P : flushGen[p] = sweepgen

SweptWhenDone ==
  SweepDone => \A s \in Spans : kind[s] # "free" => sgen[s] \in {sweepgen, Gen(3)}

(***************************************************************************)
(* Every sweep phase ends: the background sweeper drains the unswept sets *)
(* and every P flushes its mcache, unless the process has died.          *)
(***************************************************************************)
SweepCompletes == ~SweepDone ~> (SweepDone \/ err # "none")

(***************************************************************************)
(* Spec section 8: a span is never present in more than one mcentral set *)
(* at once.  mcentral.go (the comment on partial/full and cacheSpan's     *)
(* failed tryAcquire) keeps dead entries in the unswept sets instead.    *)
(***************************************************************************)
SpanInAtMostOneSet ==
  \A s \in Spans : MapThenSumSet(LAMBDA id : Occurrences(sets[id], s), SetIds) <= 1

(***************************************************************************)
(* refill's comment: heapLive counts every slot of a cached span as used  *)
(* and "when the span gets uncached, we'll fix up this overestimate", so *)
(* once no mcache holds a span heapLive equals the bytes really live.     *)
(***************************************************************************)
HeapLiveExactWhenUncached ==
  (\A p \in P : alloc[p] = Empty) => heapLive = LiveBytes(dead)

-----------------------------------------------------------------------------
(***************************************************************************)
(* Refinement: the owner of a span is the heap when it is free, the large *)
(* object list for a large span, the P whose mcache holds it outside      *)
(* refill, and otherwise the mcentral of its class; its live objects are *)
(* the allocated ones the last mark did not find dead.                    *)
(***************************************************************************)
OwnerOf(s) ==
  CASE kind[s] = "free"    -> "heap"
    [] kind[s] = "large"   -> "large"
    [] CachedBy(s) # {}    -> CHOOSE p \in CachedBy(s) : TRUE
    [] OTHER               -> "central"

Abs == INSTANCE SpanOwner WITH
         owner  <- [s \in Spans |-> OwnerOf(s)],
         live   <- [s \in Spans |-> allocCount[s] - dead[s]],
         Nelems <- nelems

(***************************************************************************)
(* The span protocol implements SpanOwner: refill, cacheSpan, grow,       *)
(* uncacheSpan, releaseAll, the sweepers and the GC cycle only ever move  *)
(* a span between owners as SpanOwner allows, allocation happens only in  *)
(* the span the allocating P holds, and no sweep frees a span in which an *)
(* object is still live.                                                  *)
(***************************************************************************)
ImplementsSpanOwner == Abs!Spec

-----------------------------------------------------------------------------
(***************************************************************************)
(* The mcache's allocation statistics and tiny block.                     *)
(***************************************************************************)

\* The slots P p has taken from the span it holds and not yet counted.
PendingOf(p) ==
  CASE pc[p] = "Idle" /\ alloc[p] # Empty ->
         allocCount[alloc[p]] - allocCountBeforeCache[alloc[p]]
    [] pc[p] = "RefillStats" -> allocCount[held[p]] - allocCountBeforeCache[held[p]]
    [] OTHER -> 0

(***************************************************************************)
(* Every allocation reaches memstats exactly once.  The slots mallocgc    *)
(* took and smallAllocCount lacks are exactly those counted since each    *)
(* cached span's allocCountBeforeCache snapshot.  This holds only if      *)
(* refill and releaseAll read allocCount before anything sweeps the span, *)
(* and releaseAll's uncacheSpan does sweep a stale span.  The tiny        *)
(* allocations tinyAllocCount lacks are those still in the c.tinyAllocs.  *)
(***************************************************************************)
StatsExact ==
  /\ unflushedSlots = MapThenSumSet(PendingOf, P)
  /\ unflushedTiny = MapThenSumSet(LAMBDA p : tinyAllocs[p], P)

(***************************************************************************)
(* A P that can allocate never combines objects into a tiny block taken  *)
(* before the last mark.  c.tiny is not scanned by the GC, so that block  *)
(* may be dead and freed by the sweep.  releaseAll, run by               *)
(* prepareForSweep before the P's first allocation of the cycle and by   *)
(* freemcache, must have cleared it.                                     *)
(***************************************************************************)
TinyBlockCurrent ==
  \A p \in P : Running(p) /\ tiny[p] # NoTiny => tiny[p] = sweepgen
====
