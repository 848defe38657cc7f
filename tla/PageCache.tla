----------------------------- MODULE PageCache -----------------------------
(***************************************************************************)
(* The per-P page cache of the Go runtime (runtime/mpagecache.go) against *)
(* the global page allocator it takes windows from and flushes them to.   *)
(*                                                                         *)
(* The heap is NChunks chunks of ChunkBlocks aligned windows of W pages    *)
(* (W stands for pageCachePages = 64).  Page numbers stand for addresses; *)
(* because page 0 is a real page here, a failed allocation returns NoBase *)
(* where the code returns address 0.  The pageCache operations are the   *)
(* operators of PageBits.                                                  *)
(*                                                                         *)
(* The page allocator itself (pageAlloc.alloc, free, find, the scavenger) *)
(* is not under src/ and is modelled from its interface: the allocation  *)
(* bitmap, the scavenged bitmap, searchAddr and the released-bytes stat.  *)
(***************************************************************************)
EXTENDS Integers, FiniteSets, FiniteSetsExt, Bags, PageBits

CONSTANTS
  P,              \* the Ps, each with a pageCache
  ChunkBlocks,    \* windows per chunk
  NChunks,        \* chunks in the heap (p.end)
  MaxCachePages,  \* largest npages that allocSpan serves from the page cache
  MaxHeapPages    \* largest npages asked of the page allocator directly

ChunkPages    == ChunkBlocks * W
Pages         == 0..(NChunks * ChunkPages - 1)
MaxSearchAddr == NChunks * ChunkPages      \* maxSearchAddr: past every chunk

VARIABLES
  allocated,   \* pages whose bit is set in the chunks' allocation bitmaps
  scavenged,   \* pages whose bit is set in the chunks' scavenged bitmaps
  searchAddr,  \* p.searchAddr, as a page number
  pcache,      \* pcache[p] = pp.pcache: [base, cache, scav]
  runs,        \* bag of page runs <<base, npages>> handed out to spans
  released,    \* heapStats.released, in pages
  err          \* the message of a throw, or "none"

vars == <<allocated, scavenged, searchAddr, pcache, runs, released, err>>

EmptyCache == [base |-> 0, cache |-> 0, scav |-> 0]   \* pageCache{}

chunkIndex(a)  == a \div ChunkPages
alignDownW(a)  == a - (a % W)
FreePages      == Pages \ allocated
RunPages(r)    == r[1]..(r[1] + r[2] - 1)

\* chunk.pages64 and chunk.scavenged.block64: the bits of the window at base.
pages64(base)  == Word({i \in 0..(W - 1) : base + i \in allocated})
scavBlock(base) == Word({i \in 0..(W - 1) : base + i \in scavenged})

-----------------------------------------------------------------------------
Throw(msg) == err' = msg /\ UNCHANGED <<allocated, scavenged, searchAddr, pcache,
                                       runs, released>>

(***************************************************************************)
(* Environment: pageAlloc.alloc under the heap lock.  The first fit of n  *)
(* free pages at or after searchAddr; its scavenged pages are reported    *)
(* (and subtracted from released by allocSpan), and searchAddr moves up   *)
(* to the first free page the search saw.  Out of memory for one page    *)
(* sets searchAddr to maxSearchAddr.                                      *)
(***************************************************************************)
heapAlloc(n) ==
  LET fits == {a \in Pages : a >= searchAddr /\ a + n - 1 \in Pages
                             /\ a..(a + n - 1) \subseteq FreePages}
  IN
  CASE chunkIndex(searchAddr) >= NChunks ->
         UNCHANGED <<allocated, scavenged, searchAddr, runs, released>>
    [] fits = {} ->
         /\ searchAddr' = IF n = 1 THEN MaxSearchAddr ELSE searchAddr
         /\ UNCHANGED <<allocated, scavenged, runs, released>>
    [] OTHER ->
         LET run == Min(fits)..(Min(fits) + n - 1) IN
         /\ allocated' = allocated \cup run
         /\ scavenged' = scavenged \ run
         /\ released' = released - Cardinality(run \cap scavenged)
         /\ runs' = runs (+) SetToBag({<<Min(fits), n>>})
         /\ searchAddr' = Min({q \in FreePages : q >= searchAddr})

\* allocToCache's tail: mark the window's free pages allocated, clear the
\* scavenged bits of those that are free and scavenged, and leave
\* searchAddr on the last page of the window.
takeWindow(p, base) ==
  LET c == [base |-> base, cache |-> Full - pages64(base), scav |-> scavBlock(base)] IN
  /\ allocated' = allocated \cup PagesOf(base, c.cache)
  /\ scavenged' = scavenged \ PagesOf(base, c.cache & c.scav)
  /\ searchAddr' = base + W - 1
  /\ pcache' = [pcache EXCEPT ![p] = c]
  /\ UNCHANGED <<runs, released, err>>

CacheEmptied(p) == pcache' = [pcache EXCEPT ![p] = EmptyCache]

\* Mutant of chunkFind: the search starts one page past searchIdx.
chunkFindAfter(ci, from) == {q \in FreePages : chunkIndex(q) = ci /\ q > from}

\* chunk.find(1, searchIdx): the free pages of chunk ci at or after from.
chunkFind(ci, from) == {q \in FreePages : chunkIndex(q) = ci /\ q >= from}

\* Mutant of windowBase: alignDown(addr, 64*pageSize) is left out.
windowBaseUnaligned(a) == a

\* The window of a page: alignDown to pageCachePages pages.
windowBase(a) == alignDownW(a)

(***************************************************************************)
(* pageAlloc.allocToCache, called by allocSpan under the heap lock when   *)
(* the P's cache is empty.  Fast path: the chunk of searchAddr has a free *)
(* page (its summary is non-zero) and chunk.find(1, searchIdx) finds one  *)
(* at or after searchAddr, else "bad summary data".  Slow path: p.find(1) *)
(* over the whole heap, failing with searchAddr = maxSearchAddr.          *)
(***************************************************************************)
AllocToCache(p) ==
  LET ci       == chunkIndex(searchAddr)
      inChunk  == {q \in FreePages : chunkIndex(q) = ci}
      found    == chunkFind(ci, searchAddr)
      fromHint == {q \in FreePages : q >= searchAddr}
  IN
  /\ err = "none"
  /\ pcache[p].cache = 0
  /\ CASE ci >= NChunks ->
            CacheEmptied(p) /\ UNCHANGED <<allocated, scavenged, searchAddr, runs, released, err>>
       [] inChunk # {} ->
            IF found = {} THEN Throw("bad summary data")
            ELSE takeWindow(p, windowBase(Min(found)))
       [] fromHint = {} ->
            /\ searchAddr' = MaxSearchAddr
            /\ CacheEmptied(p)
            /\ UNCHANGED <<allocated, scavenged, runs, released, err>>
       [] OTHER -> takeWindow(p, windowBase(Min(fromHint)))

(***************************************************************************)
(* allocSpan's page-cache path: c.alloc(npages) without a lock, on the   *)
(* P's own cache; a failed attempt falls back to pageAlloc.alloc.         *)
(***************************************************************************)
CacheAlloc(p, n) ==
  LET r == alloc(pcache[p], n) IN
  /\ err = "none"
  /\ pcache[p].cache # 0
  /\ IF r.base = NoBase
     THEN heapAlloc(n) /\ UNCHANGED <<pcache, err>>
     ELSE /\ pcache' = [pcache EXCEPT ![p] = r.next]
          /\ runs' = runs (+) SetToBag({<<r.base, n>>})
          /\ released' = released - r.scav
          /\ UNCHANGED <<allocated, scavenged, searchAddr, err>>

\* Environment: allocSpan without a P or for a larger request.
HeapAlloc(n) ==
  /\ err = "none"
  /\ heapAlloc(n)
  /\ UNCHANGED <<pcache, err>>

\* Environment: pageAlloc.free of a span's pages; searchAddr moves down.
FreeRun(r) ==
  /\ err = "none"
  /\ allocated' = allocated \ RunPages(r)
  /\ runs' = runs (-) SetToBag({r})
  /\ searchAddr' = IF r[1] < searchAddr THEN r[1] ELSE searchAddr
  /\ UNCHANGED <<scavenged, pcache, released, err>>

\* Environment: the scavenger returns a free page to the OS.
Scavenge(q) ==
  /\ err = "none"
  /\ q \in FreePages \ scavenged
  /\ scavenged' = scavenged \cup {q}
  /\ released' = released + 1
  /\ UNCHANGED <<allocated, searchAddr, pcache, runs, err>>

\* Mutant of Flush: searchAddr is not lowered to the cache's base.
FlushKeepsSearchAddr(p) ==
  LET c == pcache[p] IN
  /\ err = "none"
  /\ c.cache # 0
  /\ allocated' = allocated \ PagesOf(c.base, c.cache)
  /\ scavenged' = scavenged \cup PagesOf(c.base, c.scav)
  /\ CacheEmptied(p)
  /\ UNCHANGED <<searchAddr, runs, released, err>>

(***************************************************************************)
(* pageCache.flush, from p.destroy under the heap lock: every page still *)
(* free in the cache is freed in the bitmap, every scav bit goes back to  *)
(* the scavenged bitmap, searchAddr is lowered as free does, and the     *)
(* cache is zeroed.  An empty cache returns at once.                     *)
(***************************************************************************)
Flush(p) ==
  LET c == pcache[p] IN
  /\ err = "none"
  /\ c.cache # 0
  /\ allocated' = allocated \ PagesOf(c.base, c.cache)
  /\ scavenged' = scavenged \cup PagesOf(c.base, c.scav)
  /\ searchAddr' = IF c.base < searchAddr THEN c.base ELSE searchAddr
  /\ CacheEmptied(p)
  /\ UNCHANGED <<runs, released, err>>

\* Right after the heap has grown: every page free and scavenged.
Init ==
  /\ allocated = {}
  /\ scavenged = Pages
  /\ searchAddr = 0
  /\ pcache = [p \in P |-> EmptyCache]
  /\ runs = EmptyBag
  /\ released = Cardinality(Pages)
  /\ err = "none"

Next ==
  \/ \E p \in P :
       \/ AllocToCache(p) \/ Flush(p)
       \/ \E n \in 1..MaxCachePages : CacheAlloc(p, n)
  \/ \E n \in 1..MaxHeapPages : HeapAlloc(n)
  \/ \E r \in BagToSet(runs) : FreeRun(r)
  \/ \E q \in Pages : Scavenge(q)

Spec == Init /\ [][Next]_vars

-----------------------------------------------------------------------------
Windows == {k * W : k \in 0..(NChunks * ChunkBlocks - 1)}

TypeOK ==
  /\ allocated \subseteq Pages
  /\ scavenged \subseteq Pages
  /\ searchAddr \in 0..MaxSearchAddr
  /\ pcache \in [P -> [base : Windows, cache : 0..Full, scav : 0..Full]]
  /\ IsABag(runs) /\ BagToSet(runs) \subseteq Pages \X (1..MaxCachePages \cup 1..MaxHeapPages)
  /\ released \in Int
  /\ err \in {"none", "bad summary data"}

CachedBy(q) == {p \in P : q \in PagesOf(pcache[p].base, pcache[p].cache)}
RunRefs(q)  == MapThenSumSet(LAMBDA r : IF q \in RunPages(r) THEN CopiesIn(r, runs) ELSE 0,
                             BagToSet(runs))

(***************************************************************************)
(* Page conservation across allocToCache, alloc/allocN and flush: a page  *)
(* allocated in the bitmap is held by exactly one P's cache or one span's *)
(* run, and a free page by none.                                          *)
(***************************************************************************)
PagesConserved ==
  \A q \in Pages :
    Cardinality(CachedBy(q)) + RunRefs(q) = IF q \in allocated THEN 1 ELSE 0

(***************************************************************************)
(* searchAddr is a lower bound on free memory: allocToCache leaves it on  *)
(* the window's last page and flush lowers it to the window's base, so no *)
(* free page ever lies below it (else the fast path throws or leaks).    *)
(***************************************************************************)
SearchAddrBound == \A q \in FreePages : searchAddr <= q

(***************************************************************************)
(* Scavenged memory is tracked exactly through allocToCache, alloc and    *)
(* flush: only free pages are scavenged in the bitmap, a cache's scav bit *)
(* is set only with its cache bit, and the released stat equals the       *)
(* scavenged pages of the bitmap plus those held in caches.              *)
(***************************************************************************)
ScavengedTracked ==
  /\ scavenged \cap allocated = {}
  /\ \A p \in P : BitSet(pcache[p].scav) \subseteq BitSet(pcache[p].cache)
  /\ released = Cardinality(scavenged) + MapThenSumSet(LAMBDA p : OnesCount(pcache[p].scav), P)

(***************************************************************************)
(* allocToCache's fast path never throws "bad summary data".              *)
(***************************************************************************)
NoThrow == err = "none"

====
