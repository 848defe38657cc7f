# TLA+ models of the Go 1.23.5 runtime span allocator

This directory holds TLA+ models of the small-object and large-object span
allocator of the Go runtime, as annotated under
`src/go-go1.23.5/src/runtime/`. It also gives an inventory of the rest of the
source tree and a plan for the parts not modelled yet.

## 1. Inventory of the system

| Part | Source | State | Operations |
|---|---|---|---|
| mcache (one per P) | `runtime/mcache.go` | `alloc[spc]` (the cached span per class), `flushGen`, tiny-allocator fields, `scanAlloc`, stack cache | `allocmcache`, `freemcache`, `refill`, `allocLarge`, `releaseAll`, `prepareForSweep` |
| mcentral (one per span class) | `runtime/mcentral.go` | `partial[2]`, `full[2]` span sets, indexed by `sweepgen/2%2` | `cacheSpan`, `uncacheSpan`, `grow`, the four set selectors |
| mspan fields used here | (mheap.go, not in `src/`) | `sweepgen`, `allocCount`, `allocCountBeforeCache`, `nelems`, `elemsize`, `npages` | read and written by all of the above |
| sweeper, reclaimer, GC cycle | (mgcsweep.go, mgc.go, not in `src/`) | `mheap_.sweepgen`, `sweep.active`, `heapLive` | `sweepone`, `reclaim`, `gcStart`/`gcMarkTermination`, `forEachP(prepareForSweep)` |
| pageCache (one per P) | `runtime/mpagecache.go` | `base`, 64-bit `cache` and `scav` masks | `alloc`, `allocN`, `flush`, `allocToCache` |
| bit intrinsics | `runtime/internal/sys/intrinsics.go` | none (pure) | `TrailingZeros*`, `OnesCount64`, `Len*`, `Bswap*` |
| libcCall | `runtime/sys_libc.go` | `m.libcallsp/pc/g` | `libcCall` (re-entered by signal handlers) |
| uintptr helpers, gostartcall | `stubs.go`, `sys_x86.go` | none (pure functions of a gobuf and the stack) | `alignUp`, `alignDown`, `divRoundUp`, `gostartcall` |
| OS memory, NotInHeap | `mem_darwin.go`, `nih.go` | none worth a model | system calls, a type marker |
| Mach-O DWARF combiner | `cmd/link/internal/ld/macho_combine_dwarf.go` | the output file, its load commands, the loop's reader | `machoCombineDwarf`, `machoCompressSections`, `machoUpdateSegment`, `machoUpdateSections`, `machoUpdateLoadCommand`, `machoUpdateDwarfHeader` |

**How the parts interact.** A P allocates small objects from the span cached
in its mcache. When that span is full, `refill` returns it to its mcentral with
`uncacheSpan` and takes another one with `cacheSpan`. `cacheSpan` tries the
swept partial set first. Then it tries unswept partial and full spans, which it
sweeps itself, up to `spanBudget` of them. Finally it calls `grow` for a fresh
span from the heap. Large objects bypass the mcentral: `allocLarge` takes a
span from the heap and records it in the full swept set.

Each GC cycle advances `mheap_.sweepgen` by 2. That turns every swept set into
an unswept one, because the set index is `sweepgen/2 % 2`. Three agents then
compete to sweep spans:
- the background sweeper;
- the reclaimer, which frees empty spans in place and leaves their entries in
  the unswept sets;
- mcentral's own `cacheSpan`.

Ownership goes to whoever wins `tryAcquire`. A span's own `sweepgen` says where
it stands relative to the heap's `sweepgen` (sg):

| span sweepgen | meaning |
|---|---|
| sg-2 | needs sweeping |
| sg-1 | being swept |
| sg | swept |
| sg+1 | cached before the sweep started, so still needs sweeping |
| sg+3 | swept and cached |

Before a P allocates in a new cycle, `prepareForSweep` flushes its mcache
through `releaseAll`. Stale spans (sg+1) are swept when they are uncached.

**Hard behaviours.**
- Interleavings of two Ps with the sweepers at `tryAcquire`.
- The refill tail writing a span after `uncacheSpan` published it.
- Stale cached spans across a cycle boundary.
- The `flushGen` protocol.
- `spanBudget` exhaustion.
- Wrapping `sweepgen` arithmetic.
- The heapLive overestimate and its correction.
- Termination of sweeping.

**Properties worth checking.**
- One owner per span.
- Sweep-state consistency of cached and listed spans.
- No reachable runtime throw.
- heapLive never underestimates.
- Everything is swept when sweeping is done.
- Sweeping terminates.

## 2. Modules

### `SpanAlloc.tla`: mcache plus mcentral plus environment

CONSTANTS:
- `P`: the Ps;
- `Spans`: model values for mspans;
- `Empty`: `&emptymspan`;
- `SweepgenMod`: `sweepgen` is kept modulo this, so the uint32 wrap is present and the state space is finite;
- `SpanBudget`;
- `SpanBytes`, `ElemSize`, `LargeBytes`: one small size class with `nelems = SpanBytes \div ElemSize` and some tail waste, plus one large size.
- `MaxTinySize`, `TinySizes`: `maxTinySize` (a tiny block is one slot of the small class, which stands for `tinySpanClass`) and the sizes of the pointer-free objects the tiny allocator combines. `TinySizes = {}` turns the tiny allocator off, as every cfg but the tiny one does.

| Variable | Code |
|---|---|
| `sweepgen` | `mheap_.sweepgen` |
| `sgen[s]`, `allocCount[s]`, `allocCountBeforeCache[s]` | the mspan fields |
| `kind[s]` | free, small or large, i.e. whether the span is in use and its class |
| `dead[s]` | slots the last mark found unreachable and not yet swept |
| `sets[<<class, partial/full, i>>]` | the mcentral spanSets, as sequences, so stale duplicate entries exist |
| `alloc[p]` | `c.alloc[spc]` |
| `flushGen[p]` | `c.flushGen` |
| `pc[p]`, `held[p]`, `budget[p]` | where a P is inside refill/cacheSpan, the span it is uncaching, and `spanBudget` |
| `heapLive` | `gcController.heapLive` |
| `sweepDrained` | `sweep.active` is drained |
| `err` | the message of a `throw` |
| `tiny[p]`, `tinyoffset[p]`, `tinyAllocs[p]` | `c.tiny` (-1 for 0, else the sweepgen at which the block was taken), `c.tinyoffset`, `c.tinyAllocs` |
| `unflushedSlots`, `unflushedTiny` | ghost counters: allocations made and not yet in `memstats.heapStats` `smallAllocCount` and `tinyAllocCount` |

Actions and the code they translate (the `map` in `PROJECT.json` gives the lines):
- **`RefillUncache`**: refill up to and including `uncacheSpan`, with the "refill of span with free space remaining" guard and the "bad sweepgen in refill" throw. `uncacheSpan` is the whole of `mcentral.uncacheSpan`: the stale sweep, or the push to the partial or full swept set.
- **`RefillStats`**: refill's accounting after `uncacheSpan`, moving the slots used into `smallAllocCount` and flushing `tinyAllocs`, then clearing `allocCountBeforeCache`. It is a separate step because the code runs it after the span has been published.
- **`CacheSpan`, `CacheSpanPartialUnswept`, `CacheSpanFullUnswept`, `Grow`**: the four stages of `cacheSpan`. Each loop iteration is one step, so other Ps and the sweepers interleave between iterations.
- **`haveSpan`**: `havespan` plus the rest of refill (the sweepgen+3 stamp, the snapshot, the heapLive update) and mallocgc's first slot, taken in the same non-preemptible call.
- **`AllocLarge`, `releaseAll`, `PrepareForSweep`**: the functions of the same name. `releaseAll` counts each span's slots before `uncacheSpan`, and `releaseAllTiny` is its tail: it clears `c.tiny` and `c.tinyoffset` and flushes `tinyAllocs`. `ProcResize` is `freemcache` of one P's old mcache plus `allocmcache` of a fresh one, at a stop-the-world point.
- **Environment actions**:
  - `Allocate`: nextFreeFast on the cached span;
  - `TinyAlloc`: mallocgc's tiny path (malloc.go is not under `src/`). It aligns `tinyoffset` with `alignUp` (stubs.go), either fits the object into the current block, or takes a new block with nextFreeFast and keeps whichever block has more room left. A new block taken in the same call as a refill is counted as an allocation but does not become `c.tiny`;
  - `BgSweep`: sweepone in `nextSpanForSweep` order;
  - `Reclaim`: the reclaimer sweeping an all-dead span in place;
  - `GCStart`: stop-the-world mark termination. It chooses the dead slots nondeterministically, recomputes heapLive as the live bytes and advances sweepgen by 2. It is enabled only after every P has flushed and sweeping has drained, as forEachP and `finishsweep_m` ensure.
- **`Crashed`**: stutters after a throw.

`MCSpanAlloc.tla` instantiates the constants with model values and defines the symmetry sets.

### `SpanOwner.tla`: what the span protocol promises

`SpanOwner` is the abstract specification of the span protocol. It has no sweep generations, span sets or refill steps. Each span has:
- an `owner`: `"heap"`, `"central"`, `"large"`, or a P;
- a count `live` of reachable objects.

Its actions:
- `Cache`: a P that holds nothing takes a span from mcentral or the heap and allocates in it.
- `Alloc`: a P allocates in the span it holds.
- `Uncache`: a P returns its span to mcentral, or to the heap if nothing in it lives.
- `AllocLarge`: a large object gets a span of its own.
- `Free`: a span with nothing live goes back to the heap.
- `Collect`: a GC mark may find any objects dead.

At the end of `SpanAlloc`, `Abs == INSTANCE SpanOwner WITH ...` maps the detailed state onto it:
- the owner is the heap for a free span, the large list for a large span, the P whose mcache holds the span outside refill, and otherwise mcentral;
- `live` is `allocCount - dead`.

The property `ImplementsSpanOwner == Abs!Spec` is checked as a temporal property. Every step of refill, cacheSpan, grow, uncacheSpan, releaseAll, the sweepers and the GC cycle is a SpanOwner step or a stutter. So is every step of the tiny allocator, which that run turns on.

### `PageBits.tla`, `PageCache.tla`, `AllocBits.tla`: the per-P page cache

`PageBits` holds the pageCache bit operations over W-bit words, where W stands for `pageCachePages = 64`:
- `alloc1` (TrailingZeros) and `allocN` (findBitRange64 plus the shifted mask, keeping the unsigned wrap of `(1<<npages)-1`);
- `alloc`, which dispatches between the two;
- `OnesCount` and `TrailingZeros`, modelled by what they compute.

`findBitRange64` lives in mpallocbits.go, which is not under `src/`. It is the recursive operator `shrinkRuns`, a direct rendering of its loop.

`PageCache` composes these operations with the global page allocator. The heap is `NChunks` chunks of `ChunkBlocks` windows of W pages.

| Variable | Code |
|---|---|
| `allocated`, `scavenged` | the chunks' allocation and scavenged bitmaps |
| `searchAddr` | `p.searchAddr` |
| `pcache[p]` | `pp.pcache` |
| `runs` | a bag of page runs handed to spans |
| `released` | `heapStats.released` |

Actions:
- `AllocToCache`: the whole of `allocToCache`. That is the fast path through the chunk of searchAddr (including the "bad summary data" throw), the slow path, both out-of-memory returns, and the tail that marks the window allocated, clears free-and-scavenged bits and sets searchAddr to the window's last page.
- `Flush`: `pageCache.flush`.
- `CacheAlloc`: allocSpan's lock-free `c.alloc(npages)`, falling back to `pageAlloc.alloc`.
- Environment actions: `HeapAlloc`, `FreeRun`, `Scavenge`.

Initially the heap has just grown, so every page is free and scavenged.

`AllocBits` applies `alloc` to one cache and checks each call against a first-fit reference definition.

### `LibcCall.tla`, `MCLibcCall.tla`: libcCall re-entered by signals

`libcCall` (sys_libc.go) records the caller's g, pc and sp in `m.libcallg/pc/sp` so that a profiling signal can trace back from the libc call. The module follows one M. `step` walks the goroutine's call statement by statement:
- `Enter(g)`: the `mp.libcallsp == 0` test, where `owner` stands for the local `mp` being non-nil;
- `SetG`, `SetPC`, `SetSP`: the three stores, sp last;
- `Call`: `asmcgocall`;
- `Return`: the clear of `libcallsp` when `mp != nil`.

Between any two of these steps a signal may arrive. Its handler runs to the end with all signals blocked, so two environment actions are single steps:
- `HandlerLibcCall`: a whole nested `libcCall` from the handler (on `gsignal`);
- `Profile`: `sigprof` using the three values once `libcallsp` is non-zero (modelled from the comment, since `sigprof` is not under `src/`).

A value of `libcall*` is the goroutine whose call stored it. `G` is two goroutines that take turns on the M, so a stale `libcallg` left by an earlier call is visible.

### `Word64.tla`, `Intrinsics.tla`: the bit intrinsics

TLC's integers are 32-bit, so `Word64` represents a uint32 or uint64 as its sequence of bytes, lowest first. Go's operators on it wrap as Go's do: shifts, `&`, `|`, `+`, `*` and negation.

`Intrinsics` translates each portable algorithm of intrinsics.go on such words:
- the de Bruijn `TrailingZeros32/64`;
- `TrailingZeros8`;
- `Len64` (three halving tests, through `Len64Step`, then `len8tab`) and `Len8`;
- `LeadingZeros8/64`;
- the SWAR `OnesCount64`;
- `Bswap32/64`, through `BswapStep`.

The lookup tables are transcribed from the source. A state is one input word. The 32- and 8-bit functions take its low bytes. The invariants compare every function with a reference definition written bit by bit. `PageBits` uses `TrailingZeros64` and `OnesCount64` by what they compute, and this run shows the code computes exactly that.

### `RuntimeStubs.tla`: uintptr helpers and gostartcall
On `Word64` words, `alignUp` is `(n + a - 1) &^ (a - 1)`, `alignDown` is `n &^ (a - 1)` and `divRoundUp` is `(n + a - 1) / a`, all with the 64-bit wrap. For `a = 1 << k` the division is the shift, and only powers of two are enumerated. `gostartcall` lowers `sp` by `PtrSize` (8, amd64), stores `buf.pc` there, and sets `pc` and `ctxt`. The stack is a function from addresses to words. `Ret`, the RET that ends `fn`, is the reference. A state is one input word. It is `n` for the helpers and `buf.sp` for gostartcall. `RuntimeStubs` extends `Intrinsics`, and its `WordSpec` ranges over both modules' inputs. Those are the intrinsics' inputs, which include every word below 256. They also include every word above 2^64 - 65, the words around 2^64 - 8192 and just above 2^63, and a few mixed words. The alignments are 1, 8, 8192 (pageSize) and 2^63.

### `MachoDwarf.tla`, `MCMachoDwarf.tla`: the linker's DWARF combiner
When linking externally on darwin, the linker copies the executable into a new file, with the dSYM's `__DWARF` segment inserted before `__LINKEDIT`. `__LINKEDIT` must stay last for code signing.

A file is modelled as a function from offsets to labels that say where each byte came from: `<<"exe", i>>`, `<<"dsym", i>>`, `<<"z", k, j>>` (a compressed section) or a hole. A rewritten offset is therefore correct exactly when it points at the label the old offset pointed at. Load commands are records at their header offsets; `loadCmdReader.Next` finds the command that starts at `reader.next`.

The actions follow the code:
- `Combine` is `machoCombineDwarf` up to the loop. It copies up to `linkseg.Offset`, writes the DWARF (compressed or not) at `Rnd(linkseg.Offset, R)` and writes `__LINKEDIT` at the next rounded offset. It then makes the `__text`-room check, including the uint32 wrap of `availablePadding`, writes the `__DWARF` command, and raises `Ncmd` and `Cmdsz`.
- `UpdateCmd` is one iteration of the loop: `machoUpdateSegment`, `machoUpdateLoadCommand` with the code's field lists, the UUID rewrite, the commands left alone, the 32-bit panic and unknown commands.
- `machoUpdateDwarfHeader` is the final update.

`machoCompressSection` keeps the compressed form only if it is shorter. The length of the zlib stream is an input, so every outcome is covered. I/O errors are not modelled.

The inputs in `MCMachoDwarf.tla` are:
- an executable with `__PAGEZERO`, `__TEXT`, `__DATA` and `__LINKEDIT`;
- dyld info with an absent (zero) field and one field at `linkseg.Offset` itself;
- symtab, dysymtab, code signature, and an encryption command that points into `__TEXT`;
- a UUID;
- a last command that is `LC_MAIN`, an unknown one, or a 32-bit segment;
- `__text` placed with no room or with exactly enough room;
- a dSYM whose two sections are adjacent or separated by a gap, either of which compresses, and which may carry relocations;
- `-R` of 1 or 8, and compression on or off.

## 3. Runs

| Run | Cfg | Checks | Result |
|---|---|---|---|
| `span_safety` | `MCSpanAlloc.cfg` | TypeOK, OwnershipExclusive, SweepStateConsistent, NoThrow, HeapLiveOverestimates, SweptWhenDone | pass, about 840k distinct states |
| `span_liveness` | `MCSpanAlloc_Live.cfg` | SweepCompletes | pass, about 310k states |
| `span_one_set` | `MCSpanAlloc_OneSet.cfg` | SpanInAtMostOneSet | violation |
| `heaplive_exact` | `MCSpanAlloc_HeapExact.cfg` | HeapLiveExactWhenUncached | violation |
| `span_refines` | `MCSpanAlloc_Tiny.cfg` | StatsExact, TinyBlockCurrent, ImplementsSpanOwner | pass, about 393k states (two spans, tiny allocator on), about 65 s |
| `page_cache` | `MCPageCache.cfg` | TypeOK, PagesConserved, SearchAddrBound, ScavengedTracked, NoThrow | pass, about 61k states |
| `alloc_bits` | `AllocBits.cfg` | TypeOK, AllocFirstFit | pass, 4,400 states |
| `word_algorithms` | `RuntimeStubs.cfg` | TrailingZerosCorrect, LenCorrect, OnesCountCorrect, BswapCorrect, AlignCorrect, GoStartCallReturns | pass, 441 inputs, about 70 s |
| `libcall` | `MCLibcCall.cfg` | TypeOK, SpTracksOwner | pass, 300 states |
| `macho_dwarf` | `MCMachoDwarf.cfg` | OffsetsPreserved, DwarfSegmentPlaced | pass, 1,472 states (192 inputs) |
| `padding_wrap` | `MCMachoDwarf_Wrap.cfg` | OffsetsPreserved | violation (a malformed executable, `MCExesWrap`) |
| `libcall_sample` | `MCLibcCall_Sample.cfg` | SampleConsistent | violation |

### What the properties say
- **OwnershipExclusive**: an in-use span is held by exactly one of the following:
  - a P's cache;
  - a P inside refill;
  - a swept-set entry;
  - an unswept entry that can still be acquired.

  A free span is held by none of them.
- **SweepStateConsistent**: a cached span is at sg+3, or at sg+1 if its P has not flushed yet. Every span in a swept set is at sg. A span that is swept or cached carries no unswept dead slots.
- **NoThrow**: none of the runtime's consistency throws is reachable. The throws covered are "span has no free objects", "bad sweepgen in refill", "refill of span with free space remaining", "bad flushGen" and "uncaching span but s.allocCount == 0". Out of memory is allowed. Two of these are not really tested. "refill of span with free space remaining" is the caller's precondition and is modelled as refill's guard. "bad flushGen" cannot arise because GCStart waits, as gcStart does, until every P has flushed. The property's force is in the other three.
- **HeapLiveOverestimates**: heapLive is never below the bytes of live objects. This is the stated reason for refill's overestimate.
- **SweptWhenDone**: once sweeping has drained and all Ps have flushed, no in-use span is left at sg-2 or sg+1.
- **ImplementsSpanOwner**: SpanAlloc refines SpanOwner. This goes beyond OwnershipExclusive, because it constrains every step:
  - a span changes hands only as SpanOwner allows;
  - an object is allocated only in the span the allocating P holds;
  - live objects never appear without an allocation;
  - no sweep, by the background sweeper, the reclaimer or uncacheSpan, returns a span to the heap while an object in it is live.

  The mutant that takes a full-unswept entry without `tryAcquire` breaks it. That entry may be stale: the reclaimer already freed the span, and allocLarge reused it.
- **SweepCompletes**: every sweep phase eventually ends, or the program has thrown.
- **StatsExact**: every allocation reaches memstats exactly once. The slots that `smallAllocCount` lacks are exactly those taken since each cached span's `allocCountBeforeCache` snapshot, including a span that refill is between `uncacheSpan` and its accounting. The tiny allocations that `tinyAllocCount` lacks are exactly those still in the Ps' `tinyAllocs`. `releaseAll` must read `allocCount` before `uncacheSpan` sweeps a stale span. The mutant that reads it afterwards, as refill does (refill can, because it throws on stale spans), under-counts.
- **TinyBlockCurrent**: a P that can allocate never combines objects into a tiny block taken before the last mark. `c.tiny` is not a GC root, so such a block may have been freed by the sweep. The mutant of `releaseAll` that does not clear `c.tiny` breaks it after a GC cycle and the P's `prepareForSweep`.
- **PagesConserved**: a page allocated in the bitmap is held by exactly one P's cache or exactly one span's run. A free page is held by neither.
- **SearchAddrBound**: no free page lies below searchAddr. `flush` and `free` lower it, and `allocToCache` raises it only past pages it takes.
- **ScavengedTracked**: only free pages are scavenged in the bitmap. A cache's scav bit is set only with its cache bit. `released` equals the scavenged pages of the bitmap plus the scav bits held in caches.
- **NoThrow** (PageCache): the fast path of allocToCache never throws "bad summary data".
- **AllocFirstFit**: for every cache and scav mask and every npages up to W, `alloc` returns the lowest run of free pages, or fails when there is none. It clears exactly that run in both masks and reports its scavenged pages. The check goes beyond what allocSpan uses. allocSpan asks the cache only for npages < pageCachePages/4 = 16, while the check reaches npages = W, where the shift wraps. No caller reaches that case.
- **TrailingZerosCorrect**, **LenCorrect**, **OnesCountCorrect**, **BswapCorrect**: on every input, each intrinsic equals its reference. The references are the lowest set bit, the highest set bit plus one, the number of set bits, and the reversed bytes.
- **AlignCorrect**: `alignDown` is the largest multiple of `a` at most `n`. `alignUp` is the least multiple at least `n` while one exists below 2^64, that is while `n <= 2^64 - a`. Above that it wraps to 0, silently. `divRoundUp` times `a` is `alignUp` whenever `n + a - 1` does not wrap. The mutant that rounds `n + a` fails on every aligned `n`.
- **GoStartCallReturns**: after `gostartcall`, `fn` runs with `ctxt`. Its RET returns to the old `buf.pc` (goexit, in newproc1) at the old `sp`, and the caller's word at the old `sp` is intact, even when `sp` wraps below 0. The mutant that stores at `buf.sp` without lowering it overwrites that word.
- **SpTracksOwner**: `libcallsp` is non-zero exactly while the goroutine's own recording call is in libc or returning, and it holds that goroutine's sp. A handler's nested call neither records itself over it nor clears it.
- **OffsetsPreserved**: after a successful combine, every file offset in the executable's load commands points at the bytes it pointed at before. This covers segments, sections, dyld info, the symbol tables, the code signature and the encryption range. The rounding of `dwarfstart` and `linkstart` and the `>= linkseg.Offset` tests have to agree for this to hold. The mutant that moves only fields strictly past `linkseg.Offset` leaves the rebase info behind.
- **DwarfSegmentPlaced**: the header counts the inserted `__DWARF` command. Each of its sections, compressed or not, lies within the segment's file range and holds its own bytes. The mutant that forgets to add `dwarfstart - realdwarf.Offset` to compressed sections breaks it.
- **SampleConsistent** (expected to fail): every sample the profiler takes has g, pc and sp from the same call.

### Findings
The first violation is a difference between spec.md and the code. The next two are differences between a comment and the code. The fourth is a check that a malformed input gets past:
- **`span_one_set`**: spec.md (section 8) says a span is never in more than one mcentral set at once. The code does not keep that promise, and its own comment (mcentral.go:38-42) says so. Sweepers that sweep arbitrary spans leave them in the unswept set, and consumers must ignore those entries. TLC shows the reclaimer leaving such an entry behind. `allocLarge` then reuses the freed span and pushes it to `fullSwept`, so it is in two sets at once. This is harmless because `tryAcquire` fails on the stale entry. The spec's invariant is stronger than the code's.
- **`heaplive_exact`**: refill's comment says releaseAll fixes up the overestimate. But refill adds `npages*pageSize - allocCount*elemsize`, while releaseAll subtracts only `(nelems-allocCount)*elemsize`. The span's tail waste stays in heapLive until the next mark.
- **`libcall_sample`**: the comment on libcCall says the g/pc/sp of the first call on an M are remembered and a handler's call is not recorded. The code tests `libcallsp == 0` and then stores g, pc and sp, so a signal that arrives after the g or pc store and before the sp store finds sp still zero. The handler's libcCall then records its own g and pc and clears sp on return. The goroutine then stores its sp, and a later profiling signal traces back from the handler's pc with the goroutine's sp. Trace: `Enter, SetG, SetPC, HandlerLibcCall, SetSP, Profile`.
- **`padding_wrap`**: `availablePadding := textsect.Offset - dwarfCmdOffset` is a uint32. In `MCExesWrap`, `__text` starts at 13, inside the load commands, which end at 14. The difference wraps, so the "no room to add dwarf info" check passes. The three-unit `__DWARF` command is then written at 14, over the second byte of `__text`. OffsetsPreserved fails for `__TEXT` in the combined file. The linker's own executables always have `__text` after the header, so only a hand-made or corrupted input reaches this.

### Bounds
Two Ps and three spans. The refinement and stats run (`span_refines`) uses two spans of two 4-byte slots and objects of 1 and 2 bytes. That fills a block, keeps or replaces it, and refills its span. Liveness and the refinement use two spans. The refinement also passes with three spans (841k states), but that run takes close to four minutes. Two spans still reach the stale unswept entry that allocLarge reuses.

`SweepgenMod = 8` gives four cycles before sweepgen wraps. Reaching the wrap exercises the sg+3 and sg-2 comparisons modulo 2^32.

`SpanBudget = 1` means the budget runs out after two unswept spans. The loop's `spanBudget >= 0` test allows one more iteration than the budget, so this covers both "found one" and "budget exhausted, grow".

With `SpanBytes = 5` and `ElemSize = 2`, a span has 2 slots and 1 byte of tail waste, so partial and full spans and the tail both occur.

For the page cache, W = 3 with two chunks of one window each (6 pages) and npages up to 3. That reaches findBitRange's doubling branch, the fast path, the slow path into the other chunk, and out of memory. The bound is a scaled analogue of allocSpan's `npages < pageCachePages/4`; with a quarter window the multi-page path would not be exercised at all. `AllocBits` uses W = 6 for every 6-bit mask pair.

The Mach-O inputs count offsets in units of a load command. Rounding 8 leaves gaps both before the DWARF and before `__LINKEDIT`, and rounding 1 leaves none. `MaxOut = 40` holds the largest output.

LibcCall needs no bound: its state space is finite. Two goroutines suffice to show a stale `libcallg`. One handler call per signal covers every point of arrival, because the handler's call is atomic.

The dead-slot choice at GCStart covers every subset size. Symmetry over Ps and spans is sound because no definition distinguishes them.

### Fairness
Weak fairness is assumed for:
- the background sweeper, which the runtime always runs while work remains;
- each P's `prepareForSweep`, which forEachP forces on every P at the next safe point;
- the in-progress refill/cacheSpan steps, because a running P finishes its non-preemptible refill.

Allocation, GC start, reclaim, large allocation and procresize are not fair: the program may stop doing them.

## 4. Not modelled, and why
- The stack cache, `scanAlloc` and `nextSample` in mcache. No property observes them. The per-class statistics are modelled as the gap between allocations and `memstats`, and `totalAlloc` is that gap times the element size.
- `getMCache`, which is a lookup.
- The bit intrinsics over all 2^64 inputs. The run takes every low-byte value, every single bit, every low mask of k bits and a few mixed words. That covers each table entry, each de Bruijn product, and the Len64 boundaries.
- The `Prefetch` functions, which have empty bodies.
- `mem_darwin.go`: each function is one mmap, madvise or munmap call, and sysMapOS adds two throws. Modelling them would mean modelling the kernel's address space and madvise accounting, which are not in this repository. The callers that give the memory states their meaning (mem.go, mheap.go) are not here either. `nih.go` is a type marker. In `stubs.go`, everything outside `alignUp`, `alignDown` and `divRoundUp` is an assembly declaration or a pointer or type conversion (`add`, `noescape`, `bool2int`). `divRoundUp` is checked only for powers of two; its comment says that is the usual case.
- In `macho_combine_dwarf.go`: I/O errors; the zlib stream, whose length is an input; section names and addresses. The missing-`__LINKEDIT` and missing-`__text` returns are translated, but no input reaches them. The missing-`__DWARF` return is left out, because every dSYM has that segment. A `__text` placed before the end of the load commands, where `availablePadding` wraps, is a malformed executable. It appears only in the `padding_wrap` input.
- More than one small size class, and noscan classes. The classes do not interact except through the sweeper's order.

## 5. Plan for the next modules (in order)
1. More than one small size class, to cover `releaseAll`'s loop over several slots and refill's `spc == tinySpanClass` test when it is false.
