------------------------------ MODULE PageHeap ------------------------------
(***************************************************************************)
(* The page heap of the small-object allocator (src/myring/src/tcmalloc/   *)
(* PageHeap.cpp): spans of whole pages, handed out, taken back, split and  *)
(* merged, over memory that comes from operator new.                       *)
(*                                                                         *)
(* Memory is the set of page numbers 1 .. Pages.  A span is its first page *)
(* and its length together with the system allocation it is cut from.  An  *)
(* active span never changes size and a cached span is only reached        *)
(* through the three indexes of the cache, so the record stands for the    *)
(* pointer.  The vectors of free_spans_by_pages_ keep the order in which   *)
(* spans were cached; one sequence holds them all, and "the back of the    *)
(* list of n pages" is its last span of n pages.                           *)
(*                                                                         *)
(* The operators on a cache c = [list, byStart, byEnd, bytes] are pure;    *)
(* every action below is one critical section of mutex_.                   *)
(***************************************************************************)
EXTENDS Naturals, Sequences, FiniteSets, SequencesExt, Functions

CONSTANT Pages      \* number of pages the system can give

Page == 1 .. Pages
Span == [start : Page, pages : Page, base : Page, total : Page]

VARIABLES
  active,     \* spans_: the spans in use
  cache,      \* [list, byStart, byEnd, bytes]: the cached spans, their index
              \* by first page and by end page, cached_bytes_
  pageMap,    \* page_to_span_
  bytes,      \* [active, system]: active_bytes_, system_bytes_, in pages
  oom         \* an allocation of the heap's own bookkeeping has failed

heapVars == <<active, cache, pageMap, bytes, oom>>

(* span_end_page: the page after the last one *)
End(s) == s.start + s.pages
PagesOf(s) == s.start .. End(s) - 1
IsWhole(s) == s.start = s.base /\ s.pages = s.total

Drop(f, x) == [y \in DOMAIN f \ {x} |-> f[y]]
Put(f, x, v) == [y \in DOMAIN f \cup {x} |-> IF y = x THEN v ELSE f[y]]
Less(n, k) == IF n >= k THEN n - k ELSE 0

(***************************************************************************)
(* The cache of free spans                                                 *)
(***************************************************************************)
InsertCached(c, s) ==
  [list |-> Append(c.list, s), byStart |-> Put(c.byStart, s.start, s),
   byEnd |-> Put(c.byEnd, End(s), s), bytes |-> c.bytes + s.pages]

EraseCached(c, s) ==
  [list |-> SelectSeq(c.list, LAMBDA x : x # s),
   byStart |-> Drop(c.byStart, s.start), byEnd |-> Drop(c.byEnd, End(s)),
   bytes |-> Less(c.bytes, s.pages)]

(* Sizes for which a span is cached, and the span list.back() of a size *)
Sizes(c) == {s.pages : s \in ToSet(c.list)}
Back(c, n) == LET l == SelectSeq(c.list, LAMBDA x : x.pages = n) IN l[Len(l)]
BestSize(c, n) == CHOOSE k \in Sizes(c) : k > n /\ \A j \in Sizes(c) : j > n => k <= j

CanMerge(l, r) == l.base = r.base /\ l.total = r.total /\ End(l) = r.start
Join(l, r) == [l EXCEPT !.pages = l.pages + r.pages]

(* One turn of the loop of coalesce_span_unlocked: the left neighbour is    *)
(* tried first, then the right one.                                         *)
MergeOnce(p) ==
  LET c == p[1]
      s == p[2] IN
  CASE s.start \in DOMAIN c.byEnd /\ CanMerge(c.byEnd[s.start], s) ->
         <<EraseCached(c, c.byEnd[s.start]), Join(c.byEnd[s.start], s)>>
    [] ~(s.start \in DOMAIN c.byEnd /\ CanMerge(c.byEnd[s.start], s))
       /\ End(s) \in DOMAIN c.byStart /\ CanMerge(s, c.byStart[End(s)]) ->
         <<EraseCached(c, c.byStart[End(s)]), Join(s, c.byStart[End(s)])>>
    [] OTHER -> p

(* The loop ends when nothing merged; every turn before that takes a span   *)
(* out of the cache, so as many turns as the cache has spans are enough.    *)
Coalesce(c, s) == FoldLeft(LAMBDA p, x : MergeOnce(p), <<c, s>>, c.list)

CacheSpan(c, s) == LET p == Coalesce(c, s) IN InsertCached(p[1], p[2])

(***************************************************************************)
(* new_span and release_span                                               *)
(***************************************************************************)
Register(s) ==
  /\ active' = active \cup {s}
  /\ pageMap' = [p \in DOMAIN pageMap \cup PagesOf(s) |->
                   IF p \in PagesOf(s) THEN s ELSE pageMap[p]]

HeapInit ==
  /\ active = {}
  /\ cache = [list |-> <<>>, byStart |-> <<>>, byEnd |-> <<>>, bytes |-> 0]
  /\ pageMap = <<>>
  /\ bytes = [active |-> 0, system |-> 0]
  /\ oom = FALSE

(* The cached span that serves a request for n pages: one of n pages, else  *)
(* the smallest larger one.                                                 *)
Source(n) == Back(cache, IF n \in Sizes(cache) THEN n ELSE BestSize(cache, n))
LeftPart(b, n) == [b EXCEPT !.pages = n]
RightPart(b, n) == [b EXCEPT !.start = b.start + n, !.pages = b.pages - n]

NothingCached(n) == \A k \in Sizes(cache) : k < n

(* Mutant: the right part of a split span is forgotten. *)
TakeCachedLosesRemainder(n, b) ==
  /\ cache' = EraseCached(cache, b)
  /\ Register(LeftPart(b, n))
  /\ bytes' = [bytes EXCEPT !.active = @ + n]
  /\ UNCHANGED oom

(* The first critical section of new_span(n) when the cached span b serves  *)
(* it: the left part is handed out, and what is left of a larger span goes  *)
(* back to the cache.                                                       *)
TakeCached(n, b) ==
  /\ cache' = LET c == EraseCached(cache, b) IN
              IF b.pages = n THEN c ELSE CacheSpan(c, RightPart(b, n))
  /\ Register(LeftPart(b, n))
  /\ bytes' = [bytes EXCEPT !.active = @ + n]
  /\ UNCHANGED oom

(* Pages owned by a system allocation, taken : those of the allocations    *)
(* made outside the lock that are not registered yet.                      *)
Owned(taken) == UNION {PagesOf(s) : s \in active \cup ToSet(cache.list) \cup taken}

(* operator new outside the lock: any place where n pages fit. *)
SystemSpans(n, taken) ==
  {s \in {[start |-> p, pages |-> n, base |-> p, total |-> n] : p \in Page} :
     PagesOf(s) \subseteq Page \ Owned(taken)}

(* The second critical section of new_span, for memory from the system *)
RegisterSystem(s) ==
  /\ Register(s)
  /\ bytes' = [active |-> bytes.active + s.pages, system |-> bytes.system + s.pages]
  /\ UNCHANGED <<cache, oom>>

(* Registering it throws: the memory goes back, while spans_ may keep it.   *)
RegisterSystemThrows(s) ==
  /\ active' \in {active, active \cup {s}}
  /\ oom' = TRUE
  /\ UNCHANGED <<cache, pageMap, bytes>>

(* An allocation of the bookkeeping throws in the first section.  When the  *)
(* split itself throws, the span goes back whole.  Otherwise the catch arms *)
(* put the parts back, the right part for the second time, and spans_ keeps *)
(* the span when it is the page map that threw.                             *)
TakeCachedThrows(n, b) ==
  LET c == EraseCached(cache, b)
      r == RightPart(b, n)
      l == LeftPart(b, n) IN
  /\ \/ cache' = CacheSpan(c, b) /\ UNCHANGED active
     \/ /\ cache' = IF b.pages = n THEN CacheSpan(c, b)
                    ELSE CacheSpan(CacheSpan(CacheSpan(c, r), r), l)
        /\ active' \in {active, active \cup {l}}
  /\ oom' = TRUE
  /\ UNCHANGED <<pageMap, bytes>>

ReleaseSpan(s) ==
  /\ s \in active
  /\ active' = active \ {s}
  /\ pageMap' = [p \in DOMAIN pageMap \ PagesOf(s) |-> pageMap[p]]
  /\ bytes' = [bytes EXCEPT !.active = Less(@, s.pages)]
  /\ cache' = CacheSpan(cache, s)
  /\ UNCHANGED oom

(* Caching the span throws: it is neither active nor cached any more. *)
ReleaseSpanThrows(s) ==
  /\ s \in active
  /\ active' = active \ {s}
  /\ pageMap' = [p \in DOMAIN pageMap \ PagesOf(s) |-> pageMap[p]]
  /\ bytes' = [bytes EXCEPT !.active = Less(@, s.pages)]
  /\ cache' = Coalesce(cache, s)[1]
  /\ oom' = TRUE

(* purge_cached_spans gives whole allocations back to the system. *)
Purge ==
  LET whole == {s \in ToSet(cache.list) : IsWhole(s)}
      c == FoldLeft(LAMBDA a, s : IF s \in whole THEN EraseCached(a, s) ELSE a,
                    cache, cache.list)
  IN /\ whole # {}
     /\ cache' = c
     /\ bytes' = [bytes EXCEPT !.system = Less(@, cache.bytes - c.bytes)]
     /\ UNCHANGED <<active, pageMap, oom>>

(* map_object_to_span for an address in page p *)
MapToSpan(p) == IF p \in DOMAIN pageMap /\ p \in PagesOf(pageMap[p])
                THEN {pageMap[p]} ELSE {}
-----------------------------------------------------------------------------
(* The spans of the heap tile the memory it holds: active and cached spans  *)
(* are disjoint, every system allocation is covered to the last page, the   *)
(* page map holds the active spans and nothing else, both indexes of the    *)
(* cache and the three byte counters agree with the lists.  The arms that   *)
(* catch a failed bookkeeping allocation (PageHeap.cpp:390 and 418) break   *)
(* this, so it is stated for runs in which none has failed.                 *)
Tiled ==
  ~oom =>
    LET cached == ToSet(cache.list)
        all == active \cup cached
        held == UNION {PagesOf(s) : s \in all}
        free == UNION {PagesOf(s) : s \in cached} IN
    /\ \A s, t \in all : s # t => PagesOf(s) \cap PagesOf(t) = {}
    /\ Len(cache.list) = Cardinality(cached) /\ active \cap cached = {}
    /\ \A s \in all : s.base .. s.base + s.total - 1 \subseteq held
    /\ DOMAIN pageMap = held \ free
    /\ \A p \in DOMAIN pageMap : pageMap[p] \in active /\ p \in PagesOf(pageMap[p])
    /\ DOMAIN cache.byStart = {s.start : s \in cached}
    /\ DOMAIN cache.byEnd = {End(s) : s \in cached}
    /\ \A s \in cached : cache.byStart[s.start] = s /\ cache.byEnd[End(s)] = s
    /\ bytes.active = Cardinality(DOMAIN pageMap)
    /\ cache.bytes = Cardinality(free)
    /\ bytes.system = Cardinality(held)

(* Free neighbours cut from one system allocation are always merged, so a   *)
(* whole allocation that is free is one span and can be purged              *)
(* (coalesce_span_unlocked, purge_cached_spans).                            *)
Coalesced ==
  ~oom => LET cached == ToSet(cache.list) IN
          \A s, t \in cached : ~(s.base = t.base /\ End(s) = t.start)

(* After any sequence of splits, returns in any order, merges and purges    *)
(* the page heap's spans tile its memory and its indexes and counters       *)
(* agree, and free neighbours are merged (PageHeap.cpp).                    *)
HeapTiled == Tiled /\ Coalesced
=============================================================================
