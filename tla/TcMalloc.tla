------------------------------ MODULE TcMalloc ------------------------------
(***************************************************************************)
(* The small-object allocator of the proxy (src/myring/src/tcmalloc):      *)
(* mini_malloc and mini_free, the cache of every thread, the transfer      *)
(* cache, the central cache with one mutex per size class, and the page    *)
(* heap of module PageHeap below them.                                     *)
(*                                                                         *)
(* A step is one critical section: what a thread does to its own lists, or *)
(* what it does under the mutex of the transfer cache or of the page heap. *)
(* The mutex of a class of the central cache is held across sections of    *)
(* the page heap, so it is a variable.                                     *)
(*                                                                         *)
(* An object is <<first page of its span, its number>>, a large object has *)
(* number 0.  Free lists are sets: which end of a list an object leaves    *)
(* from is left open.                                                      *)
(***************************************************************************)
EXTENDS PageHeap, FiniteSetsExt

CONSTANTS
  Threads, NoThread,
  NumClasses,     \* kNumClasses
  PageSize,       \* kPageSize
  ClassSize,      \* class_size, per class
  PagesFor,       \* pages_for_class
  Batch,          \* batch_count
  MaxRanges,      \* max_ranges_for_class
  Limit,          \* cache_limit_bytes_
  LargePages,     \* page counts of the large objects that are asked for
  MaxHeld         \* bound: objects the program holds when it asks for one more

Class == 1 .. NumClasses

ASSUME TcMallocConstants ==
  /\ NoThread \notin Threads
  /\ NumClasses \in Nat \ {0} /\ Limit \in Nat \ {0}
  /\ \A c \in Class : PagesFor[c] * PageSize >= Batch[c] * ClassSize[c]

VARIABLES
  info,        \* first page -> [class, count, free]: class_index, object_count
               \* and central_free_count of a span cut into objects
  central,     \* class -> [mutex, spans, free, total]
  transfer,    \* class -> sequence of ranges
  local,       \* thread -> class -> free list of its ThreadCache
  cachedBytes, \* thread -> cached_bytes_
  user,        \* objects the program holds
  th           \* thread -> where it is in the allocator

cacheVars == <<info, central, transfer, local, cachedBytes, user, th>>
vars == <<heapVars, cacheVars>>

(* pc and, as far as they matter there: the class, the objects in hand,    *)
(* the pages asked for (0: a small object), the span found or obtained,    *)
(* ranges still to be given back, what comes after them, and the position  *)
(* of scavenge().                                                          *)
Idle == [pc |-> "idle", class |-> 0, hand |-> {}, want |-> 0, span |-> {},
         todo |-> <<>>, then |-> "idle", round |-> 0, i |-> 0]

Target == IF (Limit * 3) \div 4 = 0 THEN 1 ELSE (Limit * 3) \div 4
ObjectCount(c) == (PagesFor[c] * PageSize) \div ClassSize[c]
ObjectsOf(s) == {s.start} \X (1 .. info[s.start].count)
BytesIn(l) == FoldSet(LAMBDA c, n : n + Cardinality(l[c]) * ClassSize[c], 0, Class)
PopRange(free, n) == {r \in SUBSET free : Cardinality(r) = IF n < Cardinality(free)
                                                           THEN n ELSE Cardinality(free)}

Init ==
  /\ HeapInit
  /\ info = <<>>
  /\ central = [c \in Class |-> [mutex |-> NoThread, spans |-> {}, free |-> {}, total |-> 0]]
  /\ transfer = [c \in Class |-> <<>>]
  /\ local = [t \in Threads |-> [c \in Class |-> {}]]
  /\ cachedBytes = [t \in Threads |-> 0]
  /\ user = {}
  /\ th = [t \in Threads |-> Idle]

(* Nothing is said of the heap after a failure of its own bookkeeping.     *)
At(t, pc) == ~oom /\ th[t].pc = pc
Goto(t, r) == th' = [th EXCEPT ![t] = r]

(***************************************************************************)
(* mini_malloc                                                             *)
(***************************************************************************)
MallocLarge(t, n) ==
  /\ At(t, "idle")
  /\ Cardinality(user) < MaxHeld
  /\ Goto(t, [Idle EXCEPT !.pc = "newspan", !.want = n])
  /\ UNCHANGED <<heapVars, info, central, transfer, local, cachedBytes, user>>

(* The rest of fetch_from_central once a range r has come back: it joins   *)
(* the local list, and one object of the list is returned.                 *)
Receive(t, c, r) ==
  \E o \in r :
    /\ local' = [local EXCEPT ![t][c] = (@ \cup r) \ {o}]
    /\ cachedBytes' = [cachedBytes EXCEPT ![t] = @ + (Cardinality(r) - 1) * ClassSize[c]]
    /\ user' = user \cup {o}
    /\ Goto(t, Idle)

(* ThreadCache::allocate: the local list, then TransferCache::fetch_range,  *)
(* which gives its last range whatever its size, then the central cache.    *)
MallocSmall(t, c) ==
  /\ At(t, "idle")
  /\ Cardinality(user) < MaxHeld
  /\ \/ \E o \in local[t][c] :
          /\ local' = [local EXCEPT ![t][c] = @ \ {o}]
          /\ cachedBytes' = [cachedBytes EXCEPT ![t] = @ - ClassSize[c]]
          /\ user' = user \cup {o}
          /\ UNCHANGED <<transfer, th>>
     \/ /\ local[t][c] = {} /\ transfer[c] # <<>>
        /\ Receive(t, c, Last(transfer[c]))
        /\ transfer' = [transfer EXCEPT ![c] = Front(@)]
     \/ /\ local[t][c] = {} /\ transfer[c] = <<>>
        /\ Goto(t, [Idle EXCEPT !.pc = "central", !.class = c])
        /\ UNCHANGED <<transfer, local, cachedBytes, user>>
  /\ UNCHANGED <<heapVars, info, central>>

(* Mutant: the objects handed out stay counted as free in their span. *)
ServeUncounted(t, c, k, f) ==
  \E r \in PopRange(k.free, Batch[c]) :
    /\ central' = [central EXCEPT ![c] = [k EXCEPT !.free = @ \ r, !.mutex = NoThread]]
    /\ info' = f
    /\ Receive(t, c, r)

(* pop_range and on_fetch_range_unlocked on the state of class c that k    *)
(* gives, with the spans' counters f; the mutex is released.               *)
Serve(t, c, k, f) ==
  \E r \in PopRange(k.free, Batch[c]) :
    /\ central' = [central EXCEPT ![c] = [k EXCEPT !.free = @ \ r, !.mutex = NoThread]]
    /\ info' = [p \in DOMAIN f |->
                  [f[p] EXCEPT !.free = Less(@, Cardinality({o \in r : o[1] = p}))]]
    /\ Receive(t, c, r)

(* CentralCache::fetch_range *)
FetchCentral(t) ==
  LET c == th[t].class IN
  /\ At(t, "central")
  /\ central[c].mutex = NoThread
  /\ \/ /\ central[c].free # {}
        /\ Serve(t, c, central[c], info)
     \/ /\ central[c].free = {}
        /\ central' = [central EXCEPT ![c].mutex = t]
        /\ Goto(t, [th[t] EXCEPT !.pc = "newspan"])
        /\ UNCHANGED <<info, local, cachedBytes, user>>
  /\ UNCHANGED <<heapVars, transfer>>

(* populate_unlocked: the new span is cut, all its objects are free.       *)
Populate(t, c, s) ==
  LET n == ObjectCount(c)
      k == central[c] IN
  Serve(t, c,
        [k EXCEPT !.spans = @ \cup {s}, !.total = @ + n,
                  !.free = @ \cup ({s.start} \X (1 .. n))],
        Put(info, s.start, [class |-> c, count |-> n, free |-> n]))

(* A span has been found: a class is populated, unless its vector of spans *)
(* cannot grow, a large object returned.                                   *)
GiveSpan(t, s) ==
  \/ /\ th[t].want = 0
     /\ Populate(t, th[t].class, s)
  \/ /\ th[t].want = 0
     /\ Goto(t, [th[t] EXCEPT !.pc = "undo", !.span = {s}])
     /\ UNCHANGED <<info, central, local, cachedBytes, user>>
  \/ /\ th[t].want # 0
     /\ user' = user \cup {<<s.start, 0>>}
     /\ Goto(t, Idle)
     /\ UNCHANGED <<info, central, local, cachedBytes>>

(* new_span, or populate_unlocked after it, fails: malloc returns nullptr. *)
MallocFails(t) ==
  /\ Goto(t, Idle)
  /\ IF th[t].want = 0 THEN central' = [central EXCEPT ![th[t].class].mutex = NoThread]
     ELSE UNCHANGED central
  /\ UNCHANGED <<info, local, cachedBytes, user>>

PagesWanted(t) == IF th[t].want = 0 THEN PagesFor[th[t].class] ELSE th[t].want

(* The first section of new_span, and operator new after it when nothing   *)
(* cached is large enough.                                                 *)
NewSpan(t) ==
  LET n == PagesWanted(t) IN
  /\ At(t, "newspan")
  /\ \/ /\ ~NothingCached(n)
        /\ LET b == Source(n) IN
             \/ TakeCached(n, b) /\ GiveSpan(t, LeftPart(b, n))
             \/ TakeCachedThrows(n, b) /\ MallocFails(t)
     \/ /\ NothingCached(n)
        /\ UNCHANGED heapVars
        /\ \/ /\ \E s \in SystemSpans(n, UNION {th[u].span : u \in Threads}) :
                   Goto(t, [th[t] EXCEPT !.pc = "system", !.span = {s}])
              /\ UNCHANGED <<info, central, local, cachedBytes, user>>
           \/ MallocFails(t)
  /\ UNCHANGED transfer

NewSystemSpan(t) ==
  /\ At(t, "system")
  /\ \E s \in th[t].span : \/ RegisterSystem(s) /\ GiveSpan(t, s)
                           \/ RegisterSystemThrows(s) /\ MallocFails(t)
  /\ UNCHANGED transfer

(* populate_unlocked gives the span back. *)
Undo(t) ==
  /\ At(t, "undo")
  /\ \E s \in th[t].span : ReleaseSpan(s) \/ ReleaseSpanThrows(s)
  /\ MallocFails(t)
  /\ UNCHANGED transfer

(***************************************************************************)
(* mini_free                                                               *)
(***************************************************************************)
(* The page map is read under the heap's mutex, the span it gives after.   *)
Free(t, o) ==
  /\ At(t, "idle")
  /\ o \in user
  /\ user' = user \ {o}
  /\ Goto(t, [Idle EXCEPT !.pc = "freeing", !.hand = {o}, !.span = MapToSpan(o[1])])
  /\ UNCHANGED <<heapVars, info, central, transfer, local, cachedBytes>>

(* Mutant: only the limit of each list is looked at. *)
AtLimitNever(b) == Idle

(* The end of deallocate(): scavenge() when b bytes are over the limit.     *)
AtLimit(b) == IF b > Limit THEN [Idle EXCEPT !.pc = "scavenge", !.i = NumClasses] ELSE Idle

(* ThreadCache::deallocate up to its first release_to_central, or          *)
(* release_span for a large object.                                        *)
Deallocate(t) ==
  \E s \in th[t].span, o \in th[t].hand :
    /\ At(t, "freeing")
    /\ IF s.start \in DOMAIN info
       THEN LET c == info[s.start].class
                l == local[t][c] \cup {o} IN
            \E r \in IF Cardinality(l) >= 2 * Batch[c] THEN PopRange(l, Batch[c]) ELSE {{}} :
              /\ local' = [local EXCEPT ![t][c] = l \ r]
              /\ cachedBytes' = [cachedBytes EXCEPT
                                   ![t] = @ + (1 - Cardinality(r)) * ClassSize[c]]
              /\ Goto(t, IF r = {} THEN AtLimit(cachedBytes'[t])
                         ELSE [Idle EXCEPT !.pc = "give", !.class = c, !.hand = r,
                                           !.then = "limit"])
              /\ UNCHANGED heapVars
       ELSE /\ ReleaseSpan(s) \/ ReleaseSpanThrows(s)
            /\ Goto(t, Idle)
            /\ UNCHANGED <<local, cachedBytes>>
    /\ UNCHANGED <<info, central, transfer, user>>

(* scavenge() goes from the largest class down, one batch per class and at  *)
(* most NumClasses rounds, until three quarters of the limit.               *)
Scavenge(t) ==
  LET full == {c \in 1 .. th[t].i : local[t][c] # {}} IN
  /\ At(t, "scavenge")
  /\ \/ /\ cachedBytes[t] > Target /\ full # {}
        /\ LET c == Max(full) IN
           \E r \in PopRange(local[t][c], Batch[c]) :
             /\ local' = [local EXCEPT ![t][c] = @ \ r]
             /\ cachedBytes' = [cachedBytes EXCEPT ![t] = @ - Cardinality(r) * ClassSize[c]]
             /\ Goto(t, [th[t] EXCEPT !.pc = "give", !.class = c, !.hand = r,
                                      !.then = "scavenge", !.i = c - 1])
     \/ /\ cachedBytes[t] <= Target \/ full = {}
        /\ Goto(t, IF cachedBytes[t] > Target /\ th[t].round + 1 < NumClasses
                   THEN [th[t] EXCEPT !.round = @ + 1, !.i = NumClasses] ELSE Idle)
        /\ UNCHANGED <<local, cachedBytes>>
  /\ UNCHANGED <<heapVars, info, central, transfer, user>>

(* What follows a range given back: the next one of todo, straight to the  *)
(* central cache when it was drained from the transfer cache, or then.     *)
After(t, r) ==
  CASE r.todo # <<>> ->
         [r EXCEPT !.pc = IF r.then = "drained" THEN "giveCentral" ELSE "give",
                   !.class = Head(r.todo)[1], !.hand = Head(r.todo)[2], !.todo = Tail(@)]
    [] r.todo = <<>> /\ r.then = "limit" -> AtLimit(cachedBytes[t])
    [] r.todo = <<>> /\ r.then = "scavenge" ->
         [r EXCEPT !.pc = "scavenge", !.hand = {}, !.class = 0]
    [] OTHER -> Idle

(* TransferCache::release_range: kept as one range, or passed on when the  *)
(* class has its ranges or the vector cannot grow.                         *)
Give(t) ==
  LET c == th[t].class IN
  /\ At(t, "give")
  /\ \/ /\ Len(transfer[c]) < MaxRanges[c]
        /\ transfer' = [transfer EXCEPT ![c] = Append(@, th[t].hand)]
        /\ Goto(t, After(t, th[t]))
     \/ /\ Goto(t, [th[t] EXCEPT !.pc = "giveCentral"])
        /\ UNCHANGED transfer
  /\ UNCHANGED <<heapVars, info, central, local, cachedBytes, user>>

(* CentralCache::release_range: the spans' counters, then the list.        *)
GiveCentral(t) ==
  LET c == th[t].class
      r == th[t].hand IN
  /\ At(t, "giveCentral")
  /\ central[c].mutex = NoThread
  /\ info' = [p \in DOMAIN info |->
                [info[p] EXCEPT !.free = @ + Cardinality({o \in r : o[1] = p})]]
  /\ central' = [central EXCEPT ![c].mutex = t, ![c].free = @ \cup r]
  /\ Goto(t, [th[t] EXCEPT !.pc = "sweep", !.hand = {}])
  /\ UNCHANGED <<heapVars, transfer, local, cachedBytes, user>>

(* Mutant: a span is given back as soon as one of its objects is. *)
EmptySpansEarly(c) ==
  {s \in central[c].spans : info[s.start].free >= 1}

(* Spans of class c all of whose objects are back, by the span's counter   *)
(* and by count_if over the list.                                          *)
EmptySpans(c) ==
  {s \in central[c].spans :
     /\ info[s.start].free = info[s.start].count
     /\ Cardinality({o \in central[c].free : o[1] = s.start}) = info[s.start].count}

(* release_empty_spans_unlocked: each empty span is taken out of the class *)
(* and given to the page heap, then the mutex is released.                 *)
Sweep(t) ==
  LET c == th[t].class IN
  /\ At(t, "sweep")
  /\ \/ \E s \in EmptySpans(c) :
          /\ central' = [central EXCEPT ![c].spans = @ \ {s},
                                        ![c].free = {o \in @ : o[1] # s.start},
                                        ![c].total = Less(@, info[s.start].count)]
          /\ ReleaseSpan(s) \/ ReleaseSpanThrows(s)
          /\ info' = Drop(info, s.start)
          /\ UNCHANGED th
     \/ /\ EmptySpans(c) = {}
        /\ central' = [central EXCEPT ![c].mutex = NoThread]
        /\ Goto(t, After(t, th[t]))
        /\ UNCHANGED <<heapVars, info>>
  /\ UNCHANGED <<transfer, local, cachedBytes, user>>

(* A thread ends: ~ThreadCache gives every list back whole (release_all).  *)
(* Its place is taken by a new thread with an empty cache.                 *)
ThreadExit(t) ==
  LET full == SetToSortSeq({c \in Class : local[t][c] # {}}, <) IN
  /\ At(t, "idle")
  /\ full # <<>>
  /\ Goto(t, After(t, [Idle EXCEPT !.todo = [k \in DOMAIN full |->
                                            <<full[k], local[t][full[k]]>>]]))
  /\ local' = [local EXCEPT ![t] = [c \in Class |-> {}]]
  /\ cachedBytes' = [cachedBytes EXCEPT ![t] = 0]
  /\ UNCHANGED <<heapVars, info, central, transfer, user>>

(* TransferCache::drain_class *)
Drain(t, c) ==
  /\ At(t, "idle")
  /\ transfer[c] # <<>>
  /\ Goto(t, After(t, [Idle EXCEPT !.then = "drained",
                                !.todo = [k \in DOMAIN transfer[c] |-> <<c, transfer[c][k]>>]]))
  /\ transfer' = [transfer EXCEPT ![c] = <<>>]
  /\ UNCHANGED <<heapVars, info, central, local, cachedBytes, user>>

PurgeCached(t) ==
  /\ At(t, "idle")
  /\ Purge
  /\ UNCHANGED cacheVars

Next ==
  \E t \in Threads :
    \/ \E c \in Class : MallocSmall(t, c) \/ Drain(t, c)
    \/ \E n \in LargePages : MallocLarge(t, n)
    \/ FetchCentral(t) \/ NewSpan(t) \/ NewSystemSpan(t) \/ Undo(t)
    \/ \E o \in user : Free(t, o)
    \/ Deallocate(t) \/ Scavenge(t)
    \/ Give(t) \/ GiveCentral(t) \/ Sweep(t)
    \/ ThreadExit(t) \/ PurgeCached(t)

Spec == Init /\ [][Next]_vars
-----------------------------------------------------------------------------
(* Every object of a span cut into objects is in exactly one place: with    *)
(* the program, in a thread's list, in a range of the transfer cache, in    *)
(* the central list, or in the hands of a thread between two of them; and   *)
(* no list holds an object of a span that went back to the page heap        *)
(* (CentralCache::release_empty_spans_unlocked, ThreadCache, TransferCache).*)
(* In particular the span that mini_free looked up before it reads          *)
(* class_index without a lock is still there.                               *)
OneHome ==
  ~oom =>
    LET small == UNION {ObjectsOf(s) : s \in {a \in active : a.start \in DOMAIN info}}
        undone == UNION {th[t].span : t \in {u \in Threads : th[u].pc = "undo"}}
        large == {<<s.start, 0>> : s \in {a \in active \ undone : a.start \notin DOMAIN info}}
        lists == {central[c].free : c \in Class}
                 \cup UNION {ToSet(transfer[c]) : c \in Class}
                 \cup UNION {{local[t][c] : c \in Class} : t \in Threads}
                 \cup {th[t].hand : t \in Threads}
                 \cup UNION {{r[2] : r \in ToSet(th[t].todo)} : t \in Threads}
                 \cup {user}
        size == FoldSet(LAMBDA l, n : n + Cardinality(l), 0, lists \ {{}}) IN
    /\ UNION lists = small \cup large
    /\ size = Cardinality(small \cup large)
    /\ \A t \in Threads : th[t].pc = "freeing" => th[t].span # {} /\ th[t].span \subseteq active

(* The counters the allocator decides by are exact when no thread is inside *)
(* the class: central_free_count of a span is the number of its objects in  *)
(* the central list, total_objects the number cut from the class's spans,   *)
(* and no span with all its objects back is kept; cached_bytes_ of a thread *)
(* is the size of its lists.                                                *)
CountsExact ==
  ~oom =>
    /\ \A t \in Threads : cachedBytes[t] = BytesIn(local[t])
    /\ \A c \in Class : central[c].mutex = NoThread =>
         /\ \A s \in central[c].spans :
              /\ s \in active /\ info[s.start].class = c
              /\ info[s.start].free = Cardinality({o \in central[c].free : o[1] = s.start})
              /\ info[s.start].free < info[s.start].count
         /\ central[c].total = Cardinality(UNION {ObjectsOf(s) : s \in central[c].spans})
    /\ \A p \in DOMAIN info : \E s \in central[info[p].class].spans : s.start = p

(* A thread that comes back from free() holds at most the limit of its      *)
(* cache, although scavenge() gives up after one round per class            *)
(* (ThreadCache.cpp:176).                                                   *)
LimitRespected ==
  [][\A t \in Threads :
       (/\ th[t].pc \in {"freeing", "scavenge"} \/ th[t].then \in {"limit", "scavenge"}
        /\ th'[t].pc = "idle")
         => cachedBytes'[t] <= Limit]_vars
=============================================================================
