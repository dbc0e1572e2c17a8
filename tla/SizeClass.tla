----------------------------- MODULE SizeClass -----------------------------
(***************************************************************************)
(* The size classes of the small-object allocator with the numbers of the  *)
(* code (src/myring/include/tcmalloc/SizeClass.hpp), and the facts about   *)
(* them that the caches rely on.  TLC evaluates the assumptions below for  *)
(* every request of a small object and for every class.                    *)
(***************************************************************************)
EXTENDS Naturals, Sequences

kPageSize == 8192
kMaxSmallSize == 8192
kAlignment == 8
kClassSizes ==
  <<8, 16, 24, 32, 40, 48, 56, 64, 80, 96, 112, 128, 160, 192, 224, 256,
    320, 384, 448, 512, 640, 768, 896, 1024, 1280, 1536, 1792, 2048,
    2560, 3072, 3584, 4096, 5120, 6144, 7168, 8192>>
kNumClasses == Len(kClassSizes)

is_small(size) == size > 0 /\ size <= kMaxSmallSize
class_size(c) == kClassSizes[c]

(* find_class_index_slow and the table built from it: the slot of a size    *)
(* holds the first class at least as large.  Classes are numbered from 1.   *)
find_class_index_slow(rounded) ==
  CHOOSE c \in 1 .. kNumClasses :
    rounded <= kClassSizes[c] /\ \A b \in 1 .. c - 1 : rounded > kClassSizes[b]
class_index_by_size ==
  [slot \in 0 .. kMaxSmallSize \div kAlignment - 1 |->
     find_class_index_slow((slot + 1) * kAlignment)]
index(size) == class_index_by_size[(size + kAlignment - 1) \div kAlignment - 1]

(* Objects moved at once: 64 KB of them, at least 2 and at most 64 *)
batch_count(c) ==
  LET n == (64 * 1024) \div class_size(c)
  IN  IF n < 2 THEN 2 ELSE IF n > 64 THEN 64 ELSE n

pages_for_class(c) ==
  LET need == class_size(c) * batch_count(c)
      b == IF need < 64 * 1024 THEN 64 * 1024 ELSE need
  IN  (b + kPageSize - 1) \div kPageSize

max_ranges_for_class(c) ==
  CASE class_size(c) <= 64 -> 64
    [] class_size(c) > 64 /\ class_size(c) <= 256 -> 32
    [] class_size(c) > 256 /\ class_size(c) <= 1024 -> 16
    [] OTHER -> 8

(* A request gets the smallest class that holds it, and the class index can *)
(* be recovered from the object size, which is what mini_free hands to      *)
(* ThreadCache::deallocate.                                                 *)
ASSUME ClassFits ==
  LET table == class_index_by_size IN
  /\ \A size \in 1 .. kMaxSmallSize :
       LET c == table[(size + kAlignment - 1) \div kAlignment - 1] IN
       /\ class_size(c) >= size
       /\ c > 1 => class_size(c - 1) < size
  /\ \A c \in 1 .. kNumClasses : index(class_size(c)) = c

(* A fresh span serves a whole batch, and no class has a list that scavenge *)
(* could not empty in two rounds of one batch each.                         *)
ASSUME BatchFits ==
  \A c \in 1 .. kNumClasses :
    /\ batch_count(c) * class_size(c) <= pages_for_class(c) * kPageSize
    /\ batch_count(c) >= 2 /\ kNumClasses >= 2
=============================================================================
