------------------------------ MODULE ThreadCache ------------------------------
(***************************************************************************)
(* The thread caches of the memory allocator (tasks/lockfree-memory-       *)
(* allocator-hazard, solution/allocator_ref.cpp): Malloc, Free, Realloc    *)
(* and the end of a thread.  A block may be freed by a thread other than   *)
(* the one that allocated it, and then stays in that thread's cache.       *)
(*                                                                         *)
(* A cache is touched by its own thread only, so every call is one step.   *)
(* A call for which the system has no memory changes nothing, and is left  *)
(* out, as is a call for nothing (Malloc(0), Free(nullptr)).               *)
(***************************************************************************)
EXTENDS Integers, Sequences, SequencesExt

CONSTANTS
  Block,        \* addresses the system allocates
  CacheThread,
  Request,      \* sizes asked for, in bytes
  BinLimit      \* 64: the blocks a bin keeps

ASSUME CacheAssumption == Request \subseteq Nat \ {0} /\ BinLimit \in Nat

VARIABLES
  heap,    \* [capacity, want: of each block; bin, count: of each thread and class]
  ended    \* threads that ended

cacheVars == <<heap, ended>>

Class      == 0 .. 12     \* NUM_SMALL_CLASSES
MaxSmall   == 1024        \* MAX_SMALL_SIZE
NodeSize   == 64          \* sizeof(FreeNode): it is alignas(64)
CopiedSize == 32          \* what Realloc copies

Round16(n) == ((n + 15) \div 16) * 16

SizeToClass(bytes) ==
  CASE bytes <= 16  -> 0
    [] bytes > 16  /\ bytes <= 32   -> 1
    [] bytes > 32  /\ bytes <= 64   -> 2
    [] bytes > 64  /\ bytes <= 128  -> 3
    [] bytes > 128 /\ bytes <= 256  -> 4
    [] bytes > 256 /\ bytes <= 512  -> 5
    [] bytes > 512 /\ bytes <= 1024 -> 6
    [] OTHER -> 12

\* The class whose bin Free returns every block to, whatever its size.
ClassOfFree == 0

\* What the system is asked for when no cached block serves the request.
SystemSizeOfRequest(bytes) == Round16(bytes)
SystemSize(bytes) ==
  IF bytes <= MaxSmall THEN Round16(IF bytes > NodeSize THEN bytes ELSE NodeSize)
                       ELSE Round16(bytes)

CacheInit ==
  /\ heap = [capacity |-> [b \in Block |-> 0],
             want     |-> [b \in Block |-> 0],
             bin      |-> [th \in CacheThread |-> [c \in Class |-> <<>>]],
             count    |-> [th \in CacheThread |-> [c \in Class |-> 0]]]
  /\ ended = {}

InUse == {b \in Block : heap.want[b] > 0}

\* Malloc(bytes) by th returns b.
Cached(th, bytes) == bytes <= MaxSmall /\ heap.bin[th][SizeToClass(bytes)] # <<>>
MayReturn(th, bytes, b) ==
  IF Cached(th, bytes) THEN b = Head(heap.bin[th][SizeToClass(bytes)])
                       ELSE heap.capacity[b] = 0
Taken(th, bytes, b) ==
  LET c == SizeToClass(bytes)
  IN  IF Cached(th, bytes)
      THEN [heap EXCEPT !.want[b] = bytes, !.bin[th][c] = Tail(@), !.count[th][c] = @ - 1]
      ELSE [heap EXCEPT !.want[b] = bytes, !.capacity[b] = SystemSize(bytes)]

\* Deallocate(ClassOfFree, b) by th, of the heap h.
GivenPastLimit(h, th, b) ==
  LET g == [h EXCEPT !.want[b] = 0]
  IN  IF h.count[th][ClassOfFree] <= BinLimit
      THEN [g EXCEPT !.bin[th][ClassOfFree] = <<b>> \o @, !.count[th][ClassOfFree] = @ + 1]
      ELSE [g EXCEPT !.capacity[b] = 0]
Given(h, th, b) ==
  LET g == [h EXCEPT !.want[b] = 0]
  IN  IF h.count[th][ClassOfFree] < BinLimit
      THEN [g EXCEPT !.bin[th][ClassOfFree] = <<b>> \o @, !.count[th][ClassOfFree] = @ + 1]
      ELSE [g EXCEPT !.capacity[b] = 0]

Malloc(th, bytes, b) ==
  /\ MayReturn(th, bytes, b)
  /\ heap' = Taken(th, bytes, b)
  /\ UNCHANGED ended

Free(th, b) ==
  /\ b \in InUse
  /\ heap' = Given(heap, th, b)
  /\ UNCHANGED ended

\* The new block is taken before the old one is returned.
Realloc(th, b, bytes, new) ==
  /\ b \in InUse /\ MayReturn(th, bytes, new)
  /\ heap' = Given(Taken(th, bytes, new), th, b)
  /\ UNCHANGED ended

\* ~ThreadCache.
EndThread(th) ==
  LET left == UNION {Range(heap.bin[th][c]) : c \in Class}
  IN  /\ ended' = ended \union {th}
      /\ heap' = [heap EXCEPT !.capacity = [b \in Block |-> IF b \in left THEN 0 ELSE @[b]],
                              !.bin[th] = [c \in Class |-> <<>>],
                              !.count[th] = [c \in Class |-> 0]]

CacheNext ==
  \E th \in CacheThread \ ended :
    \/ \E b \in Block : \/ \E n \in Request : Malloc(th, n, b)
                        \/ Free(th, b)
                        \/ \E n \in Request, new \in Block : Realloc(th, b, n, new)
    \/ EndThread(th)

CacheSpec == CacheInit /\ [][CacheNext]_cacheVars

(***************************************************************************)
(* Properties                                                              *)
(***************************************************************************)
Places == {p \in CacheThread \X Class \X (1 .. BinLimit) : p[3] <= Len(heap.bin[p[1]][p[2]])}
At(p)  == heap.bin[p[1]][p[2]][p[3]]

\* A block is with the user, in one place of one cache, or with the system: no
\* sequence of calls, by any threads, hands it out twice, caches it twice, returns
\* it to the system while it is still held, or loses it; a cache keeps no more
\* than its limit and knows how many it keeps.
BlocksHaveOneOwner ==
  /\ \A p, q \in Places : At(p) = At(q) => p = q
  /\ \A b \in Block : heap.capacity[b] > 0
       <=> (b \in InUse) # (\E p \in Places : At(p) = b)
  /\ \A b \in InUse : \A p \in Places : At(p) # b
  /\ \A th \in CacheThread, c \in Class :
       heap.count[th][c] = Len(heap.bin[th][c]) /\ heap.count[th][c] <= BinLimit

\* A block holds what was asked for, and the bytes Realloc will copy out of it.
\* Free does not know the size of a block and calls every block one of class 0:
\* that is safe because no block is smaller than a list node.
BlocksAreLargeEnough ==
  \A b \in InUse : /\ heap.capacity[b] >= heap.want[b]
                   /\ heap.capacity[b] >= CopiedSize
===============================================================================
