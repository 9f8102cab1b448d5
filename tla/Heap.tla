-------------------------------- MODULE Heap --------------------------------
(***************************************************************************)
(* The kernel heap of kernel/util/mem.c: kmalloc, krealloc and kfree with  *)
(* the strategy the build selects, quick fit, and ksbrk under them.        *)
(*                                                                         *)
(* Memory is what the code sees of it: a header at an address is the pair  *)
(* size[a], next[a].  The pointer-to-pointer `iter' of the loops is NULL   *)
(* when it points at the head of the list and a when it points at the next *)
(* field of header a.  One action is one turn of a loop.                   *)
(***************************************************************************)
EXTENDS Integers, FiniteSets

CONSTANTS
  LONG,           \* sizeof(long), which blocks are aligned to
  HEADER,         \* sizeof(Header)
  QUICK,          \* size of the blocks of the first quick list
  NRQUICKLISTS,   \* number of quick lists
  PAGE,           \* MMU_PAGE_SIZE
  End,            \* the address `end' of the linker: where the heap starts
  HeapBound,      \* how far the heap may grow: a bound of the model
  LiveBound,      \* how many blocks callers hold: a bound of the model
  Sizes           \* the sizes callers ask for

ASSUME HeapAssumption ==
  /\ LONG \in Nat \ {0} /\ HEADER = 2 * LONG /\ QUICK = 2 * LONG
  /\ NRQUICKLISTS \in 0 .. 4 /\ PAGE \in Nat \ {0} /\ PAGE % LONG = 0
  /\ End \in Nat \ {0} /\ End % LONG = 0 /\ HeapBound \in Nat /\ End <= HeapBound
  /\ Sizes \subseteq Nat

NULL == 0
Addr == {a \in End .. HeapBound : a % LONG = 0}
List == 0 .. NRQUICKLISTS           \* the last one is the general list
Big  == NRQUICKLISTS

VARIABLES
  heap_end,   \* ksbrk's heap_end
  freelist,   \* the heads of the lists
  size,       \* size[a]: the size field of a header at a
  next,       \* next[a]: its next field
  live,       \* the headers of the blocks callers hold
  op          \* the running operation

vars == <<heap_end, freelist, size, next, live, op>>

ALIGN(x) == ((x + LONG - 1) \div LONG) * LONG

ALIGNWITH(x, y) == ((x + y - 1) \div y) * y

QuickSize(l) == QUICK * 2^l

(* A page holds at least one block of every quick list. *)
ASSUME PageAssumption == \A l \in 0 .. NRQUICKLISTS - 1 : QuickSize(l) + HEADER <= PAGE

(* The quick list for a size, or the general list. *)
ListFor(n) ==
  CHOOSE l \in List :
    /\ l < NRQUICKLISTS => n <= QuickSize(l)
    /\ \A k \in 0 .. l - 1 : n > QuickSize(k)

-----------------------------------------------------------------------------
(* want: what kmalloc was asked for, 0 outside of it; old: what krealloc    *)
(* frees afterwards; header and merged: the variables of kfree.             *)
Begin(kind, want, old, header) ==
  [kind |-> kind, want |-> want, old |-> old, iter |-> NULL, header |-> header, merged |-> FALSE]

Idle           == Begin("idle", 0, NULL, NULL)
Search(n, o)   == Begin("malloc", n, o, NULL)
Merge(h, n, o) == Begin("free", n, o, h)
Copy(o)        == Begin("copy", 0, o, NULL)

(* The list the running operation walks, and *iter. *)
Walked == IF op.kind = "malloc" THEN ListFor(op.want) ELSE Big

At == IF op.iter = NULL THEN freelist[Walked] ELSE next[op.iter]

(* *iter = v, given the next fields written before. *)
Store(v, nxt) ==
  IF op.iter = NULL
  THEN freelist' = [freelist EXCEPT ![Walked] = v] /\ next' = nxt
  ELSE next' = [nxt EXCEPT ![op.iter] = v] /\ UNCHANGED freelist

Advance(to) == op' = [op EXCEPT !.iter = to]

EndOf(h) == h + HEADER + size[h]

Init ==
  /\ heap_end = End
  /\ freelist = [l \in List |-> NULL]
  /\ size = [a \in Addr |-> 0]
  /\ next = [a \in Addr |-> NULL]
  /\ live = {}
  /\ op = Idle

-----------------------------------------------------------------------------
(* A faulty variant: the quick path falls through to the merging loop. *)
ReleaseFallsThrough(h) ==
  /\ op' = Merge(h, 0, NULL)
  /\ IF ListFor(size[h]) < NRQUICKLISTS
     THEN /\ next' = [next EXCEPT ![h] = freelist[ListFor(size[h])]]
          /\ freelist' = [freelist EXCEPT ![ListFor(size[h])] = h]
     ELSE UNCHANGED <<next, freelist>>

(* kfree(h + 1): a quick block is pushed on its list, any other one goes    *)
(* through the merging loop.                                                *)
Release(h) ==
  IF ListFor(size[h]) < NRQUICKLISTS
  THEN /\ next' = [next EXCEPT ![h] = freelist[ListFor(size[h])]]
       /\ freelist' = [freelist EXCEPT ![ListFor(size[h])] = h]
       /\ op' = Idle
  ELSE /\ op' = Merge(h, 0, NULL)
       /\ UNCHANGED <<next, freelist>>

KFree(h) ==
  /\ op.kind = "idle"
  /\ h \in live
  /\ live' = live \ {h}
  /\ Release(h)
  /\ UNCHANGED <<heap_end, size>>

(* The list's block and the freed one are neighbours. *)
JoinsLower == EndOf(At) = op.header

(* A faulty variant: the header of the freed block is not allowed for. *)
JoinsUpperTooLow == op.header + size[op.header] = At

JoinsUpper == EndOf(op.header) = At

(* The block in the list that ends where the freed one begins takes it in,  *)
(* leaves the list, and the loop starts again with it.                      *)
MergeLower ==
  /\ op.kind = "free" /\ At # NULL
  /\ JoinsLower
  /\ size' = [size EXCEPT ![At] = @ + HEADER + size[op.header]]
  /\ Store(next[At], next)
  /\ op' = [op EXCEPT !.header = At, !.iter = NULL]
  /\ UNCHANGED <<heap_end, live>>

(* The freed block takes in the one that begins where it ends, and its      *)
(* place in the list.                                                       *)
MergeUpper ==
  /\ op.kind = "free" /\ At # NULL
  /\ ~JoinsLower /\ JoinsUpper
  /\ size' = [size EXCEPT ![op.header] = @ + HEADER + size[At]]
  /\ Store(op.header, [next EXCEPT ![op.header] = next[At]])
  /\ op' = [op EXCEPT !.merged = TRUE, !.iter = op.header]
  /\ UNCHANGED <<heap_end, live>>

MergeSkip ==
  /\ op.kind = "free" /\ At # NULL
  /\ ~JoinsLower /\ ~JoinsUpper
  /\ Advance(At)
  /\ UNCHANGED <<heap_end, freelist, size, next, live>>

(* At the end of the list an unmerged block is pushed; kmalloc, when it was *)
(* the caller, searches again.                                              *)
MergeEnd ==
  /\ op.kind = "free" /\ At = NULL
  /\ IF op.merged
     THEN UNCHANGED <<freelist, next>>
     ELSE /\ next' = [next EXCEPT ![op.header] = freelist[Big]]
          /\ freelist' = [freelist EXCEPT ![Big] = op.header]
  /\ op' = IF op.want = 0 THEN Idle ELSE Search(op.want, op.old)
  /\ UNCHANGED <<heap_end, size, live>>

-----------------------------------------------------------------------------
(* kmalloc(n), and krealloc(o + 1, n) which calls it.  kmalloc(0) changes   *)
(* nothing.                                                                 *)
KMalloc(n) ==
  /\ op.kind = "idle" /\ n > 0
  /\ Cardinality(live) < LiveBound
  /\ op' = Search(n, NULL)
  /\ UNCHANGED <<heap_end, freelist, size, next, live>>

KRealloc(o, n) ==
  /\ op.kind = "idle" /\ n > 0 /\ o \in live
  /\ op' = Search(n, o)
  /\ UNCHANGED <<heap_end, freelist, size, next, live>>

(* A faulty variant: the first block of the list is taken for granted. *)
FitsAlways(h) == TRUE

Fits(h) == size[h] >= op.want

SearchSkip ==
  /\ op.kind = "malloc" /\ At # NULL
  /\ ~Fits(At)
  /\ Advance(At)
  /\ UNCHANGED <<heap_end, freelist, size, next, live>>

Splits(h) == ALIGN(size[h]) > ALIGN(op.want) + HEADER

(* A faulty variant: the lower header is not allowed for. *)
UpperPartTooLow(h) == h + ALIGN(op.want)

UpperPart(h) == h + HEADER + ALIGN(op.want)

(* The block found leaves the list, or leaves its upper part in its place.  *)
Take ==
  /\ op.kind = "malloc" /\ At # NULL
  /\ Fits(At)
  /\ IF Splits(At)
     THEN LET new == UpperPart(At) IN
            /\ size' = [size EXCEPT ![new] = ALIGN(size[At]) - (ALIGN(op.want) + HEADER),
                                    ![At]  = ALIGN(op.want)]
            /\ Store(new, [next EXCEPT ![new] = next[At]])
     ELSE Store(next[At], next) /\ UNCHANGED size
  /\ live' = live \cup {At}
  /\ op' = IF op.old = NULL THEN Idle ELSE Copy(op.old)
  /\ UNCHANGED heap_end

(* krealloc frees the old block once its contents are copied. *)
ReallocFree ==
  /\ op.kind = "copy"
  /\ live' = live \ {op.old}
  /\ Release(op.old)
  /\ UNCHANGED <<heap_end, size>>

(* getmore: ksbrk always grants what it is asked for. *)
Grant == ALIGNWITH(op.want + HEADER, PAGE)

Exhausted == op.kind = "malloc" /\ At = NULL /\ heap_end + Grant <= HeapBound

(* A faulty variant: the head of the list is set before the old one is read. *)
AfterLastPieceLate == heap_end

AfterLastPiece == freelist[Walked]

(* A fresh area for a quick list is cut into its pieces at once. *)
Piece == QuickSize(Walked) + HEADER
Pieces == {heap_end + i * Piece : i \in 0 .. (Grant \div Piece) - 1}
LastPiece == heap_end + ((Grant \div Piece) - 1) * Piece

MoreQuick ==
  /\ Exhausted /\ Walked < NRQUICKLISTS
  /\ heap_end' = heap_end + Grant
  /\ size' = [a \in Addr |-> IF a \in Pieces THEN QuickSize(Walked) ELSE size[a]]
  /\ next' = [a \in Addr |-> IF a = LastPiece THEN AfterLastPiece
                             ELSE IF a \in Pieces THEN a + Piece ELSE next[a]]
  /\ freelist' = [freelist EXCEPT ![Walked] = heap_end]
  /\ Advance(NULL)
  /\ UNCHANGED live

(* Any other area is given to kfree, which may join it to what was free.    *)
MoreBig ==
  /\ Exhausted /\ Walked = Big
  /\ heap_end' = heap_end + Grant
  /\ size' = [size EXCEPT ![heap_end] = Grant - HEADER]
  /\ op' = Merge(heap_end, op.want, op.old)
  /\ UNCHANGED <<freelist, next, live>>

(* The bound of the model: nobody asks for more once the heap is at it.     *)
AtBound ==
  /\ op.kind = "malloc" /\ At = NULL /\ heap_end + Grant > HeapBound
  /\ op' = Idle
  /\ UNCHANGED <<heap_end, freelist, size, next, live>>

-----------------------------------------------------------------------------
Call ==
  \/ \E n \in Sizes : KMalloc(n)
  \/ \E o \in Addr, n \in Sizes : KRealloc(o, n)
  \/ \E h \in Addr : KFree(h)

Step ==
  \/ MergeLower \/ MergeUpper \/ MergeSkip \/ MergeEnd
  \/ SearchSkip \/ Take \/ ReallocFree \/ MoreQuick \/ MoreBig \/ AtBound

Spec == Init /\ [][Call \/ Step]_vars

(* The loops run with interrupts masked or before there are any. *)
FairSpec == Spec /\ WF_vars(Step)

-----------------------------------------------------------------------------
(* Chain[n][h]: the headers the next fields lead to from h, h among them,   *)
(* in n steps.                                                              *)
Chain[n \in 0 .. HeapBound] ==
  [h \in Addr \cup {NULL} |->
     IF h = NULL \/ n = 0 THEN {} ELSE {h} \cup Chain[n - 1][next[h]]]

(* The headers on a list, and on all lists. *)
OnList(l) == Chain[HeapBound][freelist[l]]
Listed == UNION {OnList(l) : l \in List}

Extent(h) == h .. EndOf(h) - 1
Disjoint(g, h) == EndOf(g) <= h \/ EndOf(h) <= g

(* Between two calls no block, header included, overlaps another, whether   *)
(* callers hold them or lists lead to them, and all lie in the heap.        *)
NoOverlap ==
  op.kind = "idle" =>
    /\ live \cap Listed = {}
    /\ \A g, h \in live \cup Listed : g # h => Disjoint(g, h)
    /\ \A h \in live \cup Listed : EndOf(h) <= heap_end

(* No block is on two lists: kmalloc cannot hand it out twice. *)
ListsSeparate ==
  op.kind = "idle" => \A k, l \in List : k # l => OnList(k) \cap OnList(l) = {}

(* The blocks callers hold and the headers in memory, as Allocator sees     *)
(* them.                                                                    *)
Blocks  == [h \in live |-> size[h]]
Headers == [a \in Addr |-> <<size[a], next[a]>>]

Promise == INSTANCE Allocator WITH held <- Blocks, asked <- op.want, memory <- Headers

(* The heap implements the allocator of Allocator: in every turn of every   *)
(* loop, what kmalloc, krealloc and kfree write stays out of the blocks     *)
(* callers hold, and a block handed out is long enough and overlaps none.   *)
ImplementsAllocator == Promise!Spec

(* Every call returns: no loop runs in a circle of next pointers. *)
CallsReturn == []<>(op.kind = "idle")

(* The general list never holds two neighbours: whatever the order in which *)
(* blocks come back, kfree has joined them.                                 *)
Coalesced ==
  op.kind = "idle" => \A g, h \in OnList(Big) : EndOf(g) # h

(* What was freed can be allocated again: with no quick block in the heap,  *)
(* every byte is in a block that a caller holds or that a list leads to.    *)
NothingLost ==
  op.kind = "idle" => UNION {Extent(h) : h \in live \cup Listed} = End .. heap_end - 1
=============================================================================
