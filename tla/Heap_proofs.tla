----------------------------- MODULE Heap_proofs -----------------------------
(***************************************************************************)
(* Proofs about the kernel heap, for every size of word and page, every    *)
(* number of quick lists and every sequence of calls.                      *)
(*                                                                         *)
(* The invariant does not speak of what a list leads to, which takes a     *)
(* recursion, but of where each header is: a function w from addresses to  *)
(* places that the heads and the next fields respect.  A list then leads   *)
(* to headers in its own place only, by an induction done once.            *)
(***************************************************************************)
EXTENDS Heap, NumberLemmas

-----------------------------------------------------------------------------
(* Numbers *)

(* The constants are numbers, and sizes and addresses aligned ones. *)
LEMMA Constants ==
  /\ LONG \in Nat /\ LONG > 0 /\ HEADER \in Nat /\ HEADER > 0 /\ HEADER % LONG = 0
  /\ PAGE \in Nat /\ PAGE > 0 /\ PAGE % LONG = 0
  /\ End \in Nat /\ End > 0 /\ End % LONG = 0 /\ HeapBound \in Nat /\ End <= HeapBound
  /\ QUICK \in Nat /\ QUICK > 0 /\ QUICK % LONG = 0
  /\ NRQUICKLISTS \in 0 .. 4 /\ Big \in List /\ NULL \notin Addr
<1>1. /\ LONG \in Nat /\ LONG > 0 /\ HEADER = 2 * LONG /\ QUICK = 2 * LONG
      /\ PAGE \in Nat /\ PAGE > 0 /\ PAGE % LONG = 0
      /\ End \in Nat /\ End > 0 /\ End % LONG = 0 /\ HeapBound \in Nat /\ End <= HeapBound
      /\ NRQUICKLISTS \in 0 .. 4
  BY HeapAssumption DEF HeapAssumption
<1>2. LONG % LONG = 0
  BY <1>1, Multiples
<1>3. (2 * LONG) % LONG = 0
  BY <1>1, <1>2, MultipleProduct
<1>4. Big \in List /\ NULL \notin Addr
  BY <1>1 DEF Big, List, NULL, Addr
<1> QED BY <1>1, <1>3, <1>4

(* Addresses are numbers that are not NULL. *)
LEMMA Addresses == \A a \in Addr : a \in Nat /\ a > 0 /\ a # NULL /\ a >= End /\ a % LONG = 0
BY Constants DEF Addr, NULL

(* An aligned number between the ends of the heap is an address. *)
LEMMA IsAddress ==
  ASSUME NEW a \in Nat, a % LONG = 0, End <= a, a <= HeapBound
  PROVE  a \in Addr
BY Constants DEF Addr

(* Differences of aligned numbers are aligned. *)
LEMMA AlignedDifference ==
  \A a, b \in Nat : a % LONG = 0 /\ b % LONG = 0 /\ b <= a => (a - b) % LONG = 0
<1>1. SUFFICES ASSUME NEW a \in Nat, NEW b \in Nat, a % LONG = 0, b % LONG = 0, b <= a
               PROVE  (a - b) % LONG = 0
  OBVIOUS
<1>2. LONG \in Nat /\ LONG > 0
  BY Constants
<1> QED BY <1>1, <1>2, MultipleDifference

(* Sums of aligned numbers are aligned. *)
LEMMA AlignedSum ==
  \A a, b \in Nat : a % LONG = 0 /\ b % LONG = 0 => (a + b) % LONG = 0 /\ a + b \in Nat
<1>1. SUFFICES ASSUME NEW a \in Nat, NEW b \in Nat, a % LONG = 0, b % LONG = 0
               PROVE  (a + b) % LONG = 0
  OBVIOUS
<1>2. LONG \in Nat /\ LONG > 0
  BY Constants
<1> QED BY <1>1, <1>2, MultipleSum

Sized == {n \in Nat : n % LONG = 0}

(* ALIGN rounds up, and leaves an aligned size alone. *)
LEMMA AlignFacts ==
  ASSUME NEW n \in Nat
  PROVE  ALIGN(n) \in Sized /\ n <= ALIGN(n) /\ (n \in Sized => ALIGN(n) = n)
<1>1. LONG \in Nat /\ LONG > 0
  BY Constants
<1>2. ALIGN(n) = ((n + LONG - 1) \div LONG) * LONG
  BY DEF ALIGN
<1>3. ALIGN(n) \in Nat /\ ALIGN(n) % LONG = 0 /\ n <= ALIGN(n)
  <2> DEFINE r == ALIGN(n)
  <2>1. r = ((n + LONG - 1) \div LONG) * LONG
    BY <1>2
  <2> HIDE DEF r
  <2>2. r \in Nat /\ r % LONG = 0 /\ n <= r
    BY <1>1, <2>1, RoundUp
  <2> QED BY <2>2 DEF r
<1>4. ASSUME n % LONG = 0 PROVE ALIGN(n) = n
  BY <1>1, <1>2, <1>4, RoundUpSame
<1> QED BY <1>3, <1>4 DEF Sized

(* The sizes of quick blocks are aligned. *)
LEMMA QuickFacts ==
  ASSUME NEW l \in 0 .. NRQUICKLISTS
  PROVE  QuickSize(l) \in Sized /\ QuickSize(l) > 0
<1>1. l \in 0 .. 4
  BY Constants
<1>2. 2^l \in Nat /\ 2^l > 0
  <2>1. CASE l = 0
    <3>1. 2^0 \in Nat /\ 2^0 > 0
      OBVIOUS
    <3> QED BY <2>1, <3>1
  <2>2. CASE l = 1
    <3>1. 2^1 \in Nat /\ 2^1 > 0
      OBVIOUS
    <3> QED BY <2>2, <3>1
  <2>3. CASE l = 2
    <3>1. 2^2 \in Nat /\ 2^2 > 0
      OBVIOUS
    <3> QED BY <2>3, <3>1
  <2>4. CASE l = 3
    <3>1. 2^3 \in Nat /\ 2^3 > 0
      OBVIOUS
    <3> QED BY <2>4, <3>1
  <2>5. CASE l = 4
    <3>1. 2^4 \in Nat /\ 2^4 > 0
      OBVIOUS
    <3> QED BY <2>5, <3>1
  <2> QED BY <1>1, <2>1, <2>2, <2>3, <2>4, <2>5
<1> DEFINE k == 2^l
<1>3. k \in Nat /\ k > 0
  BY <1>2
<1> HIDE DEF k
<1>4. QuickSize(l) = QUICK * k
  BY DEF QuickSize, k
<1>5. (k * QUICK) % LONG = 0 /\ k * QUICK \in Nat
  BY <1>3, Constants, MultipleProduct
<1>6. QUICK * k = k * QUICK /\ QUICK * k > 0
  BY <1>3, Constants
<1> QED BY <1>4, <1>5, <1>6 DEF Sized

(* There is a list for every size. *)
LEMMA ListForType ==
  ASSUME NEW n \in Nat
  PROVE  ListFor(n) \in List
<1> DEFINE T == {l \in List : l < NRQUICKLISTS => n <= QuickSize(l)}
<1>1. \A l \in List : l \in Nat /\ QuickSize(l) \in Nat /\ l <= NRQUICKLISTS
  BY QuickFacts, Constants DEF List, Sized
<1>2. T \subseteq Nat /\ NRQUICKLISTS \in T
  BY <1>1, Constants DEF List
<1>3. PICK l \in T : \A k \in T : l <= k
  <2> HIDE DEF T
  <2> QED BY <1>2, Least
<1>4. \A k \in 0 .. l - 1 : k \in List /\ k \notin T /\ n > QuickSize(k)
  <2> TAKE k \in 0 .. l - 1
  <2>1. l \in Nat /\ l <= NRQUICKLISTS
    BY <1>1
  <2>2. k \in List /\ k < NRQUICKLISTS /\ k < l
    BY <2>1, Constants DEF List
  <2>3. k \notin T
    BY <1>3, <2>1, <2>2
  <2>4. QuickSize(k) \in Nat
    BY <1>1, <2>2
  <2> QED BY <2>2, <2>3, <2>4
<1> QED BY <1>3, <1>4 DEF ListFor

(* What getmore asks of ksbrk: whole pages, with room for the block. *)
LEMMA GrantFacts ==
  ASSUME op.want \in Nat
  PROVE  /\ Grant \in Sized /\ Grant >= op.want + HEADER /\ Grant >= PAGE
<1> DEFINE n == op.want + HEADER
           r == Grant
<1>1. n \in Nat /\ n > 0 /\ PAGE \in Nat /\ PAGE > 0
  BY Constants
<1>2. r = ((n + PAGE - 1) \div PAGE) * PAGE
  BY DEF Grant, ALIGNWITH
<1> HIDE DEF n, r
<1>3. r \in Nat /\ r % PAGE = 0 /\ n <= r
  BY <1>1, <1>2, RoundUp
<1>4. PICK q \in Nat : r = PAGE * q
  BY <1>1, <1>3, Multiples
<1>5. q >= 1
  BY <1>1, <1>3, <1>4
<1>6. r >= PAGE
  <2>1. PAGE * (q - 1) >= 0 /\ PAGE * q = PAGE * (q - 1) + PAGE
    BY <1>1, <1>5
  <2> QED BY <2>1, <1>4, <1>1
<1>7. r % LONG = 0
  <2>1. (q * PAGE) % LONG = 0
    BY Constants, MultipleProduct
  <2>2. q * PAGE = r
    BY <1>1, <1>4
  <2> QED BY <2>1, <2>2
<1> QED BY <1>1, <1>3, <1>6, <1>7 DEF n, r, Sized

-----------------------------------------------------------------------------
(* The invariant *)

Operation ==
  [kind : {"idle", "malloc", "free", "copy"}, want : Nat, old : Addr \cup {NULL},
   iter : Addr \cup {NULL}, header : Addr \cup {NULL}, merged : BOOLEAN]

TypeOK ==
  /\ heap_end \in Nat /\ heap_end % LONG = 0 /\ End <= heap_end /\ heap_end <= HeapBound
  /\ freelist \in [List -> Addr \cup {NULL}]
  /\ size \in [Addr -> Sized]
  /\ next \in [Addr -> Addr \cup {NULL}]
  /\ live \in SUBSET Addr
  /\ op \in Operation

(* The places beside the lists: held by a caller; in the hands of kfree and *)
(* on no list yet; and no header that counts.                               *)
Held    == NRQUICKLISTS + 1
Pending == NRQUICKLISTS + 2
Nowhere == NRQUICKLISTS + 3
Place   == 0 .. NRQUICKLISTS + 3

(* The blocks of the headers that count do not overlap and lie in the heap. *)
Space(w) ==
  /\ \A a, b \in Addr : a # b /\ w[a] # Nowhere /\ w[b] # Nowhere => Disjoint(a, b)
  /\ \A a \in Addr : w[a] # Nowhere => EndOf(a) <= heap_end

(* Heads and next fields lead to headers in the place of the list, and each *)
(* header is led to from one of them at most.                               *)
Lists(w) ==
  /\ \A l \in List : freelist[l] # NULL => w[freelist[l]] = l
  /\ \A a \in Addr : w[a] \in List /\ next[a] # NULL =>
       w[next[a]] = w[a] /\ next[a] # freelist[w[a]]
  /\ \A a, b \in Addr :
       w[a] \in List /\ w[b] \in List /\ next[a] = next[b] /\ next[a] # NULL => a = b

(* r falls along the next fields: no list runs in a circle. *)
Ranked(w, r) ==
  \A a \in Addr : w[a] \in List /\ next[a] # NULL => r[next[a]] < r[a]

(* No two blocks of the general list are neighbours. *)
Apart(w) == \A a, b \in Addr : w[a] = Big /\ w[b] = Big => EndOf(a) # b

(* Between kfree's redo and the end of its loop, V are the headers it has   *)
(* gone past, from the head to iter.                                        *)
Passed(w, V) ==
  /\ V \subseteq {a \in Addr : w[a] = Big}
  /\ op.iter = NULL => V = {}
  /\ op.iter # NULL =>
       op.iter \in V /\ freelist[Big] \in V /\ \A a \in V \ {op.iter} : next[a] \in V
  /\ \A a \in V : EndOf(a) # op.header

(* The freed block is on no list, and no neighbour of it was passed. *)
Unmerged(w, V) ==
  ~op.merged /\ w[op.header] = Pending /\ Apart(w) /\ \A a \in V : EndOf(op.header) # a

(* The freed block took the place of its upper neighbour.  Its lower one    *)
(* may be further down the list.                                            *)
MergedUpper(w, V) ==
  /\ op.merged /\ op.header \in V
  /\ \A a, b \in Addr : w[a] = Big /\ w[b] = Big /\ EndOf(a) = b => b = op.header /\ a \notin V

(* Then that was found too: the code takes the lower one off the list,      *)
(* which from here on is lost, and the freed block stays on it.             *)
MergedBoth(w) ==
  /\ op.merged /\ w[op.header] = Nowhere /\ Apart(w)
  /\ \A a \in Addr : w[a] = Big => EndOf(a) # op.header
  /\ \E b \in Addr : w[b] = Big /\ EndOf(b) = EndOf(op.header)

Merging(w, V) ==
  /\ op.header # NULL
  /\ Passed(w, V)
  /\ Unmerged(w, V) \/ MergedUpper(w, V) \/ MergedBoth(w)

OpInv(w) ==
  /\ op.iter # NULL => w[op.iter] = Walked
  /\ op.old # NULL => op.old \in live
  /\ op.kind = "copy" => op.old # NULL
  /\ op.kind = "malloc" => op.want > 0
  /\ \A a \in Addr : w[a] = Pending => op.kind = "free" /\ ~op.merged /\ a = op.header

(* What holds of the places in every step. *)
Placed(w, r) ==
  /\ \A a \in Addr : a \in live <=> w[a] = Held
  /\ Space(w) /\ Lists(w) /\ Ranked(w, r) /\ OpInv(w)

HeapInv ==
  /\ TypeOK
  /\ \E w \in [Addr -> Place], r \in [Addr -> Nat] :
       /\ Placed(w, r)
       /\ op.kind # "free" => Apart(w)
       /\ op.kind = "free" => \E V \in SUBSET Addr : Merging(w, V)

-----------------------------------------------------------------------------
(* Consequences of the types. *)
LEMMA Basics ==
  ASSUME TypeOK
  PROVE  /\ Walked \in List /\ At \in Addr \cup {NULL}
         /\ op.want \in Nat /\ op.old \in Addr \cup {NULL} /\ op.iter \in Addr \cup {NULL}
         /\ op.header \in Addr \cup {NULL} /\ op.merged \in BOOLEAN
         /\ \A a \in Addr : size[a] \in Nat /\ EndOf(a) \in Nat /\ EndOf(a) > a
<1>1. /\ op.want \in Nat /\ op.old \in Addr \cup {NULL} /\ op.iter \in Addr \cup {NULL}
      /\ op.header \in Addr \cup {NULL} /\ op.merged \in BOOLEAN
  BY DEF TypeOK, Operation
<1>2. Walked \in List
  BY <1>1, ListForType, Constants DEF Walked
<1>3. At \in Addr \cup {NULL}
  BY <1>1, <1>2 DEF At, TypeOK
<1>4. ASSUME NEW a \in Addr PROVE size[a] \in Nat /\ EndOf(a) \in Nat /\ EndOf(a) > a
  BY Addresses, Constants DEF TypeOK, Sized, EndOf
<1> QED BY <1>1, <1>2, <1>3, <1>4

(* What iter points at is in the place of the list walked. *)
LEMMA AtPlace ==
  ASSUME TypeOK, NEW w \in [Addr -> Place], NEW r \in [Addr -> Nat], Placed(w, r), At # NULL
  PROVE  /\ At \in Addr /\ w[At] = Walked
         /\ op.iter # NULL => w[op.iter] = Walked /\ next[op.iter] = At
         /\ op.iter = NULL => freelist[Walked] = At
<1>1. Walked \in List /\ At \in Addr /\ op.iter \in Addr \cup {NULL}
  BY Basics
<1>2. op.iter # NULL => w[op.iter] = Walked /\ op.iter \in Addr
  BY <1>1 DEF Placed, OpInv
<1>3. CASE op.iter = NULL
  BY <1>1, <1>3 DEF At, Placed, Lists
<1>4. CASE op.iter # NULL
  BY <1>1, <1>2, <1>4 DEF At, Placed, Lists
<1> QED BY <1>1, <1>3, <1>4

(* Places differ. *)
LEMMA Places ==
  /\ Held \notin List /\ Pending \notin List /\ Nowhere \notin List
  /\ Held # Pending /\ Held # Nowhere /\ Pending # Nowhere
  /\ List \subseteq Place /\ Held \in Place /\ Pending \in Place /\ Nowhere \in Place
BY Constants DEF Held, Pending, Nowhere, Place, List

-----------------------------------------------------------------------------
(* The ways a list changes.  v gives the places afterwards. *)

(* A header leaves the list walked: its next field is stored to what iter   *)
(* points at.                                                               *)
LEMMA Removed ==
  ASSUME TypeOK, NEW w \in [Addr -> Place], NEW r \in [Addr -> Nat], Placed(w, r), At # NULL,
         NEW h \in Addr, h = At, Store(next[At], next),
         NEW v \in [Addr -> Place], v[h] \notin List,
         \A a \in Addr \ {h} : v[a] # w[a] => v[a] \notin List /\ w[a] \notin List
  PROVE  Lists(v)' /\ Ranked(v, r)'
<1>1. PICK l \in List : l = Walked
  BY Basics
<1>2. /\ w[h] = l
      /\ op.iter # NULL => op.iter \in Addr /\ w[op.iter] = l /\ next[op.iter] = h
      /\ op.iter = NULL => freelist[l] = h
  BY <1>1, AtPlace, Basics
<1>3. /\ freelist \in [List -> Addr \cup {NULL}] /\ next \in [Addr -> Addr \cup {NULL}]
      /\ next[h] \in Addr \cup {NULL} /\ NULL \notin Addr
  BY Constants DEF TypeOK
<1>4. Lists(w) /\ Ranked(w, r)
  BY DEF Placed
<1>5. CASE op.iter = NULL
  <2>1. freelist' = [freelist EXCEPT ![l] = next[h]] /\ next' = next
    BY <1>1, <1>5 DEF Store
  <2>2. \A k \in List : freelist'[k] = IF k = l THEN next[h] ELSE freelist[k]
    BY <1>3, <2>1
  <2>3. \A k \in List : freelist'[k] # NULL => v[freelist'[k]] = k
    BY <1>2, <1>3, <1>4, <1>5, <2>2 DEF Lists
  <2>4. ASSUME NEW a \in Addr, v[a] \in List, next[a] # NULL
        PROVE  v[next[a]] = v[a] /\ next[a] # freelist'[v[a]]
    BY <1>2, <1>3, <1>4, <1>5, <2>2, <2>4 DEF Lists
  <2>5. \A a, b \in Addr : v[a] \in List /\ v[b] \in List /\ next[a] = next[b] /\ next[a] # NULL => a = b
    BY <1>4 DEF Lists
  <2>6. Lists(v)'
    BY <2>1, <2>3, <2>4, <2>5 DEF Lists
  <2> QED BY <1>4, <2>1, <2>6 DEF Ranked
<1>6. CASE op.iter # NULL
  <2> DEFINE i == op.iter
  <2>1. next' = [next EXCEPT ![i] = next[h]] /\ freelist' = freelist
    BY <1>1, <1>6 DEF Store
  <2>2. i \in Addr /\ w[i] = l /\ next[i] = h
    BY <1>2, <1>6
  <2> HIDE DEF i
  <2>3. \A a \in Addr : next'[a] = IF a = i THEN next[h] ELSE next[a]
    BY <1>3, <2>1, <2>2
  <2>5. \A k \in List : freelist[k] # NULL => freelist[k] # h
    BY <1>3, <1>4, <2>2, <1>2 DEF Lists
  <2>6. \A k \in List : freelist[k] # NULL => v[freelist[k]] = k
    BY <1>3, <1>4, <2>5 DEF Lists
  <2>7. ASSUME NEW a \in Addr, v[a] \in List, next'[a] # NULL
        PROVE  v[next'[a]] = v[a] /\ next'[a] # freelist[v[a]]
    BY <1>2, <1>3, <1>4, <2>2, <2>3, <2>7 DEF Lists
  <2>8. ASSUME NEW a \in Addr, NEW b \in Addr, v[a] \in List, v[b] \in List,
               next'[a] = next'[b], next'[a] # NULL
        PROVE  a = b
    BY <1>2, <1>3, <1>4, <2>2, <2>3, <2>8 DEF Lists
  <2>9. Lists(v)'
    BY <2>1, <2>6, <2>7, <2>8 DEF Lists
  <2>10. ASSUME NEW a \in Addr, v[a] \in List, next'[a] # NULL PROVE r[next'[a]] < r[a]
    <3>1. CASE a = i
      <4>1. next[h] \in Addr /\ w[h] \in List /\ w[i] \in List /\ next[i] \in Addr
        BY <1>2, <1>3, <2>2, <2>3, <2>10, <3>1
      <4>2. r[next[h]] < r[h] /\ r[h] < r[i]
        BY <1>3, <1>4, <2>2, <4>1 DEF Ranked
      <4> QED BY <2>2, <2>3, <3>1, <4>1, <4>2
    <3>2. CASE a # i
      BY <1>4, <2>3, <2>10, <3>2 DEF Ranked
    <3> QED BY <3>1, <3>2
  <2> QED BY <2>9, <2>10 DEF Ranked
<1> QED BY <1>5, <1>6

(* Another header takes the place of one on the list walked. *)
LEMMA Replaced ==
  ASSUME TypeOK, NEW w \in [Addr -> Place], NEW r \in [Addr -> Nat], Placed(w, r), At # NULL,
         NEW h \in Addr, h = At, NEW x \in Addr, w[x] \notin List,
         Store(x, [next EXCEPT ![x] = next[At]]),
         NEW v \in [Addr -> Place], v[h] \notin List, v[x] = w[h],
         \A a \in Addr \ {h, x} : v[a] = w[a]
  PROVE  Lists(v)' /\ Ranked(v, [r EXCEPT ![x] = r[h]])'
<1> DEFINE q == [r EXCEPT ![x] = r[h]]
<1>1. PICK l \in List : l = Walked
  BY Basics
<1>2. /\ w[h] = l
      /\ op.iter # NULL => op.iter \in Addr /\ w[op.iter] = l /\ next[op.iter] = h
      /\ op.iter = NULL => freelist[l] = h
  BY <1>1, AtPlace, Basics
<1>3. /\ freelist \in [List -> Addr \cup {NULL}] /\ next \in [Addr -> Addr \cup {NULL}]
      /\ next[h] \in Addr \cup {NULL} /\ NULL \notin Addr
  BY Constants DEF TypeOK
<1>4. Lists(w) /\ Ranked(w, r) /\ x # h
  BY <1>1, <1>2 DEF Placed
<1>5. \A a \in Addr : q[a] = IF a = x THEN r[h] ELSE r[a]
  OBVIOUS
<1>6. next[h] \in Addr => next[h] # h /\ next[h] # x /\ r[next[h]] < r[h] /\ w[next[h]] = l
  BY <1>2, <1>3, <1>4 DEF Lists, Ranked
<1> HIDE DEF q
<1>7. CASE op.iter = NULL
  <2>1. freelist' = [freelist EXCEPT ![l] = x] /\ next' = [next EXCEPT ![x] = next[h]]
    BY <1>1, <1>7 DEF Store
  <2>2. \A k \in List : freelist'[k] = IF k = l THEN x ELSE freelist[k]
    BY <1>3, <2>1
  <2>3. \A a \in Addr : next'[a] = IF a = x THEN next[h] ELSE next[a]
    BY <1>3, <2>1
  <2>4. \A k \in List : freelist'[k] # NULL => v[freelist'[k]] = k
    BY <1>2, <1>3, <1>4, <1>7, <2>2 DEF Lists
  <2>5. ASSUME NEW a \in Addr, v[a] \in List, next'[a] # NULL
        PROVE  v[next'[a]] = v[a] /\ next'[a] # freelist'[v[a]] /\ q[next'[a]] < q[a]
    <3>1. CASE a = x
      BY <1>2, <1>3, <1>4, <1>5, <1>6, <2>2, <2>3, <2>5, <3>1
    <3>2. CASE a # x
      <4>1. a # h /\ v[a] = w[a] /\ next'[a] = next[a] /\ next[a] \in Addr
        BY <1>3, <2>3, <2>5, <3>2
      <4>2. w[next[a]] = w[a] /\ next[a] # freelist[w[a]] /\ r[next[a]] < r[a]
        BY <1>4, <2>5, <4>1 DEF Lists, Ranked
      <4>3. next[a] # x /\ next[a] # h
        BY <1>2, <1>7, <2>5, <4>1, <4>2
      <4> QED BY <1>5, <2>2, <2>5, <3>2, <4>1, <4>2, <4>3
    <3> QED BY <3>1, <3>2
  <2>6. ASSUME NEW a \in Addr, NEW b \in Addr, v[a] \in List, v[b] \in List,
               next'[a] = next'[b], next'[a] # NULL
        PROVE  a = b
    BY <1>2, <1>3, <1>4, <1>7, <2>3, <2>6 DEF Lists
  <2> QED BY <2>4, <2>5, <2>6 DEF Lists, Ranked, q
<1>8. CASE op.iter # NULL
  <2> DEFINE i == op.iter
  <2>1. next' = [[next EXCEPT ![x] = next[h]] EXCEPT ![i] = x] /\ freelist' = freelist
    BY <1>1, <1>8 DEF Store
  <2>2. i \in Addr /\ w[i] = l /\ next[i] = h
    BY <1>2, <1>8
  <2> HIDE DEF i
  <2>3. r[h] < r[i]
    BY <1>1, <1>3, <1>4, <2>2 DEF Ranked
  <2>4. i # h /\ i # x
    BY <2>2, <2>3, <1>1
  <2>5. \A a \in Addr : next'[a] = IF a = i THEN x ELSE IF a = x THEN next[h] ELSE next[a]
    BY <1>3, <2>1, <2>2, <2>4
  <2>6. \A k \in List : freelist[k] # NULL => v[freelist[k]] = k /\ freelist[k] # x
    BY <1>2, <1>3, <1>4, <2>2 DEF Lists
  <2>7. ASSUME NEW a \in Addr, v[a] \in List, next'[a] # NULL
        PROVE  v[next'[a]] = v[a] /\ next'[a] # freelist[v[a]] /\ q[next'[a]] < q[a]
    <3>1. CASE a = x
      <4>1. next'[a] = next[h] /\ next[h] \in Addr /\ v[a] = l
        BY <1>2, <1>3, <2>4, <2>5, <2>7, <3>1
      <4>2. v[next[h]] = l /\ next[h] # freelist[l]
        BY <1>2, <1>3, <1>4, <1>6, <4>1 DEF Lists
      <4> QED BY <1>5, <1>6, <3>1, <4>1, <4>2
    <3>2. CASE a = i
      <4>1. next'[a] = x /\ v[a] = l /\ v[x] = l /\ freelist[l] # x
        BY <1>2, <1>3, <2>2, <2>4, <2>5, <2>6, <3>2
      <4> QED BY <1>5, <2>3, <2>4, <3>2, <4>1
    <3>3. CASE a # x /\ a # i
      <4>1. a # h /\ v[a] = w[a] /\ next'[a] = next[a] /\ next[a] \in Addr
        BY <1>3, <2>5, <2>7, <3>3
      <4>2. w[next[a]] = w[a] /\ next[a] # freelist[w[a]] /\ r[next[a]] < r[a]
        BY <1>4, <2>7, <4>1 DEF Lists, Ranked
      <4>3. next[a] # x /\ next[a] # h
        BY <1>1, <1>3, <1>4, <2>2, <2>7, <3>3, <4>1, <4>2 DEF Lists
      <4> QED BY <1>5, <3>3, <4>1, <4>2, <4>3
    <3> QED BY <3>1, <3>2, <3>3
  <2>8. ASSUME NEW a \in Addr, NEW b \in Addr, v[a] \in List, v[b] \in List,
               next'[a] = next'[b], next'[a] # NULL
        PROVE  a = b
    <3>1. ASSUME NEW c \in Addr, v[c] \in List, c # i, next'[c] # NULL PROVE next'[c] # x
      BY <1>3, <1>4, <1>6, <2>5, <3>1 DEF Lists
    <3>2. CASE a = i \/ b = i
      BY <2>5, <2>8, <3>1, <3>2
    <3>3. CASE a # i /\ b # i
      BY <1>2, <1>3, <1>4, <2>5, <2>8, <3>3 DEF Lists
    <3> QED BY <3>2, <3>3
  <2> QED BY <2>1, <2>6, <2>7, <2>8 DEF Lists, Ranked, q
<1> QED BY <1>7, <1>8

(* A header is pushed on a list. *)
LEMMA Pushed ==
  ASSUME TypeOK, NEW w \in [Addr -> Place], NEW r \in [Addr -> Nat], Lists(w), Ranked(w, r),
         NEW l \in List, NEW x \in Addr, w[x] \notin List,
         next' = [next EXCEPT ![x] = freelist[l]],
         freelist' = [freelist EXCEPT ![l] = x],
         NEW v \in [Addr -> Place], v[x] = l, \A a \in Addr \ {x} : v[a] = w[a]
  PROVE  \E q \in [Addr -> Nat] : Lists(v)' /\ Ranked(v, q)'
<1>1. /\ freelist \in [List -> Addr \cup {NULL}] /\ next \in [Addr -> Addr \cup {NULL}]
      /\ freelist[l] \in Addr \cup {NULL} /\ NULL \notin Addr
  BY Constants DEF TypeOK
<1>2. PICK n \in Nat : n = IF freelist[l] = NULL THEN 0 ELSE r[freelist[l]] + 1
  BY <1>1
<1> DEFINE q == [r EXCEPT ![x] = n]
<1>3. q \in [Addr -> Nat] /\ \A a \in Addr : q[a] = IF a = x THEN n ELSE r[a]
  OBVIOUS
<1> HIDE DEF q
<1>4. \A k \in List : freelist'[k] = IF k = l THEN x ELSE freelist[k]
  BY <1>1
<1>5. \A a \in Addr : next'[a] = IF a = x THEN freelist[l] ELSE next[a]
  BY <1>1
<1>6. freelist[l] # NULL => freelist[l] \in Addr /\ w[freelist[l]] = l /\ freelist[l] # x
  BY <1>1 DEF Lists
<1>7. \A k \in List : freelist'[k] # NULL => v[freelist'[k]] = k
  BY <1>1, <1>4 DEF Lists
<1>8. ASSUME NEW a \in Addr, v[a] \in List, next'[a] # NULL
      PROVE  v[next'[a]] = v[a] /\ next'[a] # freelist'[v[a]] /\ q[next'[a]] < q[a]
  <2>1. CASE a = x
    BY <1>1, <1>2, <1>3, <1>4, <1>5, <1>6, <1>8, <2>1
  <2>2. CASE a # x
    <3>1. v[a] = w[a] /\ next'[a] = next[a] /\ next[a] \in Addr
      BY <1>1, <1>5, <1>8, <2>2
    <3>2. w[next[a]] = w[a] /\ next[a] # freelist[w[a]] /\ r[next[a]] < r[a]
      BY <1>8, <3>1 DEF Lists, Ranked
    <3>3. next[a] # x
      BY <1>8, <3>1, <3>2
    <3> QED BY <1>3, <1>4, <1>8, <2>2, <3>1, <3>2, <3>3
  <2> QED BY <2>1, <2>2
<1>9. ASSUME NEW a \in Addr, NEW b \in Addr, v[a] \in List, v[b] \in List,
             next'[a] = next'[b], next'[a] # NULL
      PROVE  a = b
  BY <1>1, <1>5, <1>6, <1>9 DEF Lists
<1>10. Lists(v)' /\ Ranked(v, q)'
  BY <1>7, <1>8, <1>9 DEF Lists, Ranked
<1> QED BY <1>3, <1>10

-----------------------------------------------------------------------------
(* The ways the blocks change. *)

(* One size field is written, or two. *)
Resized(x, n) == size' = [size EXCEPT ![x] = n]

ResizedBoth(x, m, h, n) == size' = [size EXCEPT ![x] = m, ![h] = n]

(* Blocks stay as they are, or no longer count. *)
LEMMA SpaceKept ==
  ASSUME NEW w \in [Addr -> Place], Space(w), UNCHANGED <<size, heap_end>>,
         NEW v \in [Addr -> Place], \A a \in Addr : v[a] # Nowhere => w[a] # Nowhere
  PROVE  Space(v)'
BY DEF Space, Disjoint, EndOf

(* A block takes in its upper neighbour, which no longer counts. *)
LEMMA SpaceJoined ==
  ASSUME TypeOK, NEW w \in [Addr -> Place], Space(w), NEW x \in Addr, NEW y \in Addr, x # y,
         w[x] # Nowhere, w[y] # Nowhere, EndOf(x) = y,
         NEW n, n = size[x] + HEADER + size[y], Resized(x, n), heap_end' = heap_end,
         NEW v \in [Addr -> Place], v[y] = Nowhere,
         \A a \in Addr : v[a] # Nowhere => w[a] # Nowhere
  PROVE  /\ Space(v)' /\ size' \in [Addr -> Sized]
         /\ EndOf(x)' = EndOf(y) /\ \A a \in Addr \ {x} : EndOf(a)' = EndOf(a)
<1>1. \A a \in Addr : a \in Nat /\ size[a] \in Nat
  BY Addresses, Basics
<1>2. size[x] + HEADER + size[y] \in Sized
  <2>1. size[x] \in Nat /\ size[y] \in Nat /\ size[x] % LONG = 0 /\ size[y] % LONG = 0
    BY DEF TypeOK, Sized
  <2>2. (size[x] + HEADER) % LONG = 0 /\ size[x] + HEADER \in Nat
    BY <2>1, AlignedSum, Constants
  <2>3. (size[x] + HEADER + size[y]) % LONG = 0
    BY <2>1, <2>2, AlignedSum
  <2> QED BY <2>1, <2>2, <2>3 DEF Sized
<1>3. \A a \in Addr : size'[a] = IF a = x THEN size[x] + HEADER + size[y] ELSE size[a]
  BY DEF TypeOK, Resized
<1>4. HEADER \in Nat /\ HEADER > 0
  BY Constants
<1>5. \A a \in Addr : EndOf(a)' = IF a = x THEN EndOf(y) ELSE EndOf(a)
  BY <1>1, <1>3, <1>4 DEF EndOf
<1>6. ASSUME NEW a \in Addr, NEW b \in Addr, a # b, v[a] # Nowhere, v[b] # Nowhere
      PROVE  EndOf(a)' <= b \/ EndOf(b)' <= a
  <2>1. a # y /\ b # y /\ w[a] # Nowhere /\ w[b] # Nowhere
    BY <1>6
  <2>2. /\ EndOf(a) <= b \/ EndOf(b) <= a
        /\ EndOf(a) <= y \/ EndOf(y) <= a
        /\ EndOf(b) <= y \/ EndOf(y) <= b
    BY <1>6, <2>1 DEF Space, Disjoint
  <2>3. /\ EndOf(a) = a + HEADER + size[a] /\ EndOf(b) = b + HEADER + size[b]
        /\ EndOf(y) = y + HEADER + size[y] /\ EndOf(x) = x + HEADER + size[x]
    BY DEF EndOf
  <2> QED BY <1>1, <1>4, <1>5, <1>6, <2>1, <2>2, <2>3
<1>7. ASSUME NEW a \in Addr, v[a] # Nowhere PROVE EndOf(a)' <= heap_end'
  BY <1>5, <1>7 DEF Space
<1>8. Space(v)'
  BY <1>6, <1>7 DEF Space, Disjoint
<1>9. size' \in [Addr -> Sized]
  BY <1>2 DEF TypeOK, Resized
<1> QED BY <1>5, <1>8, <1>9

(* A block is cut in two; x is the header of the upper part. *)
LEMMA SpaceSplit ==
  ASSUME TypeOK, NEW w \in [Addr -> Place], Space(w), NEW h \in Addr, w[h] # Nowhere,
         NEW n \in Sized, NEW m \in Sized, size[h] = n + HEADER + m,
         NEW x, x = h + HEADER + n,
         ResizedBoth(x, m, h, n), heap_end' = heap_end,
         NEW v \in [Addr -> Place], \A a \in Addr \ {x} : v[a] # Nowhere => w[a] # Nowhere
  PROVE  /\ x \in Addr /\ x # h /\ w[x] = Nowhere
         /\ Space(v)' /\ size' \in [Addr -> Sized]
         /\ EndOf(x)' = EndOf(h) /\ EndOf(h)' = x
         /\ \A a \in Addr \ {h, x} : EndOf(a)' = EndOf(a)
<1>1. \A a \in Addr : a \in Nat /\ size[a] \in Nat /\ a >= End
  BY Addresses, Basics
<1>2. HEADER \in Nat /\ HEADER > 0 /\ n \in Nat /\ m \in Nat
  BY Constants DEF Sized
<1>3. EndOf(h) <= heap_end /\ heap_end <= HeapBound /\ heap_end \in Nat /\ HeapBound \in Nat
  BY Constants DEF Space, TypeOK
<1>4. x \in Nat /\ h < x /\ x + HEADER + m = EndOf(h)
  BY <1>1, <1>2 DEF EndOf
<1>5. x \in Addr /\ x # h
  <2>1. h % LONG = 0 /\ n % LONG = 0
    BY Addresses DEF Sized
  <2>2. (h + HEADER) % LONG = 0 /\ h + HEADER \in Nat
    BY <1>1, <2>1, Constants, AlignedSum
  <2>3. x % LONG = 0
    BY <1>2, <2>1, <2>2, AlignedSum
  <2>4. End \in Nat /\ End <= x /\ x <= HeapBound
    BY <1>1, <1>2, <1>3, <1>4, Constants
  <2> QED BY <1>4, <2>3, <2>4, IsAddress
<1>6. \A a \in Addr : EndOf(a) = a + HEADER + size[a]
  BY DEF EndOf
<1>7. w[x] = Nowhere
  <2>1. SUFFICES ASSUME w[x] # Nowhere PROVE FALSE
    OBVIOUS
  <2>2. EndOf(x) <= h \/ EndOf(h) <= x
    BY <1>5, <2>1 DEF Space, Disjoint
  <2> QED BY <1>1, <1>2, <1>4, <1>5, <1>6, <2>2
<1>8. \A a \in Addr : size'[a] = IF a = h THEN n ELSE IF a = x THEN m ELSE size[a]
  BY <1>5 DEF TypeOK, ResizedBoth
<1>9. EndOf(x)' = EndOf(h) /\ EndOf(h)' = x /\ \A a \in Addr \ {h, x} : EndOf(a)' = EndOf(a)
  BY <1>1, <1>2, <1>4, <1>5, <1>8 DEF EndOf
<1>10. ASSUME NEW a \in Addr, v[a] # Nowhere
       PROVE  EndOf(a)' <= heap_end' /\ (a # h /\ a # x => EndOf(a) <= h \/ EndOf(h) <= a)
  <2>1. CASE a = h \/ a = x
    BY <1>1, <1>2, <1>3, <1>4, <1>9, <2>1
  <2>2. CASE a # h /\ a # x
    BY <1>9, <1>10, <2>2 DEF Space, Disjoint
  <2> QED BY <2>1, <2>2
<1>11. ASSUME NEW a \in Addr, NEW b \in Addr, a # b, v[a] # Nowhere, v[b] # Nowhere
       PROVE  EndOf(a)' <= b \/ EndOf(b)' <= a
  <2>1. CASE a \in {h, x} /\ b \in {h, x}
    BY <1>1, <1>4, <1>9, <1>11, <2>1
  <2>2. CASE a \in {h, x} /\ b \notin {h, x}
    BY <1>1, <1>2, <1>4, <1>5, <1>6, <1>9, <1>10, <1>11, <2>2
  <2>3. CASE a \notin {h, x} /\ b \in {h, x}
    BY <1>1, <1>2, <1>4, <1>5, <1>6, <1>9, <1>10, <1>11, <2>3
  <2>4. CASE a \notin {h, x} /\ b \notin {h, x}
    BY <1>9, <1>11, <2>4 DEF Space, Disjoint
  <2> QED BY <2>1, <2>2, <2>3, <2>4
<1>12. Space(v)'
  BY <1>10, <1>11 DEF Space, Disjoint
<1>13. size' \in [Addr -> Sized]
  BY <1>5 DEF TypeOK, ResizedBoth
<1> QED BY <1>5, <1>7, <1>9, <1>12, <1>13

-----------------------------------------------------------------------------
(* The operations, and what each step preserves. *)

(* The fields of the operations that begin. *)
LEMMA Operations ==
  ASSUME NEW n \in Nat, NEW o \in Addr \cup {NULL}, NEW h \in Addr
  PROVE  /\ Idle \in Operation /\ Search(n, o) \in Operation /\ Merge(h, n, o) \in Operation
         /\ Copy(o) \in Operation
         /\ Idle.kind = "idle" /\ Idle.iter = NULL /\ Idle.old = NULL
         /\ Search(n, o).kind = "malloc" /\ Search(n, o).want = n /\ Search(n, o).old = o
         /\ Search(n, o).iter = NULL
         /\ Merge(h, n, o).kind = "free" /\ Merge(h, n, o).want = n /\ Merge(h, n, o).old = o
         /\ Merge(h, n, o).iter = NULL /\ Merge(h, n, o).header = h /\ Merge(h, n, o).merged = FALSE
         /\ Copy(o).kind = "copy" /\ Copy(o).old = o /\ Copy(o).iter = NULL
<1>1. Idle \in Operation /\ Idle.kind = "idle" /\ Idle.iter = NULL /\ Idle.old = NULL
  BY DEF Begin, Operation, Idle
<1>2. /\ Search(n, o) \in Operation
      /\ Search(n, o).kind = "malloc" /\ Search(n, o).want = n /\ Search(n, o).old = o
      /\ Search(n, o).iter = NULL
  BY DEF Begin, Operation, Search
<1>3. /\ Merge(h, n, o) \in Operation
      /\ Merge(h, n, o).kind = "free" /\ Merge(h, n, o).want = n /\ Merge(h, n, o).old = o
      /\ Merge(h, n, o).iter = NULL /\ Merge(h, n, o).header = h /\ Merge(h, n, o).merged = FALSE
  BY DEF Begin, Operation, Merge
<1>4. Copy(o) \in Operation /\ Copy(o).kind = "copy" /\ Copy(o).old = o /\ Copy(o).iter = NULL
  BY DEF Begin, Operation, Copy
<1> QED BY <1>1, <1>2, <1>3, <1>4

(* The parts of the invariant, and how they make it up. *)
LEMMA Apply ==
  ASSUME HeapInv, op.kind # "free"
  PROVE  /\ TypeOK
         /\ \E w \in [Addr -> Place], r \in [Addr -> Nat] : Placed(w, r) /\ Apart(w)
BY DEF HeapInv

LEMMA ApplyMerging ==
  ASSUME HeapInv, op.kind = "free"
  PROVE  /\ TypeOK
         /\ \E w \in [Addr -> Place], r \in [Addr -> Nat], V \in SUBSET Addr :
              Placed(w, r) /\ Merging(w, V)
BY DEF HeapInv

LEMMA Conclude ==
  ASSUME TypeOK', NEW v \in [Addr -> Place], NEW q \in [Addr -> Nat], Placed(v, q)',
         op'.kind # "free", Apart(v)'
  PROVE  HeapInv'
BY DEF HeapInv

LEMMA ConcludeMerging ==
  ASSUME TypeOK', NEW v \in [Addr -> Place], NEW q \in [Addr -> Nat], Placed(v, q)',
         op'.kind = "free", NEW V \in SUBSET Addr, Merging(v, V)'
  PROVE  HeapInv'
BY DEF HeapInv

(* A step that changes no memory. *)
LEMMA QuietStep ==
  ASSUME HeapInv, op.kind # "free", UNCHANGED <<heap_end, freelist, size, next, live>>,
         op' \in Operation, op'.kind \in {"idle", "malloc"},
         op'.iter # NULL => At # NULL /\ op'.iter = At /\ Walked' = Walked,
         op'.old # NULL => op'.old \in live,
         op'.kind = "malloc" => op'.want > 0
  PROVE  HeapInv'
<1>1. TypeOK /\ TypeOK'
  BY Apply DEF TypeOK
<1>2. PICK w \in [Addr -> Place], r \in [Addr -> Nat] : Placed(w, r) /\ Apart(w)
  BY Apply
<1>3. Space(w)' /\ Lists(w)' /\ Ranked(w, r)' /\ Apart(w)'
  BY <1>2 DEF Placed, Space, Lists, Ranked, Apart, Disjoint, EndOf
<1>4. op'.iter # NULL => w[op'.iter] = Walked'
  BY <1>1, <1>2, AtPlace
<1>5. OpInv(w)'
  BY <1>2, <1>4 DEF OpInv, Placed
<1>6. Placed(w, r)'
  BY <1>2, <1>3, <1>5 DEF Placed
<1> QED BY <1>1, <1>3, <1>6, Conclude

(* kfree, as far as its loop: of a block a caller holds. *)
LEMMA ReleaseStep ==
  ASSUME HeapInv, op.kind # "free", NEW h \in Addr, h \in live, live' = live \ {h},
         Release(h), UNCHANGED <<heap_end, size>>
  PROVE  HeapInv'
<1>1. TypeOK
  BY Apply
<1>2. PICK w \in [Addr -> Place], r \in [Addr -> Nat] : Placed(w, r) /\ Apart(w)
  BY Apply
<1>3. /\ w[h] = Held /\ size[h] \in Nat
      /\ \A a \in Addr : a \in live <=> w[a] = Held
      /\ \A a \in Addr : w[a] # Pending
      /\ Space(w) /\ Lists(w) /\ Ranked(w, r)
  BY <1>1, <1>2, Basics DEF Placed, OpInv
<1>4. PICK l \in List : l = ListFor(size[h])
  BY <1>3, ListForType
<1>5. CASE l < NRQUICKLISTS
  <2>1. /\ next' = [next EXCEPT ![h] = freelist[l]] /\ freelist' = [freelist EXCEPT ![l] = h]
        /\ op' = Idle
    BY <1>4, <1>5 DEF Release
  <2> DEFINE v == [w EXCEPT ![h] = l]
  <2>2. v \in [Addr -> Place] /\ v[h] = l /\ \A a \in Addr \ {h} : v[a] = w[a]
    BY Places
  <2> HIDE DEF v
  <2>3. PICK q \in [Addr -> Nat] : Lists(v)' /\ Ranked(v, q)'
    BY <1>1, <1>3, <2>1, <2>2, Pushed, Places
  <2>4. Space(v)'
    <3>1. \A a \in Addr : v[a] # Nowhere => w[a] # Nowhere
      BY <1>3, <2>2, Places
    <3> QED BY <1>3, <2>2, <3>1, SpaceKept
  <2>5. op' \in Operation /\ op'.kind = "idle" /\ op'.iter = NULL /\ op'.old = NULL
    BY <2>1, Operations, Constants
  <2>6. TypeOK'
    BY <1>1, <2>1, <2>5 DEF TypeOK
  <2>7. OpInv(v)'
    BY <1>3, <1>4, <2>2, <2>5, Places DEF OpInv
  <2>8. \A a \in Addr : a \in live' <=> v[a] = Held
    BY <1>3, <1>4, <2>2, Places
  <2>9. Placed(v, q)'
    BY <2>3, <2>4, <2>7, <2>8 DEF Placed
  <2>10. Apart(v)'
    <3>1. \A a \in Addr : v[a] = Big => w[a] = Big
      BY <1>5, <2>2, Constants DEF Big
    <3> QED BY <1>2, <3>1 DEF Apart, EndOf
  <2> QED BY <2>2, <2>5, <2>6, <2>9, <2>10, Conclude
<1>6. CASE ~(l < NRQUICKLISTS)
  <2>1. op' = Merge(h, 0, NULL) /\ UNCHANGED <<next, freelist>>
    BY <1>4, <1>6 DEF Release
  <2>2. /\ op' \in Operation /\ op'.kind = "free" /\ op'.iter = NULL /\ op'.old = NULL
        /\ op'.header = h /\ op'.merged = FALSE
    BY <2>1 DEF Merge, Begin, Operation
  <2> DEFINE v == [w EXCEPT ![h] = Pending]
  <2>3. v \in [Addr -> Place] /\ v[h] = Pending /\ \A a \in Addr \ {h} : v[a] = w[a]
    BY Places
  <2> HIDE DEF v
  <2>4. Space(v)'
    <3>1. \A a \in Addr : v[a] # Nowhere => w[a] # Nowhere
      BY <1>3, <2>3, Places
    <3> QED BY <1>3, <2>3, <3>1, SpaceKept
  <2>5. Lists(v)' /\ Ranked(v, r)'
    <3>1. \A a \in Addr : (v[a] \in List <=> w[a] \in List) /\ (w[a] \in List => v[a] = w[a])
      BY <1>3, <2>3, Places
    <3>2. freelist \in [List -> Addr \cup {NULL}] /\ next \in [Addr -> Addr \cup {NULL}]
      BY <1>1 DEF TypeOK
    <3> QED BY <1>3, <2>1, <3>1, <3>2 DEF Lists, Ranked
  <2>6. TypeOK'
    BY <1>1, <2>1, <2>2 DEF TypeOK
  <2>7. OpInv(v)'
    BY <1>3, <2>2, <2>3 DEF OpInv
  <2>8. \A a \in Addr : a \in live' <=> v[a] = Held
    BY <1>3, <2>3, Places
  <2>9. Placed(v, r)'
    BY <2>4, <2>5, <2>7, <2>8 DEF Placed
  <2>10. Apart(v)'
    <3>1. \A a \in Addr : v[a] = Big => w[a] = Big
      BY <2>3, Places, Constants
    <3> QED BY <1>2, <3>1 DEF Apart, EndOf
  <2>11. Merging(v, {})'
    BY <2>2, <2>3, <2>10, Addresses DEF Merging, Passed, Unmerged
  <2> QED BY <2>2, <2>3, <2>6, <2>9, <2>11, ConcludeMerging
<1> QED BY <1>5, <1>6

-----------------------------------------------------------------------------
(* The loop of kfree. *)

(* What its steps start from. *)
LEMMA MergingFacts ==
  ASSUME TypeOK, op.kind = "free", NEW w \in [Addr -> Place], NEW r \in [Addr -> Nat],
         Placed(w, r), NEW V \in SUBSET Addr, Merging(w, V)
  PROVE  /\ Walked = Big /\ op.header \in Addr /\ At \in Addr \cup {NULL}
         /\ op.iter \in Addr \cup {NULL}
         /\ Space(w) /\ Lists(w) /\ Ranked(w, r)
         /\ \A a \in Addr : a \in live <=> w[a] = Held
         /\ op.old # NULL => op.old \in live
         /\ \A a \in Addr : w[a] = Pending => ~op.merged /\ a = op.header
         /\ \A a \in V : a \in Addr /\ w[a] = Big /\ EndOf(a) # op.header
         /\ op.iter = NULL => V = {}
         /\ op.iter # NULL => op.iter \in V /\ freelist[Big] \in V
         /\ \A a \in V \ {op.iter} : next[a] \in V
<1>1. Walked = Big
  BY DEF Walked
<1>2. op.header \in Addr /\ At \in Addr \cup {NULL} /\ op.iter \in Addr \cup {NULL}
  BY Basics DEF Merging
<1>3. /\ Space(w) /\ Lists(w) /\ Ranked(w, r)
      /\ \A a \in Addr : a \in live <=> w[a] = Held
      /\ op.old # NULL => op.old \in live
      /\ \A a \in Addr : w[a] = Pending => ~op.merged /\ a = op.header
  BY DEF Placed, OpInv
<1>4. /\ \A a \in V : a \in Addr /\ w[a] = Big /\ EndOf(a) # op.header
      /\ op.iter = NULL => V = {}
      /\ op.iter # NULL => op.iter \in V /\ freelist[Big] \in V
      /\ \A a \in V \ {op.iter} : next[a] \in V
  BY DEF Merging, Passed
<1> QED BY <1>1, <1>2, <1>3, <1>4

LEMMA MergeSkipStep ==
  ASSUME HeapInv, MergeSkip
  PROVE  HeapInv'
<1>1. op.kind = "free" /\ At # NULL /\ UNCHANGED <<heap_end, freelist, size, next, live>>
  BY DEF MergeSkip
<1>2. TypeOK
  BY <1>1, ApplyMerging
<1>3. PICK w \in [Addr -> Place], r \in [Addr -> Nat], V \in SUBSET Addr :
        Placed(w, r) /\ Merging(w, V)
  BY <1>1, ApplyMerging
<1>4. PICK x \in Addr : x = At
  BY <1>1, <1>2, Basics
<1>5. PICK H \in Addr : H = op.header
  BY <1>1, <1>2, <1>3, MergingFacts
<1>6. EndOf(x) # H /\ EndOf(H) # x
  BY <1>4, <1>5 DEF MergeSkip, JoinsLower, JoinsUpper
<1>7. /\ op' \in Operation /\ op'.kind = "free" /\ op'.iter = x /\ op'.old = op.old
      /\ op'.header = H /\ op'.merged = op.merged
  BY <1>1, <1>2, <1>4, <1>5 DEF MergeSkip, Advance, TypeOK, Operation
<1>8. Walked = Big /\ Walked' = Big
  BY <1>1, <1>7 DEF Walked
<1>9. w[x] = Big /\ x # NULL
  BY <1>1, <1>2, <1>3, <1>4, <1>8, AtPlace
<1>10. TypeOK'
  BY <1>1, <1>2, <1>7 DEF TypeOK
<1>11. Space(w)' /\ Lists(w)' /\ Ranked(w, r)'
  BY <1>1, <1>3 DEF Placed, Space, Lists, Ranked, Disjoint, EndOf
<1>12. OpInv(w)'
  BY <1>1, <1>3, <1>5, <1>7, <1>8, <1>9 DEF OpInv, Placed
<1>13. Placed(w, r)'
  BY <1>1, <1>3, <1>11, <1>12 DEF Placed
<1> DEFINE W == V \cup {x}
<1>14. W \in SUBSET Addr
  OBVIOUS
<1>15. \A a \in Addr : EndOf(a)' = EndOf(a)
  BY <1>1 DEF EndOf
<1>16. Passed(w, W)'
  <2>1. freelist[Big] \in W
    BY <1>1, <1>2, <1>3, <1>4, <1>8, MergingFacts, AtPlace
  <2>2. ASSUME NEW a \in W \ {x} PROVE next[a] \in W
    BY <1>1, <1>2, <1>3, <1>4, <1>8, MergingFacts, AtPlace
  <2>3. ASSUME NEW a \in W PROVE a \in Addr /\ w[a] = Big /\ EndOf(a) # H
    BY <1>1, <1>2, <1>3, <1>5, <1>6, <1>9, MergingFacts
  <2> QED BY <1>1, <1>7, <1>9, <1>15, <2>1, <2>2, <2>3 DEF Passed
<1>17. Apart(w)' = Apart(w)
  BY <1>1 DEF Apart, EndOf
<1>18. CASE Unmerged(w, V)
  <2>1. Unmerged(w, W)'
    BY <1>5, <1>6, <1>7, <1>15, <1>17, <1>18 DEF Unmerged
  <2>2. Merging(w, W)'
    BY <1>7, <1>16, <2>1, Addresses DEF Merging
  <2> HIDE DEF W
  <2> QED BY <1>7, <1>10, <1>13, <1>14, <2>2, ConcludeMerging
<1>19. CASE MergedUpper(w, V)
  <2>1. MergedUpper(w, W)'
    BY <1>5, <1>6, <1>7, <1>15, <1>19 DEF MergedUpper
  <2>2. Merging(w, W)'
    BY <1>7, <1>16, <2>1, Addresses DEF Merging
  <2> HIDE DEF W
  <2> QED BY <1>7, <1>10, <1>13, <1>14, <2>2, ConcludeMerging
<1>20. CASE MergedBoth(w)
  <2>1. MergedBoth(w)'
    BY <1>5, <1>7, <1>15, <1>17, <1>20 DEF MergedBoth
  <2>2. Merging(w, W)'
    BY <1>7, <1>16, <2>1, Addresses DEF Merging
  <2> HIDE DEF W
  <2> QED BY <1>7, <1>10, <1>13, <1>14, <2>2, ConcludeMerging
<1> QED BY <1>3, <1>18, <1>19, <1>20 DEF Merging

(* A size changes that no longer counts. *)
LEMMA SpaceForgot ==
  ASSUME TypeOK, NEW w \in [Addr -> Place], Space(w), NEW x \in Addr, NEW n,
         Resized(x, n), heap_end' = heap_end,
         NEW v \in [Addr -> Place], v[x] = Nowhere,
         \A a \in Addr : v[a] # Nowhere => w[a] # Nowhere
  PROVE  Space(v)' /\ \A a \in Addr \ {x} : EndOf(a)' = EndOf(a)
<1>1. \A a \in Addr \ {x} : EndOf(a)' = EndOf(a)
  BY DEF TypeOK, EndOf, Resized
<1>2. ASSUME NEW a \in Addr, NEW b \in Addr, a # b, v[a] # Nowhere, v[b] # Nowhere
      PROVE  EndOf(a)' <= b \/ EndOf(b)' <= a
  BY <1>1, <1>2 DEF Space, Disjoint
<1>3. ASSUME NEW a \in Addr, v[a] # Nowhere PROVE EndOf(a)' <= heap_end'
  BY <1>1, <1>3 DEF Space
<1>4. Space(v)'
  BY <1>2, <1>3 DEF Space, Disjoint
<1> QED BY <1>1, <1>4

LEMMA MergeLowerStep ==
  ASSUME HeapInv, MergeLower
  PROVE  HeapInv'
<1>1. op.kind = "free" /\ At # NULL /\ UNCHANGED <<heap_end, live>>
  BY DEF MergeLower
<1>2. TypeOK
  BY <1>1, ApplyMerging
<1>3. PICK w \in [Addr -> Place], r \in [Addr -> Nat], V \in SUBSET Addr :
        Placed(w, r) /\ Merging(w, V)
  BY <1>1, ApplyMerging
<1>4. PICK x \in Addr : x = At
  BY <1>1, <1>2, Basics
<1>5. PICK H \in Addr : H = op.header
  BY <1>1, <1>2, <1>3, MergingFacts
<1>6. EndOf(x) = H /\ EndOf(x) > x /\ x # H
  BY <1>2, <1>4, <1>5, Basics, Addresses DEF MergeLower, JoinsLower
<1>7. /\ op' \in Operation /\ op'.kind = "free" /\ op'.iter = NULL /\ op'.old = op.old
      /\ op'.header = x /\ op'.merged = op.merged
  <2>1. op' = [op EXCEPT !.header = x, !.iter = NULL] /\ op \in Operation
    BY <1>2, <1>4 DEF MergeLower, TypeOK
  <2> QED BY <1>1, <2>1 DEF Operation
<1>8. Walked = Big
  BY <1>1 DEF Walked
<1>9. w[x] = Big /\ x # NULL
  BY <1>1, <1>2, <1>3, <1>4, <1>8, AtPlace
<1>10. /\ Space(w) /\ \A a \in Addr : a \in live <=> w[a] = Held
       /\ op.old # NULL => op.old \in live
       /\ \A a \in Addr : w[a] = Pending => ~op.merged /\ a = H
  BY <1>1, <1>2, <1>3, <1>5, MergingFacts
<1>11. PICK n : n = size[x] + HEADER + size[H] /\ Resized(x, n) /\ heap_end' = heap_end
  BY <1>1, <1>4, <1>5 DEF MergeLower, Resized
<1>12. Store(next[At], next)
  BY DEF MergeLower
<1>13. /\ freelist' \in [List -> Addr \cup {NULL}] /\ next' \in [Addr -> Addr \cup {NULL}]
  <2>1. /\ freelist \in [List -> Addr \cup {NULL}] /\ next \in [Addr -> Addr \cup {NULL}]
        /\ next[At] \in Addr \cup {NULL} /\ Walked \in List
    BY <1>2, <1>4, Basics DEF TypeOK
  <2> QED BY <1>12, <2>1 DEF Store
<1>14. CASE Unmerged(w, V)
  <2>1. ~op.merged /\ w[H] = Pending /\ Apart(w)
    BY <1>5, <1>14 DEF Unmerged
  <2> DEFINE v == [a \in Addr |-> IF a = x THEN Pending ELSE IF a = H THEN Nowhere ELSE w[a]]
  <2>2. /\ v \in [Addr -> Place] /\ v[x] = Pending /\ v[H] = Nowhere
        /\ \A a \in Addr \ {x, H} : v[a] = w[a]
    BY <1>6, Places
  <2> HIDE DEF v
  <2>3. /\ Space(v)' /\ size' \in [Addr -> Sized]
        /\ \A a \in Addr \ {x} : EndOf(a)' = EndOf(a)
    <3>1. w[x] # Nowhere /\ w[H] # Nowhere
      BY <1>9, <2>1, Places, Constants
    <3>2. \A a \in Addr : v[a] # Nowhere => w[a] # Nowhere
      BY <2>2, <3>1
    <3> QED BY <1>2, <1>6, <1>10, <1>11, <2>2, <3>1, <3>2, SpaceJoined
  <2>4. Lists(v)' /\ Ranked(v, r)'
    <3>1. \A a \in Addr \ {x} : v[a] # w[a] => v[a] \notin List /\ w[a] \notin List
      BY <2>1, <2>2, Places
    <3>2. v[x] \notin List
      BY <2>2, Places
    <3> QED BY <1>1, <1>2, <1>3, <1>4, <1>12, <2>2, <3>1, <3>2, Removed
  <2>5. TypeOK'
    BY <1>1, <1>2, <1>7, <1>13, <2>3 DEF TypeOK
  <2>6. OpInv(v)'
    BY <1>1, <1>7, <1>10, <2>1, <2>2, Places DEF OpInv
  <2>7. \A a \in Addr : a \in live' <=> v[a] = Held
    BY <1>1, <1>9, <1>10, <2>1, <2>2, Places, Constants
  <2>8. Placed(v, r)'
    BY <2>3, <2>4, <2>6, <2>7 DEF Placed
  <2>9. Apart(v)'
    <3>1. \A a \in Addr : v[a] = Big => w[a] = Big /\ a # x
      BY <2>2, Places, Constants
    <3> QED BY <2>1, <2>3, <3>1 DEF Apart
  <2>10. Merging(v, {})'
    BY <1>7, <1>9, <2>1, <2>2, <2>9 DEF Merging, Passed, Unmerged
  <2> QED BY <1>7, <2>2, <2>5, <2>8, <2>10, ConcludeMerging
<1>15. CASE MergedUpper(w, V)
  <2>1. /\ op.merged /\ H \in V /\ w[H] = Big /\ x \notin V
        /\ \A a, b \in Addr : w[a] = Big /\ w[b] = Big /\ EndOf(a) = b => b = H /\ a \notin V
    BY <1>1, <1>2, <1>3, <1>5, <1>6, <1>15, MergingFacts DEF MergedUpper
  <2> DEFINE v == [w EXCEPT ![x] = Nowhere]
  <2>2. v \in [Addr -> Place] /\ v[x] = Nowhere /\ \A a \in Addr \ {x} : v[a] = w[a]
    BY Places
  <2> HIDE DEF v
  <2>3. size' \in [Addr -> Sized] /\ EndOf(x)' = EndOf(H)
    <3>1. w[x] # Nowhere /\ w[H] # Nowhere
      BY <1>9, <2>1, Places, Constants
    <3> DEFINE u == [a \in Addr |-> Nowhere]
    <3>2. u \in [Addr -> Place] /\ u[H] = Nowhere /\ \A a \in Addr : u[a] # Nowhere => w[a] # Nowhere
      BY Places
    <3> HIDE DEF u
    <3> QED BY <1>2, <1>6, <1>10, <1>11, <3>1, <3>2, SpaceJoined
  <2>4. Space(v)' /\ \A a \in Addr \ {x} : EndOf(a)' = EndOf(a)
    <3>1. \A a \in Addr : v[a] # Nowhere => w[a] # Nowhere
      BY <2>2
    <3> QED BY <1>2, <1>10, <1>11, <2>2, <3>1, SpaceForgot
  <2>5. Lists(v)' /\ Ranked(v, r)'
    <3>1. v[x] \notin List
      BY <2>2, Places
    <3> QED BY <1>1, <1>2, <1>3, <1>4, <1>12, <2>2, <3>1, Removed
  <2>6. TypeOK'
    BY <1>1, <1>2, <1>7, <1>13, <2>3 DEF TypeOK
  <2>7. OpInv(v)'
    BY <1>1, <1>7, <1>10, <2>1, <2>2, Places DEF OpInv
  <2>8. \A a \in Addr : a \in live' <=> v[a] = Held
    BY <1>1, <1>9, <1>10, <2>2, Places, Constants
  <2>9. Placed(v, r)'
    BY <2>4, <2>5, <2>7, <2>8 DEF Placed
  <2>10. \A a \in Addr : v[a] = Big => w[a] = Big /\ a # x /\ EndOf(a)' = EndOf(a)
    BY <2>2, <2>4, Places, Constants
  <2>11. ASSUME NEW a \in Addr, NEW b \in Addr, v[a] = Big, v[b] = Big PROVE EndOf(a)' # b
    <3>1. SUFFICES ASSUME EndOf(a) = b PROVE FALSE
      BY <2>10, <2>11
    <3>2. EndOf(a) = H /\ a # x /\ w[a] = Big
      BY <2>1, <2>10, <2>11, <3>1
    <3>3. EndOf(a) <= x \/ EndOf(x) <= a
      BY <1>9, <1>10, <3>2, Places, Constants DEF Space, Disjoint
    <3>4. EndOf(a) \in Nat /\ EndOf(a) > a /\ a \in Nat /\ x \in Nat
      BY <1>2, Basics, Addresses
    <3> QED BY <1>6, <3>2, <3>3, <3>4
  <2>12. \A a \in Addr : v[a] = Big => EndOf(a)' # x
    BY <1>6, <1>9, <2>1, <2>10
  <2>13. MergedBoth(v)'
    <3>1. Apart(v)'
      BY <2>11 DEF Apart
    <3>2. v[H] = Big /\ EndOf(H)' = EndOf(H)
      BY <1>6, <2>1, <2>2, <2>4
    <3> QED BY <1>7, <2>1, <2>2, <2>3, <2>12, <3>1, <3>2 DEF MergedBoth
  <2>14. Merging(v, {})'
    BY <1>7, <1>9, <2>13 DEF Merging, Passed
  <2> QED BY <1>7, <2>2, <2>6, <2>9, <2>14, ConcludeMerging
<1>16. CASE MergedBoth(w)
  BY <1>5, <1>6, <1>9, <1>16 DEF MergedBoth
<1> QED BY <1>3, <1>14, <1>15, <1>16 DEF Merging

LEMMA MergeUpperStep ==
  ASSUME HeapInv, MergeUpper
  PROVE  HeapInv'
<1>1. op.kind = "free" /\ At # NULL /\ UNCHANGED <<heap_end, live>>
  BY DEF MergeUpper
<1>2. TypeOK
  BY <1>1, ApplyMerging
<1>3. PICK w \in [Addr -> Place], r \in [Addr -> Nat], V \in SUBSET Addr :
        Placed(w, r) /\ Merging(w, V)
  BY <1>1, ApplyMerging
<1>4. PICK x \in Addr : x = At
  BY <1>1, <1>2, Basics
<1>5. PICK H \in Addr : H = op.header
  BY <1>1, <1>2, <1>3, MergingFacts
<1>6. EndOf(H) = x /\ EndOf(H) > H /\ EndOf(x) > x /\ x # H /\ EndOf(x) # H
  BY <1>2, <1>4, <1>5, Basics, Addresses DEF MergeUpper, JoinsUpper, JoinsLower
<1>7. Walked = Big
  BY <1>1 DEF Walked
<1>8. w[x] = Big /\ x # NULL
  BY <1>1, <1>2, <1>3, <1>4, <1>7, AtPlace
<1>9. CASE Unmerged(w, V)
  <2>1. /\ ~op.merged /\ w[H] = Pending /\ Apart(w) /\ x \notin V /\ H \notin V
    BY <1>1, <1>2, <1>3, <1>5, <1>6, <1>9, MergingFacts, Places, Constants DEF Unmerged
  <2>2. /\ op' \in Operation /\ op'.kind = "free" /\ op'.iter = H /\ op'.old = op.old
        /\ op'.header = H /\ op'.merged = TRUE
    <3>1. op' = [op EXCEPT !.merged = TRUE, !.iter = H] /\ op \in Operation
      BY <1>2, <1>5 DEF MergeUpper, TypeOK
    <3> QED BY <1>1, <1>5, <3>1 DEF Operation
  <2>3. /\ Space(w) /\ \A a \in Addr : a \in live <=> w[a] = Held
        /\ op.old # NULL => op.old \in live
        /\ \A a \in Addr : w[a] = Pending => a = H
    BY <1>1, <1>2, <1>3, <1>5, MergingFacts
  <2>4. PICK n : n = size[H] + HEADER + size[x] /\ Resized(H, n) /\ heap_end' = heap_end
    BY <1>1, <1>4, <1>5 DEF MergeUpper, Resized
  <2>5. Store(H, [next EXCEPT ![H] = next[At]])
    BY <1>5 DEF MergeUpper
  <2>6. /\ freelist' \in [List -> Addr \cup {NULL}] /\ next' \in [Addr -> Addr \cup {NULL}]
        /\ op.iter = NULL => freelist'[Big] = H /\ \A a \in Addr \ {H} : next'[a] = next[a]
        /\ op.iter # NULL => /\ freelist' = freelist /\ next'[op.iter] = H
                             /\ \A a \in Addr \ {H, op.iter} : next'[a] = next[a]
    <3>1. /\ freelist \in [List -> Addr \cup {NULL}] /\ next \in [Addr -> Addr \cup {NULL}]
          /\ next[At] \in Addr \cup {NULL} /\ Big \in List /\ op.iter \in Addr \cup {NULL}
      BY <1>2, <1>4, Basics, Constants DEF TypeOK
    <3>2. CASE op.iter = NULL
      BY <1>7, <2>5, <3>1, <3>2 DEF Store
    <3>3. CASE op.iter # NULL
      <4>1. next' = [[next EXCEPT ![H] = next[At]] EXCEPT ![op.iter] = H] /\ freelist' = freelist
        BY <2>5, <3>3 DEF Store
      <4> QED BY <3>1, <3>3, <4>1
    <3> QED BY <3>2, <3>3
  <2> DEFINE v == [a \in Addr |-> IF a = x THEN Nowhere ELSE IF a = H THEN Big ELSE w[a]]
  <2>7. /\ v \in [Addr -> Place] /\ v[x] = Nowhere /\ v[H] = Big
        /\ \A a \in Addr \ {x, H} : v[a] = w[a]
    BY <1>6, Places, Constants
  <2> HIDE DEF v
  <2>8. /\ Space(v)' /\ size' \in [Addr -> Sized] /\ EndOf(H)' = EndOf(x)
        /\ \A a \in Addr \ {H} : EndOf(a)' = EndOf(a)
    <3>1. w[x] # Nowhere /\ w[H] # Nowhere
      BY <1>8, <2>1, Places, Constants
    <3>2. \A a \in Addr : v[a] # Nowhere => w[a] # Nowhere
      BY <2>7, <3>1
    <3> QED BY <1>2, <1>6, <2>3, <2>4, <2>7, <3>1, <3>2, SpaceJoined
  <2> DEFINE q == [r EXCEPT ![H] = r[x]]
  <2>9. q \in [Addr -> Nat]
    OBVIOUS
  <2>10. Lists(v)' /\ Ranked(v, q)'
    <3>1. v[x] \notin List /\ w[H] \notin List /\ v[H] = w[x]
      BY <1>8, <2>1, <2>7, Places
    <3> QED BY <1>1, <1>2, <1>3, <1>4, <2>5, <2>7, <3>1, Replaced
  <2> HIDE DEF q
  <2>11. TypeOK'
    BY <1>1, <1>2, <2>2, <2>6, <2>8 DEF TypeOK
  <2>12. OpInv(v)'
    <3>1. Walked' = Big
      BY <2>2 DEF Walked
    <3>2. \A a \in Addr : v[a] # Pending
      BY <2>3, <2>7, Places, Constants
    <3> QED BY <1>1, <2>2, <2>3, <2>7, <3>1, <3>2 DEF OpInv
  <2>13. \A a \in Addr : a \in live' <=> v[a] = Held
    BY <1>1, <1>8, <2>1, <2>3, <2>7, Places, Constants
  <2>14. Placed(v, q)'
    BY <2>8, <2>10, <2>12, <2>13 DEF Placed
  <2> DEFINE W == V \cup {H}
  <2>15. W \in SUBSET Addr
    OBVIOUS
  <2>16. /\ \A a \in V : a \in Addr /\ w[a] = Big /\ EndOf(a) # H
         /\ op.iter = NULL => V = {}
         /\ op.iter # NULL => op.iter \in V /\ freelist[Big] \in V
         /\ \A a \in V \ {op.iter} : next[a] \in V
    BY <1>1, <1>2, <1>3, <1>5, MergingFacts
  <2>17. Passed(v, W)'
    <3>1. \A a \in W : a \in Addr /\ v[a] = Big
      BY <2>1, <2>7, <2>16
    <3>2. freelist'[Big] \in W
      BY <2>6, <2>16
    <3>3. \A a \in W \ {H} : next'[a] \in W
      BY <2>1, <2>6, <2>16
    <3>4. \A a \in W : EndOf(a)' # H
      BY <1>6, <2>1, <2>8, <2>16
    <3> QED BY <2>2, <3>1, <3>2, <3>3, <3>4, Addresses DEF Passed
  <2>18. ASSUME NEW a \in Addr, NEW b \in Addr, v[a] = Big, v[b] = Big, EndOf(a)' = b
         PROVE  b = H /\ a \notin W
    <3>1. EndOf(x) > H
      BY <1>2, <1>6, Basics, Addresses
    <3>2. \A c \in Addr \ {H} : v[c] = Big => w[c] = Big
      BY <2>7, Places, Constants
    <3>3. a # H
      <4>1. SUFFICES ASSUME a = H PROVE FALSE
        OBVIOUS
      <4>2. EndOf(x) = b
        BY <2>8, <2>18, <4>1
      <4>3. b # H
        BY <3>1, <4>2, Addresses
      <4> QED BY <1>8, <2>1, <2>18, <3>2, <4>2, <4>3 DEF Apart
    <3>4. EndOf(a) = b /\ w[a] = Big
      BY <2>8, <2>18, <3>2, <3>3
    <3>5. b = H
      BY <2>1, <2>18, <3>2, <3>4 DEF Apart
    <3> QED BY <2>16, <3>3, <3>4, <3>5
  <2>19. MergedUpper(v, W)'
    BY <2>2, <2>18 DEF MergedUpper
  <2>20. Merging(v, W)'
    BY <2>2, <2>17, <2>19, Addresses DEF Merging
  <2> HIDE DEF W
  <2> QED BY <2>2, <2>7, <2>9, <2>11, <2>14, <2>15, <2>20, ConcludeMerging
<1>10. CASE MergedUpper(w, V)
  <2>1. H \in V /\ w[H] = Big
    BY <1>1, <1>2, <1>3, <1>5, <1>10, MergingFacts DEF MergedUpper
  <2> QED BY <1>5, <1>6, <1>8, <1>10, <2>1 DEF MergedUpper
<1>11. CASE MergedBoth(w)
  BY <1>5, <1>6, <1>8, <1>11 DEF MergedBoth, Apart
<1> QED BY <1>3, <1>9, <1>10, <1>11 DEF Merging

(* Once the loop of kfree has reached the end of the list, everything on it *)
(* was passed; whatever else was in its place no longer counts.             *)
LEMMA Dropped ==
  ASSUME TypeOK, op.kind = "free", NEW w \in [Addr -> Place], NEW r \in [Addr -> Nat],
         Placed(w, r), NEW V \in SUBSET Addr, Merging(w, V), At = NULL,
         NEW v \in [Addr -> Place],
         \A a \in Addr : v[a] = IF w[a] = Big /\ a \notin V THEN Nowhere ELSE w[a]
  PROVE  Lists(v) /\ Ranked(v, r)
<1>1. /\ freelist \in [List -> Addr \cup {NULL}] /\ next \in [Addr -> Addr \cup {NULL}]
      /\ NULL \notin Addr
  BY Constants DEF TypeOK
<1>2. /\ Lists(w) /\ Ranked(w, r) /\ Walked = Big
      /\ op.iter = NULL => V = {} /\ freelist[Big] = NULL
      /\ op.iter # NULL => op.iter \in V /\ freelist[Big] \in V /\ next[op.iter] = NULL
      /\ \A a \in V \ {op.iter} : next[a] \in V
      /\ \A a \in V : w[a] = Big
  BY MergingFacts DEF At
<1>3. \A a \in Addr : v[a] \in List => w[a] = v[a] /\ (w[a] = Big => a \in V)
  BY Places
<1>4. \A l \in List : freelist[l] # NULL => v[freelist[l]] = l
  BY <1>1, <1>2 DEF Lists
<1>5. ASSUME NEW a \in Addr, v[a] \in List, next[a] # NULL
      PROVE  v[next[a]] = v[a] /\ next[a] # freelist[v[a]] /\ r[next[a]] < r[a]
  <2>1. w[a] = v[a] /\ next[a] \in Addr /\ w[next[a]] = w[a] /\ next[a] # freelist[w[a]]
    BY <1>1, <1>2, <1>3, <1>5 DEF Lists
  <2>2. r[next[a]] < r[a]
    BY <1>2, <1>5, <2>1 DEF Ranked
  <2>3. w[a] = Big => next[a] \in V
    BY <1>2, <1>3, <1>5
  <2> QED BY <2>1, <2>2, <2>3
<1>6. \A a, b \in Addr : v[a] \in List /\ v[b] \in List /\ next[a] = next[b] /\ next[a] # NULL => a = b
  BY <1>2, <1>3 DEF Lists
<1> QED BY <1>4, <1>5, <1>6 DEF Lists, Ranked

LEMMA MergeEndStep ==
  ASSUME HeapInv, MergeEnd
  PROVE  HeapInv'
<1>1. op.kind = "free" /\ At = NULL /\ UNCHANGED <<heap_end, size, live>>
  BY DEF MergeEnd
<1>2. TypeOK
  BY <1>1, ApplyMerging
<1>3. PICK w \in [Addr -> Place], r \in [Addr -> Nat], V \in SUBSET Addr :
        Placed(w, r) /\ Merging(w, V)
  BY <1>1, ApplyMerging
<1>4. PICK H \in Addr : H = op.header
  BY <1>1, <1>2, <1>3, MergingFacts
<1>5. /\ Space(w) /\ \A a \in Addr : a \in live <=> w[a] = Held
      /\ op.old # NULL => op.old \in live
      /\ \A a \in Addr : w[a] = Pending => ~op.merged /\ a = H
      /\ \A a \in V : a \in Addr /\ w[a] = Big /\ EndOf(a) # H
  BY <1>1, <1>2, <1>3, <1>4, MergingFacts
<1>6. /\ op' \in Operation /\ op'.kind \in {"idle", "malloc"} /\ op'.iter = NULL
      /\ op'.old # NULL => op'.old \in live
      /\ op'.kind = "malloc" => op'.want > 0
  <2>1. op.want \in Nat /\ op.old \in Addr \cup {NULL}
    BY <1>2, Basics
  <2>2. CASE op.want = 0
    <3>1. op' = Idle
      BY <2>2 DEF MergeEnd
    <3> QED BY <3>1, <1>4, <2>1, Operations
  <2>3. CASE op.want # 0
    <3>1. op' = Search(op.want, op.old)
      BY <2>3 DEF MergeEnd
    <3>2. /\ op' \in Operation /\ op'.kind = "malloc" /\ op'.want = op.want /\ op'.old = op.old
          /\ op'.iter = NULL
      BY <3>1, <2>1 DEF Search, Begin, Operation
    <3> QED BY <1>5, <2>1, <2>3, <3>2
  <2> QED BY <2>2, <2>3
<1> DEFINE u == [a \in Addr |-> IF w[a] = Big /\ a \notin V THEN Nowhere ELSE w[a]]
<1>7. /\ u \in [Addr -> Place]
      /\ \A a \in Addr : u[a] = IF w[a] = Big /\ a \notin V THEN Nowhere ELSE w[a]
  BY Places
<1> HIDE DEF u
<1>8. Lists(u) /\ Ranked(u, r)
  BY <1>1, <1>2, <1>3, <1>7, Dropped
<1>9. \A a \in Addr : EndOf(a)' = EndOf(a)
  BY <1>1 DEF EndOf
<1>10. \A a \in Addr : u[a] = Big <=> a \in V
  BY <1>5, <1>7, Places, Constants
<1>11. CASE op.merged
  <2>1. UNCHANGED <<freelist, next>>
    BY <1>11 DEF MergeEnd
  <2>2. Lists(u)' /\ Ranked(u, r)'
    BY <1>8, <2>1 DEF Lists, Ranked
  <2>3. Space(u)'
    <3>1. \A a \in Addr : u[a] # Nowhere => w[a] # Nowhere
      BY <1>7
    <3> QED BY <1>1, <1>5, <1>7, <3>1, SpaceKept
  <2>4. TypeOK'
    BY <1>1, <1>2, <1>6, <2>1 DEF TypeOK
  <2>5. OpInv(u)'
    BY <1>1, <1>5, <1>6, <1>7, <1>11, Places DEF OpInv
  <2>6. \A a \in Addr : a \in live' <=> u[a] = Held
    BY <1>1, <1>5, <1>7, Places, Constants
  <2>7. Placed(u, r)'
    BY <2>2, <2>3, <2>5, <2>6 DEF Placed
  <2>8. Apart(u)'
    <3>1. CASE MergedUpper(w, V)
      BY <1>5, <1>9, <1>10, <3>1 DEF MergedUpper, Apart
    <3>2. CASE MergedBoth(w)
      BY <1>5, <1>9, <1>10, <3>2 DEF MergedBoth, Apart
    <3> QED BY <1>3, <1>11, <3>1, <3>2 DEF Merging, Unmerged
  <2> QED BY <1>6, <1>7, <2>4, <2>7, <2>8, Conclude
<1>12. CASE ~op.merged
  <2>1. next' = [next EXCEPT ![H] = freelist[Big]] /\ freelist' = [freelist EXCEPT ![Big] = H]
    BY <1>4, <1>12 DEF MergeEnd
  <2>2. w[H] = Pending /\ Apart(w) /\ \A a \in V : EndOf(H) # a
    BY <1>3, <1>4, <1>12 DEF Merging, Unmerged, MergedUpper, MergedBoth
  <2> DEFINE v == [u EXCEPT ![H] = Big]
  <2>3. v \in [Addr -> Place] /\ v[H] = Big /\ \A a \in Addr \ {H} : v[a] = u[a]
    BY <1>7, Places, Constants
  <2> HIDE DEF v
  <2>4. PICK q \in [Addr -> Nat] : Lists(v)' /\ Ranked(v, q)'
    <3>1. u[H] \notin List
      BY <1>7, <2>2, Places
    <3>2. PICK l \in List : l = Big
      BY Constants
    <3>3. /\ next' = [next EXCEPT ![H] = freelist[l]] /\ freelist' = [freelist EXCEPT ![l] = H]
          /\ v[H] = l
      BY <2>1, <2>3, <3>2
    <3> QED BY <1>2, <1>7, <1>8, <2>3, <3>1, <3>3, Pushed
  <2>5. Space(v)'
    <3>1. \A a \in Addr : v[a] # Nowhere => w[a] # Nowhere
      BY <1>7, <2>2, <2>3, Places
    <3> QED BY <1>1, <1>5, <2>3, <3>1, SpaceKept
  <2>6. TypeOK'
    <3>1. freelist[Big] \in Addr \cup {NULL} /\ Big \in List
      BY <1>2, Constants DEF TypeOK
    <3>2. freelist' \in [List -> Addr \cup {NULL}] /\ next' \in [Addr -> Addr \cup {NULL}]
      BY <1>2, <2>1, <3>1 DEF TypeOK
    <3> QED BY <1>1, <1>2, <1>6, <3>2 DEF TypeOK
  <2>7. OpInv(v)'
    <3>1. \A a \in Addr : v[a] # Pending
      BY <1>5, <1>7, <2>3, Places, Constants
    <3> QED BY <1>1, <1>6, <3>1 DEF OpInv
  <2>8. \A a \in Addr : a \in live' <=> v[a] = Held
    BY <1>1, <1>5, <1>7, <2>2, <2>3, Places, Constants
  <2>9. Placed(v, q)'
    BY <2>4, <2>5, <2>7, <2>8 DEF Placed
  <2>10. Apart(v)'
    <3>1. \A a \in Addr : v[a] = Big => a = H \/ a \in V
      BY <1>10, <2>3
    <3>2. EndOf(H) # H
      BY <1>2, Basics, Addresses
    <3> QED BY <1>5, <1>9, <2>2, <3>1, <3>2 DEF Apart
  <2> QED BY <1>6, <2>3, <2>6, <2>9, <2>10, Conclude
<1> QED BY <1>11, <1>12

-----------------------------------------------------------------------------
(* kmalloc. *)

LEMMA TakeStep ==
  ASSUME HeapInv, Take
  PROVE  HeapInv'
<1>1. /\ op.kind = "malloc" /\ At # NULL /\ Fits(At) /\ heap_end' = heap_end
      /\ op.kind # "free"
  BY DEF Take
<1>2. TypeOK
  BY <1>1, Apply
<1>3. PICK w \in [Addr -> Place], r \in [Addr -> Nat] : Placed(w, r) /\ Apart(w)
  BY <1>1, Apply
<1>4. PICK h \in Addr : h = At
  BY <1>1, <1>2, Basics
<1>5. PICK l \in List : l = Walked
  BY <1>2, Basics
<1>6. w[h] = l /\ h # NULL
  BY <1>1, <1>2, <1>3, <1>4, <1>5, AtPlace
<1>7. /\ Space(w) /\ \A a \in Addr : a \in live <=> w[a] = Held
      /\ op.old # NULL => op.old \in live
      /\ \A a \in Addr : w[a] # Pending
  BY <1>1, <1>3 DEF Placed, OpInv
<1>8. live' = live \cup {h}
  BY <1>4 DEF Take
<1>9. /\ op' \in Operation /\ op'.kind \in {"idle", "copy"} /\ op'.iter = NULL
      /\ op'.old # NULL => op'.old \in live
      /\ op'.kind = "copy" => op'.old # NULL
  <2>1. op.old \in Addr \cup {NULL}
    BY <1>2, Basics
  <2>2. CASE op.old = NULL
    <3>1. op' = Idle
      BY <2>2 DEF Take
    <3> QED BY <3>1, <1>4, <2>1, Operations
  <2>3. CASE op.old # NULL
    <3>1. op' = Copy(op.old)
      BY <2>3 DEF Take
    <3>2. op' \in Operation /\ op'.kind = "copy" /\ op'.old = op.old /\ op'.iter = NULL
      BY <3>1, <1>4, <2>1, Operations
    <3> QED BY <1>7, <2>3, <3>2
  <2> QED BY <2>2, <2>3
<1>10. /\ freelist \in [List -> Addr \cup {NULL}] /\ next \in [Addr -> Addr \cup {NULL}]
       /\ next[At] \in Addr \cup {NULL} /\ Walked \in List /\ op.iter \in Addr \cup {NULL}
  BY <1>2, <1>4, Basics DEF TypeOK
<1>11. CASE ~Splits(At)
  <2>1. Store(next[At], next) /\ size' = size
    BY <1>11 DEF Take
  <2>2. freelist' \in [List -> Addr \cup {NULL}] /\ next' \in [Addr -> Addr \cup {NULL}]
    BY <1>10, <2>1 DEF Store
  <2> DEFINE v == [w EXCEPT ![h] = Held]
  <2>3. v \in [Addr -> Place] /\ v[h] = Held /\ \A a \in Addr \ {h} : v[a] = w[a]
    BY Places
  <2> HIDE DEF v
  <2>4. Lists(v)' /\ Ranked(v, r)'
    <3>1. v[h] \notin List
      BY <2>3, Places
    <3> QED BY <1>1, <1>2, <1>3, <1>4, <2>1, <2>3, <3>1, Removed
  <2>5. Space(v)'
    <3>1. \A a \in Addr : v[a] # Nowhere => w[a] # Nowhere
      BY <1>6, <2>3, Places
    <3> QED BY <1>1, <1>7, <2>1, <2>3, <3>1, SpaceKept
  <2>6. TypeOK'
    BY <1>1, <1>2, <1>8, <1>9, <2>1, <2>2 DEF TypeOK
  <2>7. OpInv(v)'
    BY <1>7, <1>8, <1>9, <2>3, Places DEF OpInv
  <2>8. \A a \in Addr : a \in live' <=> v[a] = Held
    BY <1>7, <1>8, <2>3
  <2>9. Placed(v, r)'
    BY <2>4, <2>5, <2>7, <2>8 DEF Placed
  <2>10. Apart(v)'
    <3>1. \A a \in Addr : v[a] = Big => w[a] = Big
      BY <2>3, Places, Constants
    <3> QED BY <1>3, <2>1, <3>1 DEF Apart, EndOf
  <2> QED BY <1>9, <2>3, <2>6, <2>9, <2>10, Conclude
<1>12. CASE Splits(At)
  <2>1. op.want \in Nat /\ size[h] \in Sized /\ size[h] \in Nat
    BY <1>2, Basics DEF TypeOK
  <2>2. PICK n \in Sized : n = ALIGN(op.want)
    BY <2>1, AlignFacts
  <2>3. ALIGN(size[h]) = size[h]
    BY <2>1, AlignFacts
  <2>4. size[h] > n + HEADER /\ n \in Nat /\ n % LONG = 0 /\ HEADER \in Nat
    BY <1>4, <1>12, <2>2, <2>3, Constants DEF Splits, Sized
  <2>5. PICK m \in Sized : size[h] = n + HEADER + m /\ m = size[h] - (n + HEADER)
    <3>1. (n + HEADER) % LONG = 0 /\ n + HEADER \in Nat
      BY <2>4, AlignedSum, Constants
    <3>2. size[h] % LONG = 0
      BY <2>1 DEF Sized
    <3>3. (size[h] - (n + HEADER)) % LONG = 0
      BY <2>1, <2>4, <3>1, <3>2, AlignedDifference
    <3>4. size[h] - (n + HEADER) \in Nat /\ size[h] = n + HEADER + (size[h] - (n + HEADER))
      BY <2>1, <2>4
    <3> QED BY <3>3, <3>4 DEF Sized
  <2>6. PICK x : x = h + HEADER + n
    OBVIOUS
  <2>7. /\ ResizedBoth(x, m, h, n)
        /\ Store(x, [next EXCEPT ![x] = next[At]])
    BY <1>4, <1>12, <2>2, <2>3, <2>5, <2>6 DEF Take, UpperPart, ResizedBoth
  <2> DEFINE v == [a \in Addr |-> IF a = x THEN l ELSE IF a = h THEN Held ELSE w[a]]
  <2>8. v \in [Addr -> Place] /\ \A a \in Addr \ {x, h} : v[a] = w[a]
    BY Places
  <2>9. \A a \in Addr : a = x => v[a] = l
    OBVIOUS
  <2>10. h # x => v[h] = Held
    OBVIOUS
  <2> HIDE DEF v
  <2>11. /\ x \in Addr /\ x # h /\ w[x] = Nowhere
         /\ Space(v)' /\ size' \in [Addr -> Sized]
         /\ EndOf(x)' = EndOf(h) /\ EndOf(h)' = x
         /\ \A a \in Addr \ {h, x} : EndOf(a)' = EndOf(a)
    <3>1. w[h] # Nowhere
      BY <1>6, Places
    <3>2. \A a \in Addr \ {x} : v[a] # Nowhere => w[a] # Nowhere
      BY <2>8, <3>1
    <3> QED BY <1>1, <1>2, <1>7, <2>5, <2>6, <2>7, <2>8, <3>1, <3>2, SpaceSplit
  <2>12. v[x] = l /\ v[h] = Held
    BY <2>9, <2>10, <2>11
  <2> DEFINE q == [r EXCEPT ![x] = r[h]]
  <2>13. q \in [Addr -> Nat]
    OBVIOUS
  <2>14. Lists(v)' /\ Ranked(v, q)'
    <3>1. v[h] \notin List /\ w[x] \notin List /\ v[x] = w[h]
      BY <1>6, <2>11, <2>12, Places
    <3> QED BY <1>1, <1>2, <1>3, <1>4, <2>7, <2>8, <2>11, <3>1, Replaced
  <2> HIDE DEF q
  <2>15. freelist' \in [List -> Addr \cup {NULL}] /\ next' \in [Addr -> Addr \cup {NULL}]
    BY <1>10, <2>7, <2>11 DEF Store
  <2>16. TypeOK'
    BY <1>1, <1>2, <1>8, <1>9, <2>11, <2>15 DEF TypeOK
  <2>17. OpInv(v)'
    BY <1>7, <1>8, <1>9, <2>8, <2>12, Places DEF OpInv
  <2>18. \A a \in Addr : a \in live' <=> v[a] = Held
    BY <1>7, <1>8, <2>8, <2>11, <2>12, Places
  <2>19. Placed(v, q)'
    BY <2>11, <2>14, <2>17, <2>18 DEF Placed
  <2>20. ASSUME NEW a \in Addr, NEW b \in Addr, v[a] = Big, v[b] = Big PROVE EndOf(a)' # b
    <3>1. a # h /\ b # h /\ \A c \in Addr \ {x} : v[c] = Big => w[c] = Big
      BY <2>8, <2>12, <2>20, Places, Constants
    <3>2. EndOf(x)' # x
      <4>1. EndOf(h) > h /\ h \in Nat /\ EndOf(h) = h + HEADER + size[h]
        BY <1>2, Basics, Addresses DEF EndOf
      <4> QED BY <2>1, <2>4, <2>6, <2>11, <4>1
    <3>3. CASE a = x /\ b # x
      <4>1. w[h] = Big /\ w[b] = Big /\ EndOf(a)' = EndOf(h)
        BY <1>6, <2>11, <2>12, <2>20, <3>1, <3>3
      <4> QED BY <1>3, <4>1 DEF Apart
    <3>4. CASE a # x /\ b = x
      <4>1. EndOf(a)' = EndOf(a) /\ w[a] # Nowhere /\ w[h] # Nowhere
        BY <1>6, <2>11, <2>20, <3>1, <3>4, Places, Constants
      <4>2. EndOf(a) <= h \/ EndOf(h) <= a
        BY <1>7, <3>1, <4>1 DEF Space, Disjoint
      <4>3. /\ EndOf(a) \in Nat /\ EndOf(a) > a /\ a \in Nat /\ h \in Nat
            /\ EndOf(h) = h + HEADER + size[h]
        BY <1>2, Basics, Addresses DEF EndOf
      <4> QED BY <2>1, <2>4, <2>6, <3>4, <4>1, <4>2, <4>3, Constants
    <3>5. CASE a # x /\ b # x
      BY <1>3, <2>11, <2>20, <3>1, <3>5 DEF Apart
    <3> QED BY <3>2, <3>3, <3>4, <3>5
  <2>21. Apart(v)'
    BY <2>20 DEF Apart
  <2> QED BY <1>9, <2>8, <2>13, <2>16, <2>19, <2>21, Conclude
<1> QED BY <1>11, <1>12

LEMMA MoreBigStep ==
  ASSUME HeapInv, MoreBig
  PROVE  HeapInv'
<1>1. /\ op.kind = "malloc" /\ op.kind # "free" /\ At = NULL /\ heap_end + Grant <= HeapBound
      /\ UNCHANGED <<freelist, next, live>>
  BY DEF MoreBig, Exhausted
<1>2. TypeOK
  BY <1>1, Apply
<1>3. PICK w \in [Addr -> Place], r \in [Addr -> Nat] : Placed(w, r) /\ Apart(w)
  BY <1>1, Apply
<1>4. op.want \in Nat /\ op.old \in Addr \cup {NULL}
  BY <1>2, Basics
<1>5. PICK g \in Sized : g = Grant /\ g >= HEADER /\ g \in Nat /\ g % LONG = 0
  BY <1>4, GrantFacts, Constants DEF Sized
<1>6. PICK e \in Addr : e = heap_end
  <2>1. heap_end \in Nat /\ heap_end % LONG = 0 /\ End <= heap_end /\ heap_end <= HeapBound
    BY <1>2 DEF TypeOK
  <2> QED BY <2>1, IsAddress
<1>7. e \in Nat /\ HEADER \in Nat /\ HEADER > 0 /\ HeapBound \in Nat
  BY Addresses, Constants
<1>8. heap_end' = e + g /\ Resized(e, g - HEADER)
  BY <1>5, <1>6 DEF MoreBig, Resized
<1>9. g - HEADER \in Sized
  <2>1. (g - HEADER) % LONG = 0
    BY <1>5, AlignedDifference, Constants
  <2> QED BY <1>5, <1>7, <2>1 DEF Sized
<1>10. /\ Space(w) /\ Lists(w) /\ Ranked(w, r) /\ \A a \in Addr : a \in live <=> w[a] = Held
       /\ op.old # NULL => op.old \in live
       /\ \A a \in Addr : w[a] # Pending
  BY <1>1, <1>3 DEF Placed, OpInv
<1>11. w[e] = Nowhere
  <2>1. EndOf(e) > e /\ EndOf(e) \in Nat
    BY <1>2, Basics
  <2> QED BY <1>6, <1>7, <1>10, <2>1 DEF Space
<1>12. /\ op' \in Operation /\ op'.kind = "free" /\ op'.iter = NULL /\ op'.old = op.old
       /\ op'.header = e /\ op'.merged = FALSE
  <2>1. op' = Merge(e, op.want, op.old)
    BY <1>6 DEF MoreBig
  <2> QED BY <1>4, <2>1 DEF Merge, Begin, Operation
<1>13. TypeOK'
  <2>1. size' \in [Addr -> Sized]
    BY <1>2, <1>8, <1>9 DEF TypeOK, Resized
  <2>2. heap_end' \in Nat /\ End <= heap_end' /\ heap_end' <= HeapBound
    BY <1>1, <1>2, <1>5, <1>6, <1>7, <1>8, Constants DEF TypeOK
  <2>3. heap_end' % LONG = 0
    BY <1>5, <1>7, <1>8, Addresses, AlignedSum
  <2> QED BY <1>1, <1>2, <1>12, <2>1, <2>2, <2>3 DEF TypeOK
<1> DEFINE v == [w EXCEPT ![e] = Pending]
<1>14. v \in [Addr -> Place] /\ v[e] = Pending /\ \A a \in Addr \ {e} : v[a] = w[a]
  BY Places
<1> HIDE DEF v
<1>15. EndOf(e)' = e + g /\ \A a \in Addr \ {e} : EndOf(a)' = EndOf(a)
  BY <1>2, <1>5, <1>7, <1>8 DEF TypeOK, Resized, EndOf
<1>16. \A a \in Addr \ {e} : v[a] # Nowhere => EndOf(a) <= e /\ EndOf(a) \in Nat
  BY <1>2, <1>6, <1>10, <1>14, Basics DEF Space
<1>17. Space(v)'
  <2>1. ASSUME NEW a \in Addr, NEW b \in Addr, a # b, v[a] # Nowhere, v[b] # Nowhere
        PROVE  EndOf(a)' <= b \/ EndOf(b)' <= a
    <3>1. CASE a = e \/ b = e
      BY <1>15, <1>16, <2>1, <3>1
    <3>2. CASE a # e /\ b # e
      BY <1>10, <1>14, <1>15, <2>1, <3>2 DEF Space, Disjoint
    <3> QED BY <3>1, <3>2
  <2>2. ASSUME NEW a \in Addr, v[a] # Nowhere PROVE EndOf(a)' <= heap_end'
    BY <1>5, <1>7, <1>8, <1>15, <1>16, <2>2
  <2> QED BY <2>1, <2>2 DEF Space, Disjoint
<1>18. Lists(v)' /\ Ranked(v, r)'
  <2>1. \A a \in Addr : (v[a] \in List <=> w[a] \in List) /\ (w[a] \in List => v[a] = w[a])
    BY <1>11, <1>14, Places
  <2>2. freelist \in [List -> Addr \cup {NULL}] /\ next \in [Addr -> Addr \cup {NULL}]
    BY <1>2 DEF TypeOK
  <2> QED BY <1>1, <1>10, <2>1, <2>2 DEF Lists, Ranked
<1>19. OpInv(v)'
  BY <1>1, <1>10, <1>12, <1>14 DEF OpInv
<1>20. \A a \in Addr : a \in live' <=> v[a] = Held
  BY <1>1, <1>10, <1>11, <1>14, Places
<1>21. Placed(v, r)'
  BY <1>17, <1>18, <1>19, <1>20 DEF Placed
<1>22. Apart(v)'
  <2>1. \A a \in Addr : v[a] = Big => w[a] = Big /\ a # e
    BY <1>14, Places, Constants
  <2> QED BY <1>3, <1>15, <2>1 DEF Apart
<1>23. Merging(v, {})'
  BY <1>12, <1>14, <1>22, Addresses DEF Merging, Passed, Unmerged
<1> QED BY <1>12, <1>13, <1>14, <1>21, <1>23, ConcludeMerging

(* The pieces a fresh area for a quick list is cut into. *)
LEMMA PieceFacts ==
  ASSUME TypeOK, Walked < NRQUICKLISTS, heap_end + Grant <= HeapBound
  PROVE  /\ Piece \in Nat /\ Piece > 0 /\ QuickSize(Walked) \in Sized
         /\ Piece = QuickSize(Walked) + HEADER
         /\ Pieces \subseteq Addr /\ heap_end \in Pieces /\ LastPiece \in Pieces
         /\ \A a \in Pieces : heap_end <= a /\ a + Piece <= heap_end + Grant
         /\ \A a \in Pieces \ {LastPiece} : a + Piece \in Pieces
         /\ \A a, b \in Pieces : a < b => a + Piece <= b
<1>1. PICK l \in List : l = Walked
  BY Basics
<1>2. l \in 0 .. NRQUICKLISTS - 1
  BY <1>1, Constants DEF List
<1>3. QuickSize(l) \in Sized /\ QuickSize(l) \in Nat /\ QuickSize(l) % LONG = 0
  BY <1>2, QuickFacts, Constants DEF Sized
<1>4. PICK p : p = Piece
  OBVIOUS
<1>5. p = QuickSize(l) + HEADER
  BY <1>1, <1>4 DEF Piece
<1>6. p \in Nat /\ p > 0 /\ p <= PAGE
  BY <1>2, <1>3, <1>5, Constants, PageAssumption DEF PageAssumption
<1>7. p % LONG = 0
  BY <1>3, <1>5, AlignedSum, Constants
<1>8. PICK g \in Nat : g = Grant /\ p <= g
  BY <1>6, GrantFacts, Basics, Constants DEF Sized
<1>9. PICK e \in Nat : e = heap_end /\ e % LONG = 0 /\ End <= e
  BY DEF TypeOK
<1>10. PICK k : k = g \div p
  OBVIOUS
<1>11. /\ k \in Nat /\ k >= 1
       /\ \A i \in 0 .. k - 1 : i * p \in Nat /\ i * p + p <= g
       /\ \A i, j \in 0 .. k - 1 : i < j => i * p + p <= j * p
       /\ \A i \in 0 .. k - 1 : (i + 1) * p = i * p + p
  BY <1>6, <1>8, <1>10, PiecesFit
<1>12. Pieces = {e + i * p : i \in 0 .. k - 1} /\ LastPiece = e + (k - 1) * p
  BY <1>4, <1>8, <1>9, <1>10 DEF Pieces, LastPiece
<1>13. \A i \in 0 .. k - 1 : e + i * p \in Addr
  <2> SUFFICES ASSUME NEW i \in 0 .. k - 1 PROVE e + i * p \in Addr
    OBVIOUS
  <2>1. i \in Nat /\ LONG \in Nat /\ LONG > 0 /\ HeapBound \in Nat /\ End \in Nat
    BY <1>11, Constants
  <2>2. (i * p) % LONG = 0 /\ i * p \in Nat
    BY <1>6, <1>7, <2>1, MultipleProduct
  <2>3. (e + i * p) % LONG = 0
    BY <1>9, <2>2, AlignedSum
  <2>4. e + i * p <= HeapBound /\ End <= e + i * p /\ e + i * p \in Nat
    BY <1>6, <1>8, <1>9, <1>11, <2>1, <2>2
  <2> QED BY <2>3, <2>4, IsAddress
<1>14. Pieces \subseteq Addr
  BY <1>12, <1>13
<1>15. heap_end \in Pieces
  <2>1. 0 \in 0 .. k - 1 /\ e + 0 * p = e
    BY <1>6, <1>11
  <2> QED BY <1>9, <1>12, <2>1
<1>16. LastPiece \in Pieces
  <2>1. k - 1 \in 0 .. k - 1
    BY <1>11
  <2> QED BY <1>12, <2>1
<1>17. \A a \in Pieces : e <= a /\ a + p <= e + g
  BY <1>6, <1>8, <1>11, <1>12
<1>18. ASSUME NEW a \in Pieces \ {LastPiece} PROVE a + p \in Pieces
  <2>1. PICK i \in 0 .. k - 1 : a = e + i * p
    BY <1>12
  <2>2. i # k - 1
    BY <1>12, <1>18, <2>1
  <2>3. i + 1 \in 0 .. k - 1 /\ a + p = e + (i + 1) * p
    BY <1>6, <1>11, <2>1, <2>2
  <2> QED BY <1>12, <2>3
<1>19. ASSUME NEW a \in Pieces, NEW b \in Pieces, a < b PROVE a + p <= b
  <2>1. PICK i \in 0 .. k - 1 : a = e + i * p
    BY <1>12
  <2>2. PICK j \in 0 .. k - 1 : b = e + j * p
    BY <1>12
  <2>3. /\ i * p \in Nat /\ j * p \in Nat /\ i \in Nat /\ j \in Nat
        /\ i < j => i * p + p <= j * p
        /\ j < i => j * p + p <= i * p
    BY <1>11
  <2>4. i < j
    BY <1>6, <1>19, <2>1, <2>2, <2>3
  <2> QED BY <1>6, <2>1, <2>2, <2>3, <2>4
<1>20. Piece \in Nat /\ Piece > 0 /\ Piece = QuickSize(Walked) + HEADER /\ QuickSize(Walked) \in Sized
  BY <1>1, <1>3, <1>4, <1>5, <1>6
<1>21. \A a \in Pieces : heap_end <= a /\ a + Piece <= heap_end + Grant
  BY <1>4, <1>8, <1>9, <1>17
<1>22. /\ \A a \in Pieces \ {LastPiece} : a + Piece \in Pieces
       /\ \A a, b \in Pieces : a < b => a + Piece <= b
  BY <1>4, <1>18, <1>19
<1> QED BY <1>14, <1>15, <1>16, <1>20, <1>21, <1>22

LEMMA MoreQuickStep ==
  ASSUME HeapInv, MoreQuick
  PROVE  HeapInv'
<1>1. /\ op.kind = "malloc" /\ op.kind # "free" /\ At = NULL /\ heap_end + Grant <= HeapBound
      /\ Walked < NRQUICKLISTS /\ live' = live
  BY DEF MoreQuick, Exhausted
<1>2. TypeOK
  BY <1>1, Apply
<1>3. PICK w \in [Addr -> Place], r \in [Addr -> Nat] : Placed(w, r) /\ Apart(w)
  BY <1>1, Apply
<1>4. PICK l \in List : l = Walked
  BY <1>2, Basics
<1>5. PICK T \in SUBSET Addr : T = Pieces
  BY <1>1, <1>2, PieceFacts
<1>6. PICK p \in Nat : p = Piece
  BY <1>1, <1>2, PieceFacts
<1>7. PICK last \in T : last = LastPiece
  BY <1>1, <1>2, <1>5, PieceFacts
<1>8. PICK g \in Nat : g = Grant /\ g % LONG = 0
  BY <1>2, Basics, GrantFacts DEF Sized
<1>9. PICK e \in T : e = heap_end
  BY <1>1, <1>2, <1>5, PieceFacts
<1>10. /\ p > 0 /\ p = QuickSize(l) + HEADER /\ QuickSize(l) \in Sized /\ QuickSize(l) \in Nat
       /\ \A a \in T : a \in Addr /\ a \in Nat /\ e <= a /\ a + p <= e + g
       /\ \A a \in T \ {last} : a + p \in T
       /\ \A a, b \in T : a < b => a + p <= b
  BY <1>1, <1>2, <1>4, <1>5, <1>6, <1>7, <1>8, <1>9, PieceFacts, Addresses DEF Sized
<1>11. PICK hd \in Addr \cup {NULL} : hd = freelist[l]
  BY <1>2 DEF TypeOK
<1>12. /\ heap_end' = e + g
       /\ size' = [a \in Addr |-> IF a \in T THEN QuickSize(l) ELSE size[a]]
       /\ next' = [a \in Addr |-> IF a = last THEN hd ELSE IF a \in T THEN a + p ELSE next[a]]
       /\ freelist' = [freelist EXCEPT ![l] = e]
  BY <1>4, <1>5, <1>6, <1>7, <1>8, <1>9, <1>11 DEF MoreQuick, AfterLastPiece
<1>13. /\ freelist \in [List -> Addr \cup {NULL}] /\ next \in [Addr -> Addr \cup {NULL}]
       /\ size \in [Addr -> Sized] /\ NULL \notin Addr
  BY <1>2, Constants DEF TypeOK
<1>14. /\ \A a \in Addr : size'[a] = IF a \in T THEN QuickSize(l) ELSE size[a]
       /\ \A a \in Addr : next'[a] = IF a = last THEN hd ELSE IF a \in T THEN a + p ELSE next[a]
       /\ \A k \in List : freelist'[k] = IF k = l THEN e ELSE freelist[k]
  BY <1>12, <1>13
<1>15. /\ op' \in Operation /\ op'.kind = "malloc" /\ op'.iter = NULL /\ op'.old = op.old
       /\ op'.want = op.want
  BY <1>1, <1>2 DEF MoreQuick, Advance, TypeOK, Operation
<1>16. TypeOK'
  <2>1. size' \in [Addr -> Sized]
    BY <1>10, <1>12, <1>13
  <2>2. next' \in [Addr -> Addr \cup {NULL}]
    BY <1>10, <1>12, <1>13
  <2>3. freelist' \in [List -> Addr \cup {NULL}]
    BY <1>10, <1>12, <1>13
  <2>4. heap_end' \in Nat /\ End <= heap_end' /\ heap_end' <= HeapBound
    BY <1>1, <1>2, <1>8, <1>9, <1>12, Constants DEF TypeOK
  <2>5. heap_end' % LONG = 0
    BY <1>8, <1>10, <1>12, Addresses, AlignedSum
  <2> QED BY <1>1, <1>2, <1>15, <2>1, <2>2, <2>3, <2>4, <2>5 DEF TypeOK
<1>17. /\ Space(w) /\ Lists(w) /\ Ranked(w, r) /\ \A a \in Addr : a \in live <=> w[a] = Held
       /\ op.old # NULL => op.old \in live
       /\ \A a \in Addr : w[a] # Pending
       /\ op.want > 0
  BY <1>1, <1>3 DEF Placed, OpInv
<1>18. \A a \in Addr : EndOf(a) \in Nat /\ EndOf(a) > a /\ a \in Nat /\ (w[a] # Nowhere => EndOf(a) <= e)
  BY <1>2, <1>9, <1>17, Basics, Addresses DEF Space
<1>19. \A a \in T : w[a] = Nowhere
  BY <1>10, <1>18
<1> DEFINE v == [a \in Addr |-> IF a \in T THEN l ELSE w[a]]
<1>20. v \in [Addr -> Place] /\ \A a \in Addr : v[a] = IF a \in T THEN l ELSE w[a]
  BY Places
<1> HIDE DEF v
<1>21. \A a \in Addr : EndOf(a)' = IF a \in T THEN a + p ELSE EndOf(a)
  BY <1>10, <1>14, Constants, Addresses DEF EndOf
<1>22. Space(v)'
  <2>1. ASSUME NEW a \in Addr, NEW b \in Addr, a # b, v[a] # Nowhere, v[b] # Nowhere
        PROVE  EndOf(a)' <= b \/ EndOf(b)' <= a
    <3>1. CASE a \in T /\ b \in T
      BY <1>10, <1>21, <2>1, <3>1
    <3>2. CASE a \in T /\ b \notin T
      <4>1. EndOf(b)' = EndOf(b) /\ EndOf(b) <= e /\ e <= a /\ EndOf(b) \in Nat /\ e \in Nat /\ a \in Nat
        BY <1>10, <1>18, <1>20, <1>21, <2>1, <3>2
      <4> QED BY <4>1
    <3>3. CASE a \notin T /\ b \in T
      <4>1. EndOf(a)' = EndOf(a) /\ EndOf(a) <= e /\ e <= b /\ EndOf(a) \in Nat /\ e \in Nat /\ b \in Nat
        BY <1>10, <1>18, <1>20, <1>21, <2>1, <3>3
      <4> QED BY <4>1
    <3>4. CASE a \notin T /\ b \notin T
      BY <1>17, <1>20, <1>21, <2>1, <3>4 DEF Space, Disjoint
    <3> QED BY <3>1, <3>2, <3>3, <3>4
  <2>2. ASSUME NEW a \in Addr, v[a] # Nowhere PROVE EndOf(a)' <= heap_end'
    BY <1>8, <1>10, <1>12, <1>18, <1>20, <1>21, <2>2
  <2> QED BY <2>1, <2>2 DEF Space, Disjoint
<1>23. hd # NULL => hd \in Addr /\ w[hd] = l /\ hd \notin T /\ hd < e
  BY <1>11, <1>17, <1>18, <1>19, Places DEF Lists
<1>24. \A a \in Addr : w[a] \in List => a \notin T /\ a < e /\ v[a] = w[a] /\ next'[a] = next[a]
  BY <1>10, <1>14, <1>18, <1>19, <1>20, <1>7, Places
<1>25. PICK n \in Nat : n = IF hd = NULL THEN 0 ELSE r[hd]
  BY <1>23
<1> DEFINE q == [a \in Addr |-> IF a \in T THEN n + (e + g - a) ELSE r[a]]
<1>26. q \in [Addr -> Nat]
  BY <1>10
<1>27. \A a \in Addr : q[a] = IF a \in T THEN n + (e + g - a) ELSE r[a]
  OBVIOUS
<1> HIDE DEF q
<1>28. Lists(v)' /\ Ranked(v, q)'
  <2>1. \A k \in List : freelist'[k] # NULL => v[freelist'[k]] = k
    <3> SUFFICES ASSUME NEW k \in List, freelist'[k] # NULL PROVE v[freelist'[k]] = k
      OBVIOUS
    <3>1. CASE k = l
      BY <1>10, <1>14, <1>20, <3>1
    <3>2. CASE k # l
      <4>1. freelist'[k] = freelist[k] /\ freelist[k] \in Addr /\ w[freelist[k]] = k
        BY <1>13, <1>14, <1>17, <3>2 DEF Lists
      <4> QED BY <1>24, <4>1
    <3> QED BY <3>1, <3>2
  <2>2. ASSUME NEW a \in Addr, v[a] \in List, next'[a] # NULL
        PROVE  v[next'[a]] = v[a] /\ next'[a] # freelist'[v[a]] /\ q[next'[a]] < q[a]
    <3>1. CASE a = last
      <4>1. next'[a] = hd /\ v[a] = l /\ hd \in Addr /\ w[hd] = l /\ hd \notin T /\ hd < e
        BY <1>7, <1>14, <1>20, <1>23, <2>2, <3>1
      <4>2. v[hd] = l /\ freelist'[l] = e /\ q[hd] = r[hd] /\ n = r[hd] /\ r[hd] \in Nat
        BY <1>14, <1>20, <1>25, <1>27, <4>1, <2>2
      <4>3. q[a] = n + (e + g - a) /\ a + p <= e + g /\ a \in Nat /\ e \in Nat
        BY <1>7, <1>10, <1>27, <3>1
      <4> QED BY <1>10, <4>1, <4>2, <4>3
    <3>2. CASE a \in T /\ a # last
      <4>1. next'[a] = a + p /\ a + p \in T /\ a + p \in Addr /\ v[a] = l /\ v[a + p] = l
        BY <1>10, <1>14, <1>20, <2>2, <3>2
      <4>2. freelist'[l] = e /\ e <= a /\ a \in Nat /\ e \in Nat /\ a + p + p <= e + g
        BY <1>10, <1>14, <3>2, <4>1
      <4>3. q[a] = n + (e + g - a) /\ q[a + p] = n + (e + g - (a + p))
        BY <1>27, <3>2, <4>1
      <4> QED BY <1>10, <4>1, <4>2, <4>3
    <3>3. CASE a \notin T
      <4>1. w[a] \in List /\ next'[a] = next[a] /\ v[a] = w[a] /\ next[a] \in Addr
        BY <1>13, <1>14, <1>20, <1>7, <2>2, <3>3
      <4>2. w[next[a]] = w[a] /\ next[a] # freelist[w[a]] /\ r[next[a]] < r[a]
        BY <1>17, <2>2, <4>1 DEF Lists, Ranked
      <4>3. next[a] \notin T /\ next[a] < e /\ v[next[a]] = w[a] /\ next[a] \in Nat
        BY <1>18, <1>24, <4>1, <4>2
      <4>4. freelist'[w[a]] = e \/ freelist'[w[a]] = freelist[w[a]]
        BY <1>14, <4>1
      <4> QED BY <1>10, <1>27, <3>3, <4>1, <4>2, <4>3, <4>4
    <3> QED BY <3>1, <3>2, <3>3
  <2>3. ASSUME NEW a \in Addr, v[a] \in List, next'[a] # NULL
        PROVE  /\ a = last => next'[a] = hd /\ hd \in Addr
               /\ a \in T /\ a # last => next'[a] = a + p /\ a + p > e
               /\ a \notin T => /\ w[a] \in List /\ next'[a] = next[a]
                                /\ next[a] < e /\ next[a] \in Nat /\ next[a] # hd
    <3>1. CASE a \in T
      BY <1>7, <1>10, <1>14, <1>23, <2>3, <3>1
    <3>2. CASE a \notin T
      <4>1. w[a] \in List /\ next'[a] = next[a] /\ next[a] \in Addr
        BY <1>13, <1>14, <1>20, <1>7, <2>3, <3>2
      <4>2. w[next[a]] = w[a] /\ next[a] # freelist[w[a]]
        BY <1>17, <2>3, <4>1 DEF Lists
      <4>3. next[a] < e /\ next[a] \in Nat
        BY <1>18, <1>24, <4>1, <4>2
      <4>4. next[a] # hd
        BY <1>11, <1>13, <1>23, <4>1, <4>2
      <4> QED BY <1>7, <3>2, <4>1, <4>3, <4>4
    <3> QED BY <3>1, <3>2
  <2>4. ASSUME NEW a \in Addr, NEW b \in Addr, v[a] \in List, v[b] \in List,
               next'[a] = next'[b], next'[a] # NULL
        PROVE  a = b
    <3>1. e \in Nat /\ (hd \in Addr => hd < e /\ hd \in Nat) /\ a \in Nat /\ b \in Nat
      BY <1>10, <1>13, <1>23, Addresses
    <3>2. CASE a \notin T /\ b \notin T
      BY <1>17, <2>3, <2>4, <3>2 DEF Lists
    <3>3. CASE a \in T /\ b \in T
      BY <1>10, <2>3, <2>4, <3>1, <3>3
    <3>4. CASE a \in T /\ b \notin T
      BY <1>10, <2>3, <2>4, <3>1, <3>4
    <3>5. CASE a \notin T /\ b \in T
      BY <1>10, <2>3, <2>4, <3>1, <3>5
    <3> QED BY <3>2, <3>3, <3>4, <3>5
  <2> QED BY <2>1, <2>2, <2>4 DEF Lists, Ranked
<1>29. OpInv(v)'
  <2>1. \A a \in Addr : v[a] # Pending
    BY <1>17, <1>20, Places
  <2> QED BY <1>1, <1>15, <1>17, <2>1 DEF OpInv
<1>30. \A a \in Addr : a \in live' <=> v[a] = Held
  BY <1>1, <1>17, <1>19, <1>20, Places
<1>31. Placed(v, q)'
  BY <1>22, <1>28, <1>29, <1>30 DEF Placed
<1>32. Apart(v)'
  <2>1. l # Big
    BY <1>1, <1>4, Constants DEF Big
  <2>2. \A a \in Addr : v[a] = Big => w[a] = Big /\ a \notin T
    BY <1>20, <2>1
  <2> QED BY <1>3, <1>21, <2>2 DEF Apart
<1> QED BY <1>15, <1>16, <1>20, <1>26, <1>31, <1>32, Conclude

-----------------------------------------------------------------------------
(* The invariant holds. *)

LEMMA HeapInvInit == Init => HeapInv
<1> SUFFICES ASSUME Init PROVE HeapInv
  OBVIOUS
<1>1. op \in Operation /\ op.kind = "idle" /\ op.iter = NULL /\ op.old = NULL
  BY DEF Init, Idle, Begin, Operation
<1>2. 0 \in Sized
  BY Constants, SmallMod DEF Sized
<1>3. TypeOK
  BY <1>1, <1>2, Constants DEF Init, TypeOK
<1> DEFINE w == [a \in Addr |-> Nowhere]
           r == [a \in Addr |-> 0]
<1>4. w \in [Addr -> Place] /\ r \in [Addr -> Nat] /\ \A a \in Addr : w[a] = Nowhere
  BY Places
<1> HIDE DEF w, r
<1>5. Space(w) /\ Apart(w)
  BY <1>4, Places, Constants DEF Space, Apart
<1>6. Lists(w) /\ Ranked(w, r)
  BY <1>4, Places DEF Lists, Ranked, Init
<1>7. OpInv(w)
  BY <1>1, <1>4, Places DEF OpInv
<1>8. Placed(w, r)
  BY <1>4, <1>5, <1>6, <1>7, Places DEF Placed, Init
<1> QED BY <1>1, <1>3, <1>4, <1>5, <1>8 DEF HeapInv

LEMMA HeapInvStep ==
  ASSUME HeapInv, [Call \/ Step]_vars
  PROVE  HeapInv'
<1>1. CASE UNCHANGED vars
  BY <1>1 DEF vars, HeapInv, TypeOK, Placed, Space, Lists, Ranked, OpInv, Apart, Merging, Passed,
              Unmerged, MergedUpper, MergedBoth, Disjoint, EndOf, Walked
<1>2. TypeOK /\ op.want \in Nat /\ op \in Operation
  BY Basics DEF HeapInv, TypeOK
<1>3. Sizes \subseteq Nat
  BY HeapAssumption DEF HeapAssumption
<1>4. ASSUME NEW n \in Sizes, KMalloc(n) PROVE HeapInv'
  <2>1. op' = Search(n, NULL) /\ n \in Nat /\ n > 0
    BY <1>3, <1>4 DEF KMalloc
  <2>2. /\ op' \in Operation /\ op'.kind = "malloc" /\ op'.iter = NULL /\ op'.old = NULL
        /\ op'.want = n
    BY <2>1 DEF Search, Begin, Operation
  <2> QED BY <1>4, <2>1, <2>2, QuietStep DEF KMalloc
<1>5. ASSUME NEW o \in Addr, NEW n \in Sizes, KRealloc(o, n) PROVE HeapInv'
  <2>1. op' = Search(n, o) /\ n \in Nat /\ n > 0 /\ o \in live
    BY <1>3, <1>5 DEF KRealloc
  <2>2. /\ op' \in Operation /\ op'.kind = "malloc" /\ op'.iter = NULL /\ op'.old = o
        /\ op'.want = n
    BY <2>1 DEF Search, Begin, Operation
  <2> QED BY <1>5, <2>1, <2>2, QuietStep DEF KRealloc
<1>6. ASSUME NEW h \in Addr, KFree(h) PROVE HeapInv'
  BY <1>6, ReleaseStep DEF KFree
<1>7. CASE SearchSkip
  <2>1. /\ op' \in Operation /\ op'.kind = "malloc" /\ op'.iter = At /\ op'.old = op.old
        /\ op'.want = op.want
    <3>1. At \in Addr \cup {NULL}
      BY <1>2, Basics
    <3> QED BY <1>2, <1>7, <3>1 DEF SearchSkip, Advance, Operation
  <2>2. Walked' = Walked
    BY <1>7, <2>1 DEF SearchSkip, Walked
  <2>3. (op.old # NULL => op.old \in live) /\ op.want > 0
    BY <1>7 DEF HeapInv, Placed, OpInv, SearchSkip
  <2> QED BY <1>7, <2>1, <2>2, <2>3, QuietStep DEF SearchSkip
<1>8. CASE AtBound
  <2>1. op' \in Operation /\ op'.kind = "idle" /\ op'.iter = NULL /\ op'.old = NULL
    BY <1>8 DEF AtBound, Idle, Begin, Operation
  <2> QED BY <1>8, <2>1, QuietStep DEF AtBound
<1>9. CASE ReallocFree
  <2>1. op.old \in Addr /\ op.old \in live
    BY <1>2, <1>9, Basics DEF HeapInv, Placed, OpInv, ReallocFree
  <2> QED BY <1>9, <2>1, ReleaseStep DEF ReallocFree
<1> QED
  BY <1>1, <1>4, <1>5, <1>6, <1>7, <1>8, <1>9, MergeLowerStep, MergeUpperStep, MergeSkipStep,
     MergeEndStep, TakeStep, MoreQuickStep, MoreBigStep
     DEF Call, Step

(* The inductive invariant of the heap: every header has one place, and     *)
(* kmalloc, krealloc, kfree and getmore keep the lists within theirs.       *)
THEOREM Invariance == Spec => []HeapInv
<1>1. HeapInv /\ [Call \/ Step]_vars => HeapInv'
  BY HeapInvStep
<1> QED BY HeapInvInit, <1>1, PTL DEF Spec

-----------------------------------------------------------------------------
(* What a list leads to. *)

(* The recursive function Chain is what it says. *)
LEMMA ChainSteps ==
  ASSUME TypeOK
  PROVE  \A n \in 0 .. HeapBound, h \in Addr \cup {NULL} :
           Chain[n][h] = IF h = NULL \/ n = 0 THEN {} ELSE {h} \cup Chain[n - 1][next[h]]
<1> DEFINE Dom == Addr \cup {NULL}
           Body(c, n) == [h \in Dom |-> IF h = NULL \/ n = 0 THEN {} ELSE {h} \cup c[n - 1][next[h]]]
           X == [Dom -> SUBSET Addr]
           first == [h \in Dom |-> {}]
           step == [k \in 1 .. HeapBound |->
                     [c \in X |-> [h \in Dom |-> IF h = NULL THEN {} ELSE {h} \cup c[next[h]]]]]
<1>1. Chain = CHOOSE c : c = [n \in 0 .. HeapBound |-> Body(c, n)]
  BY DEF Chain
<1>2. HeapBound \in Nat /\ NULL \in Dom /\ \A a \in Addr : next[a] \in Dom
  BY Constants DEF TypeOK
<1>3. first \in X
  OBVIOUS
<1>4. StepsIn(X, HeapBound, step)
  <2>1. ASSUME NEW k \in 1 .. HeapBound, NEW c \in X
        PROVE  [h \in Dom |-> IF h = NULL THEN {} ELSE {h} \cup c[next[h]]] \in X
    BY <1>2
  <2>2. ASSUME NEW k \in 1 .. HeapBound, NEW c \in X
        PROVE  step[k][c] = [h \in Dom |-> IF h = NULL THEN {} ELSE {h} \cup c[next[h]]]
    OBVIOUS
  <2> HIDE DEF step, X, Dom
  <2> QED BY <2>1, <2>2 DEF StepsIn
<1>5. ASSUME NEW k \in 1 .. HeapBound, NEW c \in X
      PROVE  step[k][c] = [h \in Dom |-> IF h = NULL THEN {} ELSE {h} \cup c[next[h]]]
  OBVIOUS
<1> HIDE DEF X, step
<1>6. PICK f : IsRun(f, X, HeapBound, first, step)
  <2> DEFINE z == first
  <2>1. z \in X /\ StepsIn(X, HeapBound, step)
    BY <1>3, <1>4
  <2> HIDE DEF z
  <2>2. \E f : IsRun(f, X, HeapBound, z, step)
    BY <1>2, <2>1, Recursion
  <2> QED BY <2>2 DEF z
<1>7. /\ f \in [0 .. HeapBound -> X] /\ f[0] = first
      /\ \A k \in 1 .. HeapBound : f[k] = step[k][f[k - 1]]
  BY <1>6 DEF IsRun
<1>8. ASSUME NEW n \in 0 .. HeapBound PROVE f[n] = Body(f, n)
  <2>1. CASE n = 0
    BY <1>7, <2>1
  <2>2. CASE n # 0
    <3>1. n \in 1 .. HeapBound /\ n - 1 \in 0 .. HeapBound
      BY <1>2, <2>2
    <3>2. f[n - 1] \in X /\ f[n] = step[n][f[n - 1]]
      BY <1>7, <3>1
    <3>3. f[n] = [h \in Dom |-> IF h = NULL THEN {} ELSE {h} \cup f[n - 1][next[h]]]
      BY <1>5, <3>1, <3>2
    <3> QED BY <2>2, <3>3
  <2> QED BY <2>1, <2>2
<1> HIDE DEF Body
<1>9. f = [n \in 0 .. HeapBound |-> Body(f, n)]
  BY <1>7, <1>8
<1>10. Chain = [n \in 0 .. HeapBound |-> Body(Chain, n)]
  BY <1>1, <1>9
<1>11. \A n \in 0 .. HeapBound : Chain[n] = Body(Chain, n)
  BY <1>10
<1> QED BY <1>11 DEF Body

(* From a set the next fields do not leave, a chain does not. *)
LEMMA ChainStays ==
  ASSUME TypeOK, NEW S \in SUBSET Addr, \A a \in S : next[a] \in S \cup {NULL},
         NEW h \in S \cup {NULL}
  PROVE  Chain[HeapBound][h] \subseteq S
<1> DEFINE T == {n \in Nat : n <= HeapBound =>
                   \A a \in S \cup {NULL} : Chain[n][a] \subseteq S}
<1>0. /\ \A n \in 0 .. HeapBound, b \in Addr \cup {NULL} :
           Chain[n][b] = IF b = NULL \/ n = 0 THEN {} ELSE {b} \cup Chain[n - 1][next[b]]
      /\ S \cup {NULL} \subseteq Addr \cup {NULL}
  BY ChainSteps
<1>1. HeapBound \in Nat
  BY Constants
<1>2. 0 \in T
  <2>1. \A a \in S \cup {NULL} : Chain[0][a] = {}
    <3>1. 0 \in 0 .. HeapBound
      BY <1>1
    <3>2. \A b \in Addr \cup {NULL} :
            Chain[0][b] = IF b = NULL \/ 0 = 0 THEN {} ELSE {b} \cup Chain[0 - 1][next[b]]
      <4> HIDE DEF T
      <4> QED BY <1>0, <3>1, Zenon
    <3> QED BY <1>0, <3>2
  <2> QED BY <2>1
<1>3. ASSUME NEW n \in Nat, n \in T PROVE n + 1 \in T
  <2>1. SUFFICES ASSUME n + 1 <= HeapBound, NEW a \in S \cup {NULL}
                 PROVE  Chain[n + 1][a] \subseteq S
    OBVIOUS
  <2>2. \A b \in S \cup {NULL} : Chain[n][b] \subseteq S
    BY <1>1, <1>3, <2>1
  <2>3. n + 1 \in 0 .. HeapBound /\ n + 1 # 0 /\ (n + 1) - 1 = n
    BY <1>1, <2>1
  <2>4. Chain[n + 1][a] = IF a = NULL \/ n + 1 = 0 THEN {} ELSE {a} \cup Chain[n][next[a]]
    <3>1. a \in Addr \cup {NULL}
      BY <1>0
    <3> DEFINE m == n + 1
    <3>2. m \in 0 .. HeapBound /\ m - 1 = n
      BY <2>3
    <3> HIDE DEF m
    <3>3. Chain[m][a] = IF a = NULL \/ m = 0 THEN {} ELSE {a} \cup Chain[m - 1][next[a]]
      BY <1>0, <3>1, <3>2
    <3> QED BY <3>2, <3>3 DEF m
  <2>5. CASE a = NULL
    BY <2>4, <2>5
  <2>6. CASE a # NULL
    <3>1. a \in S /\ next[a] \in S \cup {NULL}
      BY <2>6
    <3>2. Chain[n][next[a]] \subseteq S
      BY <2>2, <3>1
    <3> QED BY <2>3, <2>4, <2>6, <3>1, <3>2
  <2> QED BY <2>5, <2>6
<1>4. HeapBound \in T
  <2> HIDE DEF T
  <2> QED BY <1>1, <1>2, <1>3, Induction
<1> QED BY <1>4

(* A list leads to headers in its place only. *)
LEMMA OnListPlace ==
  ASSUME TypeOK, NEW w \in [Addr -> Place], NEW r \in [Addr -> Nat], Placed(w, r), NEW l \in List
  PROVE  \A a \in OnList(l) : a \in Addr /\ w[a] = l
<1> DEFINE S == {a \in Addr : w[a] = l}
<1>1. freelist[l] \in S \cup {NULL}
  BY DEF TypeOK, Placed, Lists
<1>2. \A a \in S : next[a] \in S \cup {NULL}
  BY DEF TypeOK, Placed, Lists
<1>3. S \in SUBSET Addr
  OBVIOUS
<1>4. OnList(l) \subseteq S
  <2> HIDE DEF S
  <2> QED BY <1>1, <1>2, <1>3, ChainStays DEF OnList
<1> QED BY <1>4

(* Every header that a caller holds or a list leads to counts. *)
LEMMA ListedPlace ==
  ASSUME TypeOK, NEW w \in [Addr -> Place], NEW r \in [Addr -> Nat], Placed(w, r)
  PROVE  /\ \A a \in Listed : a \in Addr /\ w[a] \in List
         /\ \A a \in live : a \in Addr /\ w[a] = Held
<1>1. \A a \in Listed : a \in Addr /\ w[a] \in List
  BY OnListPlace DEF Listed
<1>2. \A a \in live : a \in Addr /\ w[a] = Held
  BY DEF TypeOK, Placed
<1> QED BY <1>1, <1>2

-----------------------------------------------------------------------------
(* No block that a caller holds or that a list leads to overlaps another,   *)
(* and all lie in the heap, between any two calls of kmalloc, krealloc and  *)
(* kfree.                                                                   *)
THEOREM BlocksNeverOverlap == Spec => []NoOverlap
<1>1. HeapInv => NoOverlap
  <2> SUFFICES ASSUME HeapInv, op.kind = "idle"
               PROVE  /\ live \cap Listed = {}
                      /\ \A g, h \in live \cup Listed : g # h => Disjoint(g, h)
                      /\ \A h \in live \cup Listed : EndOf(h) <= heap_end
    BY DEF NoOverlap
  <2>1. TypeOK
    BY DEF HeapInv
  <2>2. PICK w \in [Addr -> Place], r \in [Addr -> Nat] : Placed(w, r)
    BY DEF HeapInv
  <2>3. /\ \A a \in Listed : a \in Addr /\ w[a] \in List
        /\ \A a \in live : a \in Addr /\ w[a] = Held
    BY <2>1, <2>2, ListedPlace
  <2>4. \A a \in live \cup Listed : a \in Addr /\ w[a] # Nowhere
    BY <2>3, Places
  <2>5. live \cap Listed = {}
    BY <2>3, Places
  <2>6. Space(w)
    BY <2>2 DEF Placed
  <2> QED BY <2>4, <2>5, <2>6 DEF Space
<1> QED BY <1>1, Invariance, PTL

(* No block is on two lists between two calls. *)
THEOREM ListsStaySeparate == Spec => []ListsSeparate
<1>1. HeapInv => ListsSeparate
  <2>1. SUFFICES ASSUME HeapInv, NEW k \in List, NEW l \in List, k # l
                 PROVE  OnList(k) \cap OnList(l) = {}
    BY DEF ListsSeparate
  <2>2. TypeOK
    BY <2>1 DEF HeapInv
  <2>3. PICK w \in [Addr -> Place], r \in [Addr -> Nat] : Placed(w, r)
    BY <2>1 DEF HeapInv
  <2>4. (\A a \in OnList(k) : w[a] = k) /\ (\A a \in OnList(l) : w[a] = l)
    BY <2>2, <2>3, OnListPlace
  <2> QED BY <2>1, <2>4
<1> QED BY <1>1, Invariance, PTL

(* kfree leaves no two neighbours on the general list. *)
THEOREM NeighboursAreJoined == Spec => []Coalesced
<1>1. HeapInv => Coalesced
  <2>1. SUFFICES ASSUME HeapInv, op.kind = "idle", NEW g \in OnList(Big), NEW h \in OnList(Big)
                 PROVE  EndOf(g) # h
    BY DEF Coalesced
  <2>2. TypeOK
    BY <2>1 DEF HeapInv
  <2>3. PICK w \in [Addr -> Place], r \in [Addr -> Nat] : Placed(w, r) /\ Apart(w)
    BY <2>1 DEF HeapInv
  <2>4. g \in Addr /\ h \in Addr /\ w[g] = Big /\ w[h] = Big
    BY <2>2, <2>3, OnListPlace, Constants
  <2> QED BY <2>3, <2>4 DEF Apart
<1> QED BY <1>1, Invariance, PTL

-----------------------------------------------------------------------------
(* The heap implements the allocator. *)

(* A header at a is part of a free block, or of one that is not the one at  *)
(* c, or lies in memory the heap has not been given yet.                    *)
Elsewhere(w, a, c) ==
  \/ a >= heap_end
  \/ \E f \in Addr : f # c /\ w[f] # Nowhere /\ f <= a /\ a + HEADER <= EndOf(f)

(* Where the header fields change in a step. *)
Written(a) == size'[a] # size[a] \/ next'[a] # next[a]

(* Such a header does not overlap the block at c. *)
LEMMA ElsewhereIsApart ==
  ASSUME TypeOK, NEW w \in [Addr -> Place], NEW r \in [Addr -> Nat], Placed(w, r),
         NEW a \in Addr, NEW c \in live, Elsewhere(w, a, c)
  PROVE  Promise!Apart(a, 0, c, size[c])
<1>1. c \in Addr /\ w[c] = Held /\ w[c] # Nowhere /\ Space(w)
  BY Places DEF TypeOK, Placed
<1>2. a \in Nat /\ c \in Nat /\ HEADER \in Nat /\ size[c] \in Nat /\ EndOf(c) = c + HEADER + size[c]
  BY <1>1, Addresses, Constants, Basics DEF EndOf
<1>3. EndOf(c) <= heap_end /\ heap_end \in Nat
  BY <1>1 DEF Space, TypeOK
<1>4. CASE a >= heap_end
  BY <1>2, <1>3, <1>4 DEF Promise!Apart
<1>5. CASE \E f \in Addr : f # c /\ w[f] # Nowhere /\ f <= a /\ a + HEADER <= EndOf(f)
  <2>1. PICK f \in Addr : f # c /\ w[f] # Nowhere /\ f <= a /\ a + HEADER <= EndOf(f)
    BY <1>5
  <2>2. Disjoint(f, c) /\ f \in Nat /\ EndOf(f) \in Nat
    BY <1>1, <2>1, Addresses, Basics DEF Space
  <2> QED BY <1>2, <2>1, <2>2 DEF Disjoint, Promise!Apart
<1> QED BY <1>4, <1>5 DEF Elsewhere

(* A header that counts is part of its block. *)
LEMMA OwnHeader ==
  ASSUME TypeOK, NEW w \in [Addr -> Place], NEW a \in Addr, w[a] # Nowhere, NEW c, c # a
  PROVE  Elsewhere(w, a, c)
<1>1. a <= a /\ a + HEADER <= EndOf(a)
  BY Basics, Addresses, Constants DEF EndOf
<1> QED BY <1>1 DEF Elsewhere

(* The blocks that stay held are spared if all that is written is elsewhere. *)
LEMMA SparedIf ==
  ASSUME TypeOK, NEW w \in [Addr -> Place], NEW r \in [Addr -> Nat], Placed(w, r), NEW c \in live,
         \A a \in Addr : Written(a) => Elsewhere(w, a, c)
  PROVE  Promise!Spared(c)
<1>1. c \in live /\ Blocks[c] = size[c]
  BY DEF Blocks
<1>2. SUFFICES ASSUME NEW a \in Addr, Headers'[a] # Headers[a]
               PROVE  Promise!Apart(a, 0, c, size[c])
  BY <1>1 DEF Promise!Spared, Headers
<1>3. Written(a)
  BY <1>2 DEF Headers, Written
<1> QED BY <1>3, ElsewhereIsApart

(* *iter = v writes at most the header iter points into. *)
LEMMA StoreWrites ==
  ASSUME TypeOK, NEW v, NEW nxt, nxt \in [Addr -> Addr \cup {NULL}], Store(v, nxt)
  PROVE  \A a \in Addr : next'[a] # nxt[a] => a = op.iter /\ op.iter # NULL
BY DEF Store

(* What Take writes: the header it takes, the one it leaves in its place,   *)
(* and the one before it in the list.                                       *)
LEMMA TakeWrites ==
  ASSUME TypeOK, NEW w \in [Addr -> Place], NEW r \in [Addr -> Nat], Placed(w, r), Take,
         NEW c \in live, NEW a \in Addr, Written(a)
  PROVE  Elsewhere(w, a, c)
<1>1. At # NULL /\ At \in Addr /\ w[At] = Walked /\ Walked \in List /\ w[c] = Held /\ c \in Addr
  BY AtPlace, Basics DEF Take, Placed, TypeOK
<1>2. PICK h \in Addr : h = At
  BY <1>1
<1>3. w[h] # Nowhere /\ h # c /\ (op.iter # NULL => w[op.iter] # Nowhere /\ op.iter # c)
  BY <1>1, <1>2, AtPlace, Places
<1>4. size \in [Addr -> Sized] /\ next \in [Addr -> Addr \cup {NULL}]
  BY DEF TypeOK
<1>5. CASE a = h \/ (a = op.iter /\ op.iter # NULL)
  BY <1>3, <1>5, OwnHeader
<1>6. CASE ~Splits(At)
  <2>1. Store(next[At], next) /\ size' = size
    BY <1>6 DEF Take
  <2>2. a = op.iter /\ op.iter # NULL
    BY <1>4, <2>1, StoreWrites DEF Written
  <2> QED BY <1>5, <2>2
<1>7. CASE Splits(At) /\ a # h /\ ~(a = op.iter /\ op.iter # NULL)
  <2> DEFINE new == UpperPart(At)
  <2>1. /\ size' = [size EXCEPT ![new] = ALIGN(size[At]) - (ALIGN(op.want) + HEADER),
                                ![At]  = ALIGN(op.want)]
        /\ Store(new, [next EXCEPT ![new] = next[At]])
    BY <1>7 DEF Take
  <2> HIDE DEF new
  <2>2. a = new
    <3>1. size'[a] # size[a] => a = new \/ a = h
      BY <1>2, <1>4, <2>1
    <3>2. [next EXCEPT ![new] = next[At]] \in [Addr -> Addr \cup {NULL}]
      BY <1>1, <1>4
    <3>3. next'[a] = [next EXCEPT ![new] = next[At]][a]
      <4> DEFINE nxt == [next EXCEPT ![new] = next[At]]
      <4>1. Store(new, nxt) /\ nxt \in [Addr -> Addr \cup {NULL}]
        BY <2>1, <3>2
      <4> HIDE DEF nxt
      <4>2. next'[a] = nxt[a]
        BY <1>7, <4>1, StoreWrites
      <4> QED BY <4>2 DEF nxt
    <3>4. next'[a] # next[a] => a = new
      BY <1>4, <3>3
    <3> QED BY <1>7, <3>1, <3>4 DEF Written
  <2>3. new = h + HEADER + ALIGN(op.want) /\ ALIGN(size[h]) > ALIGN(op.want) + HEADER
    BY <1>2, <1>7 DEF new, UpperPart, Splits
  <2>4. size[h] \in Sized /\ op.want \in Nat /\ h \in Nat /\ HEADER \in Nat /\ a \in Nat
    BY <1>2, <1>4, Basics, Addresses, Constants
  <2>5. ALIGN(op.want) \in Nat /\ ALIGN(size[h]) = size[h] /\ size[h] \in Nat
    BY <2>4, AlignFacts DEF Sized
  <2>6. h <= a /\ a + HEADER <= EndOf(h)
    BY <2>2, <2>3, <2>4, <2>5 DEF EndOf
  <2> QED BY <1>3, <2>6 DEF Elsewhere
<1> QED BY <1>5, <1>6, <1>7

(* kmalloc's success is a block given. *)
LEMMA TakeGives ==
  ASSUME HeapInv, Take
  PROVE  At \in DOMAIN Blocks' \ DOMAIN Blocks /\ Promise!Give(At)
<1>1. TypeOK /\ op.kind = "malloc" /\ op.kind # "free"
  BY DEF HeapInv, Take
<1>2. PICK w \in [Addr -> Place], r \in [Addr -> Nat] : Placed(w, r)
  BY <1>1, Apply
<1>3. At # NULL /\ At \in Addr /\ w[At] = Walked /\ w[At] \in List /\ At \notin live
  BY <1>1, <1>2, AtPlace, Basics, Places DEF Take, Placed
<1>4. PICK h \in Addr : h = At
  BY <1>3
<1>5. op.want \in Nat /\ op.want > 0 /\ op'.want = 0
  <2>1. op.want \in Nat /\ op.want > 0
    BY <1>1, <1>2, Basics DEF Placed, OpInv
  <2>2. op' = Idle \/ op' = Copy(op.old)
    BY DEF Take
  <2> QED BY <2>1, <2>2 DEF Idle, Copy, Begin
<1>6. DOMAIN Blocks = live /\ DOMAIN Blocks' = live \cup {h}
  BY <1>4 DEF Blocks, Take
<1>7. size[h] >= op.want /\ size[h] \in Nat
  BY <1>1, <1>4, Basics DEF Take, Fits
<1>8. size'[h] >= op.want /\ size'[h] <= size[h] /\ size'[h] \in Nat
  <2>1. CASE ~Splits(At)
    BY <1>7, <2>1 DEF Take
  <2>2. CASE Splits(At)
    <3>1. size'[h] = ALIGN(op.want)
      BY <1>1, <1>4, <2>2 DEF Take, TypeOK
    <3>2. ALIGN(size[h]) > ALIGN(op.want) + HEADER /\ HEADER \in Nat
      BY <1>4, <2>2, Constants DEF Splits
    <3>3. size[h] \in Sized
      BY <1>1, <1>4 DEF TypeOK
    <3>4. ALIGN(size[h]) = size[h]
      BY <1>7, <3>3, AlignFacts
    <3>5. ALIGN(op.want) \in Nat /\ op.want <= ALIGN(op.want)
      BY <1>5, AlignFacts DEF Sized
    <3> QED BY <1>5, <1>7, <3>1, <3>2, <3>4, <3>5
  <2> QED BY <2>1, <2>2
<1>9. ASSUME NEW c \in live
      PROVE  /\ Blocks'[c] = Blocks[c] /\ Promise!Spared(c)
             /\ Promise!Apart(h, size'[h], c, Blocks[c])
  <2>1. c \in Addr /\ w[c] = Held /\ c # h
    BY <1>1, <1>2, <1>3, <1>4 DEF TypeOK, Placed
  <2>2. \A a \in Addr : Written(a) => Elsewhere(w, a, c)
    BY <1>1, <1>2, TakeWrites
  <2>3. Promise!Spared(c)
    BY <1>1, <1>2, <2>2, SparedIf
  <2>4. Blocks[c] = size[c] /\ Blocks'[c] = size'[c]
    BY <1>6 DEF Blocks
  <2>5. Disjoint(h, c)
    BY <1>2, <1>3, <1>4, <2>1, Places DEF Placed, Space
  <2>6. size[c] \in Nat /\ c \in Nat /\ h \in Nat /\ HEADER \in Nat
    BY <1>1, <2>1, Basics, Addresses, Constants
  <2>7. Promise!Apart(h, size'[h], c, size[c])
    BY <1>7, <1>8, <2>5, <2>6 DEF Disjoint, EndOf, Promise!Apart
  <2>8. size'[c] = size[c]
    <3>1. CASE size'[c] # size[c]
      <4>1. Elsewhere(w, c, c)
        BY <2>1, <2>2, <3>1 DEF Written
      <4>2. Promise!Apart(c, 0, c, size[c])
        BY <1>1, <1>2, <2>1, <4>1, ElsewhereIsApart
      <4> QED BY <2>6, <4>2, Constants DEF Promise!Apart
    <3> QED BY <3>1
  <2> QED BY <2>3, <2>4, <2>7, <2>8
<1>10. Blocks'[h] = size'[h]
  BY <1>6 DEF Blocks
<1> QED BY <1>3, <1>4, <1>5, <1>6, <1>8, <1>9, <1>10 DEF Promise!Give

(* kfree, called by itself or by krealloc, takes a block back. *)
LEMMA ReleaseReturns ==
  ASSUME HeapInv, op.kind # "free", op.want = 0, NEW h \in live, live' = live \ {h}, Release(h),
         UNCHANGED size
  PROVE  Promise!Return(h)
<1>1. TypeOK
  BY Apply
<1>2. PICK w \in [Addr -> Place], r \in [Addr -> Nat] : Placed(w, r)
  BY Apply
<1>3. DOMAIN Blocks = live /\ DOMAIN Blocks' = live \ {h} /\ h \in Addr /\ w[h] = Held
  BY <1>1, <1>2 DEF Blocks, TypeOK, Placed
<1>4. op'.want = 0
  BY DEF Release, Idle, Merge, Begin
<1>5. ASSUME NEW c \in live, c # h PROVE Blocks'[c] = Blocks[c] /\ Promise!Spared(c)
  <2>1. \A a \in Addr : Written(a) => a = h
    BY <1>1 DEF Written, Release, TypeOK
  <2>2. \A a \in Addr : Written(a) => Elsewhere(w, a, c)
    BY <1>1, <1>3, <1>5, <2>1, OwnHeader, Places
  <2>3. Promise!Spared(c)
    BY <1>1, <1>2, <2>2, SparedIf
  <2> QED BY <1>3, <1>5, <2>3 DEF Blocks
<1> QED BY <1>3, <1>4, <1>5 DEF Promise!Return

(* A step that changes neither what is held nor what is asked for, and      *)
(* writes elsewhere.                                                        *)
LEMMA WorkIf ==
  ASSUME TypeOK, NEW w \in [Addr -> Place], NEW r \in [Addr -> Nat], Placed(w, r),
         live' = live, op'.want = op.want,
         \A a \in Addr : Written(a) => a >= heap_end \/ w[a] \notin {Held, Nowhere}
  PROVE  Promise!Work
<1>1. ASSUME NEW c \in live PROVE Promise!Spared(c) /\ size'[c] = size[c]
  <2>1. c \in Addr /\ w[c] = Held
    BY DEF TypeOK, Placed
  <2>2. \A a \in Addr : Written(a) => Elsewhere(w, a, c)
    <3>1. SUFFICES ASSUME NEW a \in Addr, Written(a), ~(a >= heap_end) PROVE Elsewhere(w, a, c)
      BY DEF Elsewhere
    <3> QED BY <2>1, <3>1, OwnHeader
  <2>3. ~Written(c)
    <3>1. c < heap_end
      <4>1. EndOf(c) <= heap_end /\ EndOf(c) > c /\ EndOf(c) \in Nat /\ c \in Nat /\ heap_end \in Nat
        BY <2>1, Basics, Places, Addresses DEF Placed, Space, TypeOK
      <4> QED BY <4>1
    <3>2. c \in Nat /\ heap_end \in Nat
      BY <2>1, Addresses DEF TypeOK
    <3> QED BY <2>1, <3>1, <3>2
  <2> QED BY <2>2, <2>3, SparedIf DEF Written
<1>2. Blocks' = Blocks
  BY <1>1 DEF Blocks
<1> QED BY <1>1, <1>2 DEF Promise!Work, Blocks

(* The loop of kfree writes into free blocks only. *)
LEMMA MergeWorks ==
  ASSUME HeapInv, MergeLower \/ MergeUpper \/ MergeSkip \/ MergeEnd
  PROVE  Promise!Work
<1>1. op.kind = "free" /\ live' = live
  BY DEF MergeLower, MergeUpper, MergeSkip, MergeEnd
<1>2. TypeOK
  BY <1>1, ApplyMerging
<1>3. PICK w \in [Addr -> Place], r \in [Addr -> Nat], V \in SUBSET Addr :
        Placed(w, r) /\ Merging(w, V)
  BY <1>1, ApplyMerging
<1>4. PICK H \in Addr : H = op.header
  BY <1>1, <1>2, <1>3, MergingFacts
<1>5. Walked = Big /\ Big \in List /\ op \in Operation
  BY <1>2, Constants DEF Walked, TypeOK, MergeLower, MergeUpper, MergeSkip, MergeEnd
<1>6. op'.want = op.want
  <2>1. CASE MergeEnd
    <3>1. op' = IF op.want = 0 THEN Idle ELSE Search(op.want, op.old)
      BY <2>1 DEF MergeEnd
    <3> QED BY <3>1 DEF Idle, Search, Begin
  <2>2. CASE MergeLower
    BY <1>5, <2>2 DEF MergeLower, Operation
  <2>3. CASE MergeUpper
    BY <1>5, <2>3 DEF MergeUpper, Operation
  <2>4. CASE MergeSkip
    BY <1>5, <2>4 DEF MergeSkip, Advance, Operation
  <2> QED BY <2>1, <2>2, <2>3, <2>4
<1>7. size \in [Addr -> Sized] /\ next \in [Addr -> Addr \cup {NULL}]
  BY <1>2 DEF TypeOK
<1>8. \A a \in Addr : w[a] \in List \cup {Pending} => w[a] \notin {Held, Nowhere}
  BY Places
<1>9. op.iter # NULL => op.iter \in Addr /\ w[op.iter] = Big
  BY <1>2, <1>3, <1>5, Basics DEF Placed, OpInv
<1>10. ASSUME NEW a \in Addr, Written(a) PROVE w[a] \in List \cup {Pending}
  <2>1. CASE MergeSkip
    BY <1>10, <2>1 DEF MergeSkip, Written
  <2>2. CASE MergeEnd
    <3>1. ~op.merged /\ a = H
      BY <1>4, <1>7, <1>10, <2>2 DEF MergeEnd, Written
    <3> QED BY <1>3, <1>4, <3>1 DEF Merging, Unmerged, MergedUpper, MergedBoth
  <2>3. CASE MergeLower
    <3>1. At \in Addr /\ w[At] = Big
      BY <1>2, <1>3, <1>5, <2>3, AtPlace DEF MergeLower
    <3>2. size'[a] # size[a] => a = At
      BY <1>7, <2>3, <3>1 DEF MergeLower
    <3>3. next'[a] # next[a] => a = op.iter /\ op.iter # NULL
      BY <1>2, <1>7, <2>3, StoreWrites DEF MergeLower
    <3> QED BY <1>5, <1>9, <1>10, <3>1, <3>2, <3>3 DEF Written
  <2>4. CASE MergeUpper
    <3>1. At \in Addr /\ w[At] = Big /\ EndOf(H) = At
      BY <1>2, <1>3, <1>4, <1>5, <2>4, AtPlace DEF MergeUpper, JoinsUpper
    <3>2. w[H] \in List \cup {Pending}
      <4>1. CASE Unmerged(w, V)
        BY <1>4, <4>1 DEF Unmerged
      <4>2. CASE MergedUpper(w, V)
        BY <1>3, <1>4, <1>5, <4>2 DEF MergedUpper, Merging, Passed
      <4>3. CASE MergedBoth(w)
        <5>1. PICK b \in Addr : w[b] = Big /\ EndOf(b) = EndOf(H)
          BY <1>4, <4>3 DEF MergedBoth
        <5>2. Apart(w)
          BY <4>3 DEF MergedBoth
        <5> QED BY <3>1, <5>1, <5>2 DEF Apart
      <4> QED BY <1>3, <4>1, <4>2, <4>3 DEF Merging
    <3>3. size'[a] # size[a] => a = H
      BY <1>4, <1>7, <2>4 DEF MergeUpper
    <3>4. next'[a] # next[a] => a = H \/ (a = op.iter /\ op.iter # NULL)
      <4> DEFINE nxt == [next EXCEPT ![op.header] = next[At]]
      <4>1. Store(op.header, nxt) /\ nxt \in [Addr -> Addr \cup {NULL}]
        BY <1>7, <2>4, <3>1 DEF MergeUpper
      <4>2. nxt[a] # next[a] => a = H
        BY <1>4, <1>7
      <4> HIDE DEF nxt
      <4>3. next'[a] # nxt[a] => a = op.iter /\ op.iter # NULL
        BY <1>2, <4>1, StoreWrites
      <4> QED BY <4>2, <4>3
    <3> QED BY <1>5, <1>9, <1>10, <3>2, <3>3, <3>4 DEF Written
  <2> QED BY <2>1, <2>2, <2>3, <2>4
<1> QED BY <1>1, <1>2, <1>3, <1>6, <1>8, <1>10, WorkIf

(* getmore writes into the memory it was just given. *)
LEMMA MoreWorks ==
  ASSUME HeapInv, MoreQuick \/ MoreBig
  PROVE  Promise!Work
<1>1. op.kind # "free" /\ live' = live
  BY DEF MoreQuick, MoreBig, Exhausted
<1>2. TypeOK
  BY <1>1, Apply
<1>3. PICK w \in [Addr -> Place], r \in [Addr -> Nat] : Placed(w, r)
  BY <1>1, Apply
<1>4. op'.want = op.want
  BY <1>2 DEF MoreQuick, MoreBig, Advance, Merge, Begin, TypeOK, Operation
<1>5. size \in [Addr -> Sized] /\ next \in [Addr -> Addr \cup {NULL}] /\ heap_end \in Nat
  BY <1>2 DEF TypeOK
<1>6. ASSUME NEW a \in Addr, Written(a) PROVE a >= heap_end
  <2>1. CASE MoreBig
    BY <1>5, <1>6, <2>1 DEF MoreBig, Written
  <2>2. CASE MoreQuick
    <3>1. a \in Pieces \/ a = LastPiece
      BY <1>5, <1>6, <2>2 DEF MoreQuick, Written
    <3>2. LastPiece \in Pieces /\ \A b \in Pieces : heap_end <= b /\ b \in Addr
      BY <1>2, <2>2, PieceFacts DEF MoreQuick, Exhausted
    <3> QED BY <1>5, <3>1, <3>2, Addresses
  <2> QED BY <2>1, <2>2
<1> QED BY <1>1, <1>2, <1>3, <1>4, <1>6, WorkIf

(* Outside of kmalloc nothing is asked for. *)
WantInv == op.kind \in {"idle", "copy"} => op.want = 0

LEMMA WantStep ==
  ASSUME HeapInv, WantInv, [Call \/ Step]_vars
  PROVE  WantInv'
<1>1. op \in Operation
  BY DEF HeapInv, TypeOK
<1>2. CASE op' = op
  BY <1>2 DEF WantInv
<1>3. CASE \E n, o, h : op' \in {Idle, Search(n, o), Merge(h, n, o), Copy(o)}
  BY <1>3 DEF WantInv, Idle, Search, Merge, Copy, Begin
<1>4. CASE op'.kind = op.kind /\ op'.want = op.want
  BY <1>4 DEF WantInv
<1>5. ASSUME NEW h, Release(h) PROVE \E n, o, g : op' \in {Idle, Search(n, o), Merge(g, n, o), Copy(o)}
  BY <1>5 DEF Release
<1>6. CASE Call
  BY <1>3, <1>5, <1>6 DEF Call, KMalloc, KRealloc, KFree
<1>7. CASE ReallocFree \/ AtBound \/ MoreBig \/ Take \/ MergeEnd
  BY <1>3, <1>5, <1>7 DEF ReallocFree, AtBound, MoreBig, Take, MergeEnd
<1>8. CASE MergeLower \/ MergeUpper \/ MergeSkip \/ SearchSkip \/ MoreQuick
  BY <1>1, <1>4, <1>8 DEF MergeLower, MergeUpper, MergeSkip, SearchSkip, MoreQuick, Advance, Operation
<1> QED BY <1>2, <1>6, <1>7, <1>8 DEF Step, vars

(* Each step of the heap is a step of the allocator. *)
LEMMA HeapStepsAllocate ==
  ASSUME HeapInv, WantInv, [Call \/ Step]_vars
  PROVE  [Promise!Next]_(Promise!vars)
<1>1. TypeOK /\ DOMAIN Blocks = live
  BY DEF HeapInv, Blocks
<1>2. op.want \in Nat /\ op \in Operation /\ At \in Addr \cup {NULL}
  BY <1>1, Basics DEF TypeOK
<1>3. op.kind = "idle" \/ op.kind = "copy" => op.want = 0
  BY DEF WantInv
<1>4. ASSUME NEW n \in Sizes, op.kind = "idle", n > 0, op'.want = n,
             UNCHANGED <<heap_end, freelist, size, next, live>>
      PROVE  Promise!Ask(n)
  BY <1>3, <1>4 DEF Promise!Ask, Blocks, Headers
<1>5. CASE UNCHANGED vars
  BY <1>5 DEF vars, Promise!vars, Blocks, Headers
<1>6. ASSUME NEW n \in Sizes, KMalloc(n) PROVE Promise!Next
  <2>1. Promise!Ask(n)
    BY <1>4, <1>6 DEF KMalloc, Search, Begin
  <2> QED BY <2>1 DEF Promise!Next
<1>7. ASSUME NEW o \in Addr, NEW n \in Sizes, KRealloc(o, n) PROVE Promise!Next
  <2>1. Promise!Ask(n)
    BY <1>4, <1>7 DEF KRealloc, Search, Begin
  <2> QED BY <2>1 DEF Promise!Next
<1>8. ASSUME NEW h \in Addr, KFree(h) PROVE Promise!Next
  <2>1. Promise!Return(h) /\ h \in live
    BY <1>3, <1>8, ReleaseReturns DEF KFree
  <2> QED BY <1>1, <2>1 DEF Promise!Next
<1>9. CASE ReallocFree
  <2>1. op.old \in live
    BY <1>9 DEF HeapInv, Placed, OpInv, ReallocFree
  <2>2. Promise!Return(op.old)
    BY <1>3, <1>9, <2>1, ReleaseReturns DEF ReallocFree
  <2> QED BY <1>1, <2>1, <2>2 DEF Promise!Next
<1>10. CASE Take
  BY <1>10, TakeGives DEF Promise!Next
<1>11. CASE SearchSkip
  <2>1. op'.want = op.want
    BY <1>2, <1>11 DEF SearchSkip, Advance, Operation
  <2> QED BY <1>11, <2>1 DEF SearchSkip, Promise!vars, Blocks, Headers
<1>12. CASE AtBound
  <2>1. op.want > 0 /\ op'.want = 0
    BY <1>12 DEF AtBound, Idle, Begin, HeapInv, Placed, OpInv
  <2>2. Promise!Refuse
    BY <1>2, <1>12, <2>1 DEF AtBound, Promise!Refuse, Blocks, Headers
  <2> QED BY <2>2 DEF Promise!Next
<1>13. CASE MergeLower \/ MergeUpper \/ MergeSkip \/ MergeEnd
  BY <1>13, MergeWorks DEF Promise!Next
<1>14. CASE MoreQuick \/ MoreBig
  BY <1>14, MoreWorks DEF Promise!Next
<1> QED BY <1>5, <1>6, <1>7, <1>8, <1>9, <1>10, <1>11, <1>12, <1>13, <1>14 DEF Call, Step

(* kmalloc, krealloc and kfree implement the allocator of Allocator: a      *)
(* block handed out is long enough and overlaps no other that is held, and  *)
(* no turn of a loop writes into a block that is held.                      *)
THEOREM AllocatorImplemented == Spec => ImplementsAllocator
<1>1. Init => Promise!Init
  BY DEF Init, Promise!Init, Blocks, Headers, Idle, Begin, NULL
<1>2. HeapInv /\ WantInv /\ [Call \/ Step]_vars => [Promise!Next]_(Promise!vars)
  BY HeapStepsAllocate
<1>3. Init => WantInv
  BY DEF Init, WantInv, Idle, Begin
<1>4. HeapInv /\ WantInv /\ [Call \/ Step]_vars => WantInv'
  BY WantStep
<1> QED BY <1>1, <1>2, <1>3, <1>4, Invariance, PTL DEF Spec, ImplementsAllocator, Promise!Spec
=============================================================================
