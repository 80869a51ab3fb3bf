---------------------------- MODULE ItemHeapProofs ----------------------------
(***************************************************************************)
(* Lemmas about the functions of ItemStore: what each of them does to a    *)
(* sound heap.                                                             *)
(*                                                                         *)
(* Sound(h, held) says that heap h is right when held[x] references to x   *)
(* are in the hands of connections or of the command that is running: a C  *)
(* function that takes a reference turns held into Plus(held, x), one that *)
(* drops it turns it into Minus(held, x).  Fair(h, g, held) says what the  *)
(* function may do to the contents of items.  The last lemmas are the      *)
(* contracts of do_item_alloc, do_store_item and do_add_delta.             *)
(***************************************************************************)
EXTENDS ItemStore, FiniteSetTheorems, WellFoundedInduction, TLAPS

\* The list s has x; it has nothing twice.
In(s, x) == \E i \in DOMAIN s : s[i] = x
NoDup(s) == \A i, j \in DOMAIN s : i # j => s[i] # s[j]

\* The parts of soundness: the counts, the free list, the LRU list, the hash table.
Counts(h, held) ==
    \A x \in Chunks : /\ h.item[x].refcount < RefMod
                      /\ h.item[x].refcount = One(h.item[x].linked) + held[x]
FreeList(h) ==
    /\ \A x \in Chunks : (h.item[x].refcount = 0) <=> In(h.slots, x)
    /\ NoDup(h.slots)
LruList(h) ==
    /\ \A x \in Chunks : h.item[x].linked <=> In(h.lru, x)
    /\ NoDup(h.lru)
HashTable(h) ==
    /\ \A x \in Chunks : h.item[x].linked =>
          /\ h.item[x].key \in Keys /\ h.item[x].val \in Vals
          /\ h.assoc[h.item[x].key] = <<x>>
    /\ \A k \in Keys : h.assoc[k] # <<>> =>
          \E x \in Chunks : h.assoc[k] = <<x>> /\ h.item[x].linked /\ h.item[x].key = k
Sound(h, held) ==
    /\ h \in Heap /\ held \in [Chunks -> Nat]
    /\ Counts(h, held) /\ FreeList(h) /\ LruList(h) /\ HashTable(h)

\* A reference to x is taken, or dropped.
Plus(held, x) == [held EXCEPT ![x] = @ + 1]
Minus(held, x) == [held EXCEPT ![x] = @ - 1]

-----------------------------------------------------------------------------
\* An element put in front of a list is its head and the only new element.
LEMMA PushFacts ==
  ASSUME NEW s \in Seq(Chunks), NEW x \in Chunks
  PROVE  /\ Push(s, x) \in Seq(Chunks)
         /\ Push(s, x) # <<>> /\ Head(Push(s, x)) = x
         /\ \A y : In(Push(s, x), y) <=> (y = x \/ In(s, y))
         /\ NoDup(s) /\ ~In(s, x) => NoDup(Push(s, x))
<1> DEFINE p == Push(s, x)
<1>1. p \in Seq(Chunks) /\ Len(p) = Len(s) + 1 /\ p[1] = x
  BY DEF Push
<1>2. \A i \in 1..Len(s) : p[i + 1] = s[i]
  BY DEF Push
<1>3. \A i \in 2..Len(p) : i - 1 \in 1..Len(s) /\ p[i] = s[i - 1]
  BY <1>1, <1>2
<1>4. p # <<>> /\ Head(p) = x
  BY <1>1
<1>5. \A y : In(p, y) <=> (y = x \/ In(s, y))
  <2>1. ASSUME NEW y, In(p, y), y # x PROVE In(s, y)
    <3>1. PICK i \in 1..Len(p) : p[i] = y
      BY <1>1, <2>1 DEF In
    <3>2. i \in 2..Len(p)
      BY <1>1, <2>1, <3>1
    <3> QED
      BY <1>3, <3>1, <3>2 DEF In
  <2>2. In(p, x)
    BY <1>1 DEF In
  <2>3. ASSUME NEW y, In(s, y) PROVE In(p, y)
    <3>1. PICK i \in 1..Len(s) : s[i] = y
      BY <2>3 DEF In
    <3>2. i + 1 \in 1..Len(p) /\ p[i + 1] = y
      BY <1>1, <1>2, <3>1
    <3> QED
      BY <1>1, <3>2 DEF In
  <2> QED
    BY <2>1, <2>2, <2>3
<1>6. NoDup(s) /\ ~In(s, x) => NoDup(p)
  BY <1>1, <1>3 DEF In, NoDup
<1> QED
  BY <1>1, <1>4, <1>5, <1>6

\* Taking the head off a list without duplicates takes that element out.
LEMMA TailFacts ==
  ASSUME NEW s \in Seq(Chunks), s # <<>>
  PROVE  /\ Tail(s) \in Seq(Chunks) /\ Head(s) \in Chunks
         /\ In(s, Head(s))
         /\ NoDup(s) => /\ NoDup(Tail(s))
                        /\ \A y : In(Tail(s), y) <=> (In(s, y) /\ y # Head(s))
<1>1. /\ Tail(s) \in Seq(Chunks) /\ Head(s) = s[1] /\ Len(s) \in Nat /\ Len(s) >= 1
      /\ Len(Tail(s)) = Len(s) - 1
      /\ DOMAIN s = 1..Len(s) /\ DOMAIN Tail(s) = 1..(Len(s) - 1)
  OBVIOUS
<1>2. \A i \in 1..(Len(s) - 1) : Tail(s)[i] = s[i + 1]
  OBVIOUS
<1>3. \A i \in 2..Len(s) : i - 1 \in DOMAIN Tail(s) /\ Tail(s)[i - 1] = s[i]
  BY <1>1, <1>2
<1>4. ASSUME NoDup(s)
      PROVE  /\ NoDup(Tail(s))
             /\ \A y : In(Tail(s), y) <=> (In(s, y) /\ y # Head(s))
  <2>1. NoDup(Tail(s))
    BY <1>1, <1>2, <1>4 DEF NoDup
  <2>2. \A y : In(Tail(s), y) => In(s, y) /\ y # Head(s)
    BY <1>1, <1>2, <1>4 DEF NoDup, In
  <2>3. ASSUME NEW y, In(s, y), y # Head(s) PROVE In(Tail(s), y)
    <3>1. PICK i \in 1..Len(s) : s[i] = y
      BY <2>3 DEF In
    <3>2. i \in 2..Len(s)
      BY <1>1, <2>3, <3>1
    <3> QED
      BY <1>3, <3>1, <3>2 DEF In
  <2> QED
    BY <2>1, <2>2, <2>3
<1> QED
  BY <1>1, <1>4 DEF In

\* item_unlink_q takes out exactly the item it is given.
LEMMA WithoutFacts ==
  ASSUME NEW s \in Seq(Chunks), NEW x \in Chunks, NoDup(s)
  PROVE  /\ Without(s, x) \in Seq(Chunks)
         /\ NoDup(Without(s, x))
         /\ \A y : In(Without(s, x), y) <=> (In(s, y) /\ y # x)
<1>1. CASE ~In(s, x)
  BY <1>1 DEF Without, In
<1>2. CASE In(s, x)
  <2> DEFINE i == CHOOSE n \in DOMAIN s : s[n] = x
             w == Without(s, x)
  <2>1. i \in 1..Len(s) /\ s[i] = x
    BY <1>2 DEF In
  <2>2. w = [j \in 1..(Len(s) - 1) |-> IF j < i THEN s[j] ELSE s[j + 1]]
    BY <1>2 DEF Without, In
  <2> HIDE DEF i, w
  <2>3. w \in Seq(Chunks) /\ Len(w) = Len(s) - 1 /\ DOMAIN w = 1..(Len(s) - 1)
    BY <2>1, <2>2
  <2>4. \A j \in 1..(Len(s) - 1) : w[j] = IF j < i THEN s[j] ELSE s[j + 1]
    BY <2>2
  <2>5. NoDup(w)
    BY <2>1, <2>3, <2>4, SMTT(40) DEF NoDup
  <2>6. \A y : In(w, y) => In(s, y) /\ y # x
    BY <2>1, <2>3, <2>4 DEF NoDup, In
  <2>7. ASSUME NEW y, In(s, y), y # x
        PROVE  In(w, y)
    <3>1. PICK n \in 1..Len(s) : s[n] = y
      BY <2>7 DEF In
    <3>2. CASE n < i
      BY <2>1, <2>3, <2>4, <3>1, <3>2 DEF In
    <3>3. CASE n > i
      <4>1. n - 1 \in 1..(Len(s) - 1) /\ w[n - 1] = s[n]
        BY <2>1, <2>4, <3>3
      <4> QED
        BY <2>3, <3>1, <4>1 DEF In
    <3> QED
      BY <2>1, <2>7, <3>1, <3>2, <3>3
  <2> QED
    BY <2>3, <2>5, <2>6, <2>7 DEF w
<1> QED
  BY <1>1, <1>2

\* Only chunk x may have changed, and the rest of the heap is as it was.
Only(h, g, x) ==
    /\ \A y \in Chunks : y # x => g.item[y] = h.item[y]
    /\ g.cas_id = h.cas_id /\ g.damaged = h.damaged

\* A linked item of g was linked in h with the same key, value and CAS id, or it has
\* a CAS id given since.
Newer(h, g) ==
    /\ h.cas_id <= g.cas_id
    /\ \A y \in Chunks : g.item[y].linked =>
          \/ /\ h.item[y].linked /\ g.item[y].key = h.item[y].key
             /\ g.item[y].val = h.item[y].val /\ g.item[y].cas = h.item[y].cas
          \/ h.cas_id < g.item[y].cas /\ g.item[y].cas <= g.cas_id

\* What is held keeps its key and value.
Calm(h, g, held) ==
    \A y \in Chunks : held[y] >= 1 => /\ g.item[y].key = h.item[y].key
                                      /\ g.item[y].val = h.item[y].val

\* Both: what a C function does to the contents of items.
Fair(h, g, held) == Newer(h, g) /\ Calm(h, g, held)

\* One function after the other.
LEMMA NewerTwice ==
  ASSUME NEW h \in Heap, NEW f \in Heap, NEW g \in Heap, Newer(h, f), Newer(f, g)
  PROVE  Newer(h, g)
<1>1. h.cas_id \in Nat /\ f.cas_id \in Nat /\ g.cas_id \in Nat
  BY DEF Heap
<1>2. h.cas_id <= g.cas_id
  BY <1>1 DEF Newer
<1>3. ASSUME NEW y \in Chunks, g.item[y].linked
      PROVE  \/ /\ h.item[y].linked /\ g.item[y].key = h.item[y].key
                /\ g.item[y].val = h.item[y].val /\ g.item[y].cas = h.item[y].cas
             \/ h.cas_id < g.item[y].cas /\ g.item[y].cas <= g.cas_id
  <2>1. g.item[y] \in Item /\ f.item[y] \in Item
    BY DEF Heap
  <2>2. g.item[y].cas \in Nat /\ f.item[y].cas \in Nat
    BY <2>1 DEF Item
  <2>3. CASE f.cas_id < g.item[y].cas /\ g.item[y].cas <= g.cas_id
    BY <1>1, <2>2, <2>3 DEF Newer
  <2>4. CASE /\ f.item[y].linked /\ g.item[y].key = f.item[y].key
             /\ g.item[y].val = f.item[y].val /\ g.item[y].cas = f.item[y].cas
    <3>1. CASE h.cas_id < f.item[y].cas /\ f.item[y].cas <= f.cas_id
      <4>1. f.cas_id <= g.cas_id
        BY DEF Newer
      <4> QED
        BY <1>1, <2>2, <2>4, <3>1, <4>1
    <3>2. CASE /\ h.item[y].linked /\ f.item[y].key = h.item[y].key
               /\ f.item[y].val = h.item[y].val /\ f.item[y].cas = h.item[y].cas
      BY <2>4, <3>2
    <3> QED
      BY <2>4, <3>1, <3>2 DEF Newer
  <2> QED
    BY <1>3, <2>3, <2>4 DEF Newer
<1> QED
  BY <1>2, <1>3 DEF Newer

\* The same with what is held.
LEMMA FairTwice ==
  ASSUME NEW h \in Heap, NEW f \in Heap, NEW g \in Heap, NEW held,
         Fair(h, f, held), Fair(f, g, held)
  PROVE  Fair(h, g, held)
<1>1. Newer(h, g)
  BY NewerTwice DEF Fair
<1>2. Calm(h, g, held)
  BY DEF Fair, Calm
<1> QED
  BY <1>1, <1>2 DEF Fair

\* A function that does nothing.
LEMMA FairSame ==
  ASSUME NEW h \in Heap, NEW held
  PROVE  Fair(h, h, held)
<1>1. h.cas_id \in Nat
  BY DEF Heap
<1> QED
  BY <1>1 DEF Fair, Newer, Calm

\* Fewer references are held.
LEMMA FairFewer ==
  ASSUME NEW h, NEW g, NEW held, NEW less, Fair(h, g, held),
         \A y \in Chunks : less[y] >= 1 => held[y] >= 1
  PROVE  Fair(h, g, less)
  BY DEF Fair, Calm

\* Only item x changed, and neither its key nor its value nor its CAS id.
LEMMA FairRest ==
  ASSUME NEW h \in Heap, NEW g, NEW x \in Chunks, NEW held, Only(h, g, x),
         g.item[x].linked => h.item[x].linked, g.item[x].key = h.item[x].key,
         g.item[x].val = h.item[x].val, g.item[x].cas = h.item[x].cas
  PROVE  Fair(h, g, held)
<1>1. h.cas_id \in Nat /\ g.cas_id = h.cas_id
  BY DEF Heap, Only
<1>2. \A y \in Chunks : /\ g.item[y].key = h.item[y].key
                        /\ g.item[y].val = h.item[y].val
                        /\ g.item[y].cas = h.item[y].cas
                        /\ g.item[y].linked => h.item[y].linked
  BY DEF Only
<1> QED
  BY <1>1, <1>2 DEF Fair, Newer, Calm

\* Only item x changed, which nobody holds and which is not linked.
LEMMA FairGone ==
  ASSUME NEW h \in Heap, NEW g, NEW x \in Chunks, NEW held, Only(h, g, x),
         ~g.item[x].linked, held[x] = 0
  PROVE  Fair(h, g, held)
<1>1. h.cas_id \in Nat /\ g.cas_id = h.cas_id
  BY DEF Heap, Only
<1>2. \A y \in Chunks : y # x => g.item[y] = h.item[y]
  BY DEF Only
<1>3. Newer(h, g)
  BY <1>1, <1>2 DEF Newer
<1>4. Calm(h, g, held)
  BY <1>2 DEF Calm
<1> QED
  BY <1>3, <1>4 DEF Fair

\* What item_free leaves in a chunk is an item.
LEMMA FreeItemType == FreeItem \in Item
  BY DEF FreeItem, Item

\* refcount_incr and refcount_decr give a number.
LEMMA WrapType == \A n \in Nat : Wrap(n + 1) \in Nat /\ Wrap(n - 1) \in Nat
  BY ItemStoreAssumption DEF Wrap

\* refcount_incr of an item of a heap gives a heap.
LEMMA IncrType ==
  ASSUME NEW h \in Heap, NEW x \in Chunks
  PROVE  Incr(h, x) \in Heap
  BY WrapType, ZenonT(60) DEF Incr, Heap, Item

\* refcount_decr of an item of a heap gives a heap.
LEMMA DecrType ==
  ASSUME NEW h \in Heap, NEW x \in Chunks
  PROVE  Decr(h, x) \in Heap
  BY WrapType, ZenonT(60) DEF Decr, Heap, Item

\* item_free gives a heap.
LEMMA FreeType ==
  ASSUME NEW h \in Heap, NEW x \in Chunks
  PROVE  ItemFree(h, x) \in Heap
  BY FreeItemType, PushFacts DEF ItemFree, Heap

\* do_item_remove gives a heap.
LEMMA RemoveType ==
  ASSUME NEW h \in Heap, NEW x \in Chunks
  PROVE  DoItemRemove(h, x) \in Heap
  BY DecrType, FreeType DEF DoItemRemove

\* The same items are linked, under the same keys and with values.
SameLinks(h, g) ==
    \A y \in Chunks : /\ g.item[y].linked <=> h.item[y].linked
                      /\ h.item[y].linked => /\ g.item[y].key = h.item[y].key
                                             /\ g.item[y].val = h.item[y].val

\* The hash table stays right when no linked item changes its key or value.
LEMMA HashTableSame ==
  ASSUME NEW h, NEW g, HashTable(h), SameLinks(h, g), g.assoc = h.assoc
  PROVE  HashTable(g)
<1>1. ASSUME NEW x \in Chunks, g.item[x].linked
      PROVE  /\ g.item[x].key \in Keys /\ g.item[x].val \in Vals
             /\ g.assoc[g.item[x].key] = <<x>>
  BY <1>1 DEF SameLinks, HashTable
<1>2. ASSUME NEW k \in Keys, g.assoc[k] # <<>>
      PROVE  \E x \in Chunks : g.assoc[k] = <<x>> /\ g.item[x].linked /\ g.item[x].key = k
  <2>1. PICK x \in Chunks : h.assoc[k] = <<x>> /\ h.item[x].linked /\ h.item[x].key = k
    BY <1>2 DEF HashTable
  <2>2. g.item[x].linked /\ g.item[x].key = k
    BY <2>1 DEF SameLinks
  <2> QED
    BY <2>1, <2>2
<1> QED
  BY <1>1, <1>2 DEF HashTable

\* One reference more, or less, at one chunk.
LEMMA PlusFacts ==
  ASSUME NEW held \in [Chunks -> Nat], NEW x \in Chunks
  PROVE  /\ Plus(held, x) \in [Chunks -> Nat] /\ Plus(held, x)[x] = held[x] + 1
         /\ \A y \in Chunks : y # x => Plus(held, x)[y] = held[y]
         /\ held[x] >= 1 => /\ Minus(held, x) \in [Chunks -> Nat]
                            /\ Minus(held, x)[x] = held[x] - 1
         /\ \A y \in Chunks : y # x => Minus(held, x)[y] = held[y]
  BY DEF Plus, Minus

\* One more reference to x can be counted.
Room(h, x) == h.item[x].refcount + 1 < RefMod

\* Taking a reference to an item in use (refcount_incr in do_item_get, do_item_link).
LEMMA IncrSound ==
  ASSUME NEW h, NEW held, NEW x \in Chunks, Sound(h, held),
         Room(h, x), held[x] > 0 \/ h.item[x].linked
  PROVE  /\ Sound(Incr(h, x), Plus(held, x))
         /\ Only(h, Incr(h, x), x)
         /\ Incr(h, x).assoc = h.assoc /\ Incr(h, x).lru = h.lru
         /\ Incr(h, x).item[x] = [h.item[x] EXCEPT !.refcount = @ + 1]
<1> DEFINE g == Incr(h, x)
<1>1. h \in Heap /\ h.item[x].refcount \in Nat /\ h.item[x].refcount + 1 < RefMod
  BY DEF Sound, Heap, Item, Room
<1>2. Wrap(h.item[x].refcount + 1) = h.item[x].refcount + 1
  BY <1>1, ItemStoreAssumption DEF Wrap
<1>3. g = [h EXCEPT !.item[x].refcount = @ + 1]
  BY <1>2 DEF Incr
<1>4. /\ g.assoc = h.assoc /\ g.lru = h.lru /\ g.slots = h.slots
      /\ g.cas_id = h.cas_id /\ g.damaged = h.damaged
      /\ g.item = [h.item EXCEPT ![x] = [h.item[x] EXCEPT !.refcount = @ + 1]]
  BY <1>1, <1>3 DEF Heap
<1>5. g \in Heap
  BY <1>1, IncrType
<1> HIDE DEF g
<1>6. /\ \A y \in Chunks : y # x => g.item[y] = h.item[y]
      /\ g.item[x] = [h.item[x] EXCEPT !.refcount = @ + 1]
  BY <1>1, <1>4 DEF Heap
<1>8. /\ g.item[x].refcount = h.item[x].refcount + 1
      /\ g.item[x].linked = h.item[x].linked
      /\ g.item[x].key = h.item[x].key /\ g.item[x].val = h.item[x].val
  BY <1>1, <1>6 DEF Heap, Item
<1>7. Sound(g, Plus(held, x))
  <2>2. Counts(g, Plus(held, x))
    <3> SUFFICES ASSUME NEW y \in Chunks
                 PROVE  /\ g.item[y].refcount < RefMod
                        /\ g.item[y].refcount = One(g.item[y].linked) + Plus(held, x)[y]
      BY DEF Counts
    <3>1. CASE y = x
      BY <1>1, <1>8, <3>1, PlusFacts DEF Sound, Counts, One
    <3>2. CASE y # x
      BY <1>6, <3>2, PlusFacts DEF Sound, Counts
    <3> QED
      BY <3>1, <3>2
  <2>3. FreeList(g)
    BY <1>1, <1>4, <1>6, <1>8 DEF Sound, Counts, FreeList, One
  <2>4. LruList(g)
    BY <1>4, <1>6, <1>8 DEF Sound, LruList
  <2>5. HashTable(g)
    BY <1>4, <1>6, <1>8, HashTableSame DEF Sound, SameLinks
  <2> QED
    BY <1>5, <2>2, <2>3, <2>4, <2>5, PlusFacts DEF Sound
<1> QED
  BY <1>4, <1>6, <1>7 DEF g, Only

\* One(b) counts the lists' reference.
LEMMA OneFacts == \A b \in BOOLEAN : /\ One(b) \in {0, 1}
                                     /\ One(b) = 1 <=> b
                                     /\ One(b) = 0 <=> ~b
  BY DEF One

\* do_item_remove drops a reference, and frees the chunk with the last one.
LEMMA RemoveSound ==
  ASSUME NEW h, NEW held, NEW x \in Chunks, Sound(h, held), held[x] >= 1
  PROVE  /\ Sound(DoItemRemove(h, x), Minus(held, x))
         /\ Only(h, DoItemRemove(h, x), x)
         /\ DoItemRemove(h, x).assoc = h.assoc
         /\ DoItemRemove(h, x).item[x].linked <=> h.item[x].linked
         /\ (held[x] >= 2 \/ h.item[x].linked) =>
               DoItemRemove(h, x).item[x] = [h.item[x] EXCEPT !.refcount = @ - 1]
<1> DEFINE g == DoItemRemove(h, x)
           n == h.item[x].refcount - 1
<1>a. /\ h \in Heap /\ held \in [Chunks -> Nat] /\ Counts(h, held)
      /\ h.item[x].linked \in BOOLEAN /\ RefMod \in Nat
  BY ItemStoreAssumption DEF Sound, Heap, Item
<1>b. /\ held[x] \in Nat /\ h.item[x].refcount < RefMod
      /\ h.item[x].refcount = One(h.item[x].linked) + held[x]
      /\ One(h.item[x].linked) \in {0, 1}
  BY <1>a, OneFacts DEF Counts
<1>1. n \in Nat /\ n < RefMod /\ n = One(h.item[x].linked) + held[x] - 1
  BY <1>a, <1>b
<1>d. Minus(held, x)[x] = held[x] - 1
  BY <1>a, <1>b, PlusFacts
<1>2. Wrap(h.item[x].refcount - 1) = n
  BY <1>a, <1>1 DEF Wrap
<1>3. Decr(h, x) = [h EXCEPT !.item[x].refcount = n]
  BY <1>2 DEF Decr
<1>4. g \in Heap /\ Minus(held, x) \in [Chunks -> Nat]
  BY <1>a, RemoveType, PlusFacts
<1>5. ~In(h.slots, x)
  BY <1>1 DEF Sound, FreeList
<1>6. Decr(h, x).item[x].refcount = n
  BY <1>a, <1>3 DEF Heap, Item
<1>7. CASE n = 0
  <2>a. One(h.item[x].linked) = 0 /\ held[x] = 1
    BY <1>b, <1>1, <1>7
  <2>1. ~h.item[x].linked /\ held[x] = 1
    BY <1>a, <2>a, OneFacts
  <2>2. g = ItemFree(Decr(h, x), x)
    BY <1>6, <1>7 DEF DoItemRemove
  <2>3. /\ g.assoc = h.assoc /\ g.lru = h.lru /\ g.slots = Push(h.slots, x)
        /\ g.cas_id = h.cas_id /\ g.damaged = h.damaged
        /\ \A y \in Chunks : y # x => g.item[y] = h.item[y]
        /\ g.item[x] = FreeItem
    BY <1>a, <1>3, <2>2 DEF ItemFree, Heap
  <2>4. g.item[x].refcount = 0 /\ ~g.item[x].linked
    BY <2>3 DEF FreeItem
  <2> HIDE DEF g
  <2>5. Counts(g, Minus(held, x))
    <3> SUFFICES ASSUME NEW y \in Chunks
                 PROVE  /\ g.item[y].refcount < RefMod
                        /\ g.item[y].refcount = One(g.item[y].linked) + Minus(held, x)[y]
      BY DEF Counts
    <3>1. CASE y = x
      BY <1>a, <1>b, <1>d, <2>1, <2>4, <3>1 DEF One
    <3>2. CASE y # x
      BY <1>a, <2>3, <3>2, PlusFacts DEF Counts
    <3> QED
      BY <3>1, <3>2
  <2>6. FreeList(g)
    <3>1. /\ \A y : In(g.slots, y) <=> (y = x \/ In(h.slots, y))
          /\ NoDup(g.slots)
      <4>1. h.slots \in Seq(Chunks) /\ NoDup(h.slots)
        BY <1>a DEF Sound, FreeList, Heap
      <4>2. /\ \A y : In(Push(h.slots, x), y) <=> (y = x \/ In(h.slots, y))
            /\ NoDup(Push(h.slots, x))
        BY <1>5, <4>1, PushFacts
      <4>3. g.slots = Push(h.slots, x)
        BY <2>3
      <4> QED
        BY <4>2, <4>3
    <3> QED
      BY <2>3, <2>4, <3>1 DEF Sound, FreeList
  <2>7. LruList(g)
    BY <2>1, <2>3, <2>4 DEF Sound, LruList
  <2>8. HashTable(g)
    BY <2>1, <2>3, <2>4, HashTableSame DEF Sound, SameLinks
  <2>9. Sound(g, Minus(held, x))
    BY <1>4, <2>5, <2>6, <2>7, <2>8 DEF Sound
  <2>10. Only(h, g, x)
    BY <2>3 DEF Only
  <2> QED
    BY <2>1, <2>3, <2>4, <2>9, <2>10 DEF g
<1>8. CASE n # 0
  <2>1. g = [h EXCEPT !.item[x].refcount = n]
    BY <1>3, <1>6, <1>8 DEF DoItemRemove
  <2>2. /\ g.assoc = h.assoc /\ g.lru = h.lru /\ g.slots = h.slots
        /\ g.cas_id = h.cas_id /\ g.damaged = h.damaged
        /\ \A y \in Chunks : y # x => g.item[y] = h.item[y]
        /\ g.item[x] = [h.item[x] EXCEPT !.refcount = n]
    BY <1>a, <2>1 DEF Heap
  <2>3. /\ g.item[x].refcount = n /\ g.item[x].linked = h.item[x].linked
        /\ g.item[x].key = h.item[x].key /\ g.item[x].val = h.item[x].val
    BY <1>a, <2>2 DEF Heap, Item
  <2> HIDE DEF g
  <2>4. Counts(g, Minus(held, x))
    <3> SUFFICES ASSUME NEW y \in Chunks
                 PROVE  /\ g.item[y].refcount < RefMod
                        /\ g.item[y].refcount = One(g.item[y].linked) + Minus(held, x)[y]
      BY DEF Counts
    <3>1. CASE y = x
      BY <1>b, <1>d, <1>1, <2>3, <3>1
    <3>2. CASE y # x
      BY <1>a, <2>2, <3>2, PlusFacts DEF Counts
    <3> QED
      BY <3>1, <3>2
  <2>5. FreeList(g)
    BY <1>5, <1>8, <2>2, <2>3 DEF Sound, FreeList
  <2>6. LruList(g)
    BY <2>2, <2>3 DEF Sound, LruList
  <2>7. HashTable(g)
    BY <2>2, <2>3, HashTableSame DEF Sound, SameLinks
  <2>8. Sound(g, Minus(held, x))
    BY <1>4, <2>4, <2>5, <2>6, <2>7 DEF Sound
  <2>9. [h.item[x] EXCEPT !.refcount = @ - 1] = [h.item[x] EXCEPT !.refcount = n]
    OBVIOUS
  <2> QED
    BY <2>2, <2>3, <2>8, <2>9 DEF g, Only
<1> QED
  BY <1>7, <1>8

-----------------------------------------------------------------------------
\* do_item_unlink up to its call of do_item_remove.
Unlinked(h, x) ==
    [h EXCEPT !.item[x].linked = FALSE, !.assoc = AssocDelete(@, h.item[x].key),
              !.lru = Without(@, x)]

\* do_item_remove leaves what others hold as it is.
LEMMA RemoveFair ==
  ASSUME NEW h, NEW held, NEW x \in Chunks, Sound(h, held), held[x] >= 1
  PROVE  Fair(h, DoItemRemove(h, x), Minus(held, x))
<1> DEFINE g == DoItemRemove(h, x)
           less == Minus(held, x)
<1>1. /\ Only(h, g, x) /\ (g.item[x].linked <=> h.item[x].linked)
      /\ (held[x] >= 2 \/ h.item[x].linked) =>
            g.item[x] = [h.item[x] EXCEPT !.refcount = @ - 1]
  BY RemoveSound
<1>2. h \in Heap /\ held[x] \in Nat /\ less[x] = held[x] - 1
  BY PlusFacts DEF Sound
<1>3. h.item[x] \in Item
  BY <1>2 DEF Heap
<1> HIDE DEF g, less
<1>4. CASE held[x] >= 2 \/ h.item[x].linked
  <2>1. g.item[x] = [h.item[x] EXCEPT !.refcount = @ - 1]
    BY <1>1, <1>4
  <2>2. /\ g.item[x].key = h.item[x].key /\ g.item[x].val = h.item[x].val
        /\ g.item[x].cas = h.item[x].cas
    BY <1>3, <2>1 DEF Item
  <2>3. Fair(h, g, less)
    BY <1>1, <1>2, <2>2, FairRest
  <2> QED
    BY <2>3 DEF g, less
<1>5. CASE ~(held[x] >= 2 \/ h.item[x].linked)
  <2>1. ~g.item[x].linked /\ less[x] = 0
    BY <1>1, <1>2, <1>5
  <2>2. Fair(h, g, less)
    BY <1>1, <1>2, <2>1, FairGone
  <2> QED
    BY <2>2 DEF g, less
<1> QED
  BY <1>4, <1>5

\* Out of both lists, the reference of the lists is somebody's to drop.
LEMMA UnlinkedSound ==
  ASSUME NEW h, NEW held, NEW x \in Chunks, Sound(h, held), h.item[x].linked
  PROVE  /\ Sound(Unlinked(h, x), Plus(held, x))
         /\ Only(h, Unlinked(h, x), x)
         /\ ~Unlinked(h, x).item[x].linked
         /\ Unlinked(h, x).assoc[h.item[x].key] = <<>>
         /\ \A k \in Keys : k # h.item[x].key => Unlinked(h, x).assoc[k] = h.assoc[k]
         /\ Unlinked(h, x).item[x] = [h.item[x] EXCEPT !.linked = FALSE]
<1> DEFINE u == Unlinked(h, x)
           k0 == h.item[x].key
<1>1. /\ h \in Heap /\ held \in [Chunks -> Nat] /\ Counts(h, held) /\ FreeList(h)
      /\ LruList(h) /\ HashTable(h) /\ RefMod \in Nat
  BY ItemStoreAssumption DEF Sound
<1>2. k0 \in Keys /\ h.assoc[k0] = <<x>> /\ h.item[x].val \in Vals
  BY <1>1 DEF HashTable
<1>3. /\ u.slots = h.slots /\ u.lru = Without(h.lru, x)
      /\ u.cas_id = h.cas_id /\ u.damaged = h.damaged
      /\ u.assoc = AssocDelete(h.assoc, k0)
      /\ u.item[x] = [h.item[x] EXCEPT !.linked = FALSE]
      /\ \A y \in Chunks : y # x => u.item[y] = h.item[y]
  BY <1>1 DEF Unlinked, Heap
<1>4. /\ u.item[x].refcount = h.item[x].refcount /\ ~u.item[x].linked
      /\ u.item[x].key = k0 /\ u.item[x].val = h.item[x].val
  BY <1>1, <1>3 DEF Heap, Item
<1>5. u.assoc[k0] = <<>> /\ \A k \in Keys : k # k0 => u.assoc[k] = h.assoc[k]
  <2>1. u.assoc = [h.assoc EXCEPT ![k0] = IF @ = <<>> THEN @ ELSE Tail(@)]
    BY <1>3 DEF AssocDelete
  <2>2. Tail(<<x>>) = <<>> /\ <<x>> # <<>>
    OBVIOUS
  <2>3. h.assoc \in [Keys -> Seq(Chunks)]
    BY <1>1 DEF Heap
  <2> QED
    BY <1>2, <2>1, <2>2, <2>3
<1>6. u.assoc \in [Keys -> Seq(Chunks)]
  <2>1. h.assoc \in [Keys -> Seq(Chunks)] /\ DOMAIN u.assoc = Keys
    BY <1>1, <1>3 DEF Heap, AssocDelete
  <2>2. \A k \in Keys : u.assoc[k] \in Seq(Chunks)
    <3>1. <<>> \in Seq(Chunks)
      OBVIOUS
    <3>2. \A k \in Keys : u.assoc[k] = <<>> \/ u.assoc[k] = h.assoc[k]
      BY <1>5
    <3> QED
      BY <2>1, <3>1, <3>2
  <2>3. u.assoc = [k \in Keys |-> u.assoc[k]]
    BY <1>2, <1>3, <2>1 DEF AssocDelete
  <2> QED
    BY <2>2, <2>3
<1>7. /\ u.lru \in Seq(Chunks) /\ NoDup(u.lru)
      /\ \A y : In(u.lru, y) <=> (In(h.lru, y) /\ y # x)
  <2>1. h.lru \in Seq(Chunks) /\ NoDup(h.lru)
    BY <1>1 DEF Heap, LruList
  <2>2. /\ Without(h.lru, x) \in Seq(Chunks) /\ NoDup(Without(h.lru, x))
        /\ \A y : In(Without(h.lru, x), y) <=> (In(h.lru, y) /\ y # x)
    BY <2>1, WithoutFacts
  <2>3. u.lru = Without(h.lru, x)
    BY <1>3
  <2> QED
    BY <2>2, <2>3
<1>8. u \in Heap
  <2>1. u = [h EXCEPT !.item = u.item, !.assoc = u.assoc, !.lru = u.lru]
    BY <1>1 DEF Unlinked, Heap
  <2>2. u.item \in [Chunks -> Item]
    <3>1. h.item \in [Chunks -> Item]
      BY <1>1 DEF Heap
    <3>2. [h.item[x] EXCEPT !.linked = FALSE] \in Item
      BY <3>1 DEF Item
    <3>3. u.item = [h.item EXCEPT ![x] = [h.item[x] EXCEPT !.linked = FALSE]]
      BY <1>1 DEF Unlinked, Heap
    <3> QED
      BY <3>1, <3>2, <3>3
  <2> HIDE DEF u
  <2> QED
    BY <1>1, <1>6, <1>7, <2>1, <2>2 DEF Heap
<1> HIDE DEF u
<1>9. Counts(u, Plus(held, x))
  <2> SUFFICES ASSUME NEW y \in Chunks
               PROVE  /\ u.item[y].refcount < RefMod
                      /\ u.item[y].refcount = One(u.item[y].linked) + Plus(held, x)[y]
    BY DEF Counts
  <2>1. CASE y = x
    <3>1. One(h.item[x].linked) = 1 /\ One(u.item[x].linked) = 0
      BY <1>4 DEF One
    <3>2. h.item[x].refcount = 1 + held[x] /\ held[x] \in Nat
      BY <1>1, <3>1 DEF Counts
    <3> QED
      BY <1>1, <1>4, <2>1, <3>1, <3>2, PlusFacts DEF Counts
  <2>2. CASE y # x
    BY <1>1, <1>3, <2>2, PlusFacts DEF Counts
  <2> QED
    BY <2>1, <2>2
<1>10. FreeList(u)
  BY <1>1, <1>3, <1>4 DEF FreeList
<1>11. LruList(u)
  BY <1>1, <1>3, <1>4, <1>7 DEF LruList
<1>12. HashTable(u)
  <2>1. ASSUME NEW y \in Chunks, u.item[y].linked
        PROVE  /\ u.item[y].key \in Keys /\ u.item[y].val \in Vals
               /\ u.assoc[u.item[y].key] = <<y>>
    <3>1. y # x /\ u.item[y] = h.item[y]
      BY <1>3, <1>4, <2>1
    <3>2. /\ h.item[y].key \in Keys /\ h.item[y].val \in Vals
          /\ h.assoc[h.item[y].key] = <<y>>
      BY <1>1, <2>1, <3>1 DEF HashTable
    <3>3. h.item[y].key # k0
      BY <1>2, <3>1, <3>2
    <3> QED
      BY <1>5, <3>1, <3>2, <3>3
  <2>2. ASSUME NEW k \in Keys, u.assoc[k] # <<>>
        PROVE  \E y \in Chunks : u.assoc[k] = <<y>> /\ u.item[y].linked /\ u.item[y].key = k
    <3>1. k # k0 /\ u.assoc[k] = h.assoc[k]
      BY <1>5, <2>2
    <3>2. PICK y \in Chunks : h.assoc[k] = <<y>> /\ h.item[y].linked /\ h.item[y].key = k
      BY <1>1, <2>2, <3>1 DEF HashTable
    <3>3. y # x
      BY <3>1, <3>2
    <3> QED
      BY <1>3, <3>1, <3>2, <3>3
  <2> QED
    BY <2>1, <2>2 DEF HashTable
<1>13. Sound(u, Plus(held, x))
  BY <1>1, <1>8, <1>9, <1>10, <1>11, <1>12, PlusFacts DEF Sound
<1>14. Only(h, u, x)
  BY <1>3 DEF Only
<1> QED
  BY <1>3, <1>4, <1>5, <1>13, <1>14 DEF u

\* Taking a reference and dropping it again, in either order, changes nothing.
LEMMA MinusPlus ==
  ASSUME NEW held \in [Chunks -> Nat], NEW x \in Chunks
  PROVE  /\ Minus(Plus(held, x), x) = held
         /\ Plus(Minus(held, x), x) = held
<1>1. held[x] + 1 - 1 = held[x] /\ held[x] - 1 + 1 = held[x]
  OBVIOUS
<1>2. Minus(Plus(held, x), x) = [held EXCEPT ![x] = held[x] + 1 - 1]
  BY DEF Minus, Plus
<1>3. Plus(Minus(held, x), x) = [held EXCEPT ![x] = held[x] - 1 + 1]
  BY DEF Minus, Plus
<1>4. [held EXCEPT ![x] = held[x]] = held
  OBVIOUS
<1> QED
  BY <1>1, <1>2, <1>3, <1>4

\* do_item_unlink takes the item out of both lists and drops their reference.
LEMMA UnlinkSound ==
  ASSUME NEW h, NEW held, NEW x \in Chunks, Sound(h, held)
  PROVE  /\ Sound(DoItemUnlink(h, x), held)
         /\ Only(h, DoItemUnlink(h, x), x)
         /\ ~DoItemUnlink(h, x).item[x].linked
         /\ h.item[x].linked => DoItemUnlink(h, x).assoc[h.item[x].key] = <<>>
         /\ Fair(h, DoItemUnlink(h, x), held)
<1> DEFINE u == Unlinked(h, x)
           g == DoItemUnlink(h, x)
<1>1. CASE ~h.item[x].linked
  <2>1. g = h
    BY <1>1 DEF DoItemUnlink
  <2>2. Fair(h, h, held)
    BY FairSame DEF Sound
  <2> QED
    BY <1>1, <2>1, <2>2 DEF Only
<1>2. CASE h.item[x].linked
  <2>1. g = DoItemRemove(u, x)
    BY <1>2 DEF DoItemUnlink, Unlinked
  <2>2. /\ Sound(u, Plus(held, x)) /\ Only(h, u, x) /\ ~u.item[x].linked
        /\ u.assoc[h.item[x].key] = <<>>
        /\ u.item[x] = [h.item[x] EXCEPT !.linked = FALSE]
    BY <1>2, UnlinkedSound
  <2>3. held \in [Chunks -> Nat] /\ Plus(held, x)[x] >= 1
    BY PlusFacts DEF Sound
  <2> DEFINE more == Plus(held, x)
  <2> HIDE DEF u, g, more
  <2>a. Sound(u, more) /\ more[x] >= 1
    BY <2>2, <2>3 DEF more
  <2>b. /\ Sound(g, Minus(more, x)) /\ Only(u, g, x) /\ g.assoc = u.assoc
        /\ g.item[x].linked <=> u.item[x].linked
    BY <2>1, <2>a, RemoveSound
  <2>4. /\ Sound(g, Minus(Plus(held, x), x)) /\ Only(u, g, x) /\ g.assoc = u.assoc
        /\ g.item[x].linked <=> u.item[x].linked
    BY <2>b DEF more
  <2>5. Sound(g, held)
    BY <2>3, <2>4, MinusPlus
  <2>6. Only(h, g, x)
    BY <2>2, <2>4 DEF Only
  <2>7. ~g.item[x].linked /\ g.assoc[h.item[x].key] = <<>>
    BY <2>2, <2>4
  <2>8. Fair(h, g, held)
    <3>1. h \in Heap /\ u \in Heap /\ g \in Heap
      BY <2>2, <2>5 DEF Sound
    <3>2. h.item[x] \in Item
      BY <3>1 DEF Heap
    <3>3. /\ u.item[x].key = h.item[x].key /\ u.item[x].val = h.item[x].val
          /\ u.item[x].cas = h.item[x].cas
      BY <2>2, <3>2 DEF Item
    <3>4. Fair(h, u, held)
      BY <2>2, <3>1, <3>3, FairRest
    <3>5. Fair(u, g, held)
      <4>1. Fair(u, g, Minus(more, x))
        BY <2>1, <2>a, RemoveFair
      <4>2. Minus(more, x) = held
        BY <2>3, MinusPlus DEF more
      <4> QED
        BY <4>1, <4>2
    <3> QED
      BY <3>1, <3>4, <3>5, FairTwice
  <2> QED
    BY <2>5, <2>6, <2>7, <2>8 DEF g
<1> QED
  BY <1>1, <1>2

\* do_item_link up to its call of refcount_incr.
Linked(h, x) ==
    [h EXCEPT !.item[x].linked = TRUE, !.item[x].time = current_time,
              !.item[x].cas = h.cas_id + 1, !.cas_id = h.cas_id + 1,
              !.assoc[h.item[x].key] = Push(@, x),
              !.lru = Push(@, x)]

\* In both lists, an item that was held has given one reference to the lists.
LEMMA LinkedSound ==
  ASSUME NEW h, NEW held, NEW x \in Chunks, Sound(h, held), held[x] >= 1,
         ~h.item[x].linked, h.item[x].key \in Keys, h.item[x].val \in Vals,
         h.assoc[h.item[x].key] = <<>>, current_time \in Nat
  PROVE  /\ Sound(Linked(h, x), Minus(held, x))
         /\ \A y \in Chunks : y # x => Linked(h, x).item[y] = h.item[y]
         /\ Linked(h, x).item[x].linked
         /\ Linked(h, x).damaged = h.damaged
         /\ Linked(h, x).cas_id = h.cas_id + 1
         /\ Linked(h, x).item[x].key = h.item[x].key
         /\ Linked(h, x).item[x].val = h.item[x].val
         /\ Linked(h, x).item[x].cas = h.cas_id + 1
<1> DEFINE u == Linked(h, x)
           k0 == h.item[x].key
           m == [h.item[x] EXCEPT !.linked = TRUE, !.time = current_time,
                                  !.cas = h.cas_id + 1]
<1>1. /\ h \in Heap /\ held \in [Chunks -> Nat] /\ Counts(h, held) /\ FreeList(h)
      /\ LruList(h) /\ HashTable(h) /\ RefMod \in Nat
  BY ItemStoreAssumption DEF Sound
<1>2. /\ u.slots = h.slots /\ u.lru = Push(h.lru, x)
      /\ u.cas_id = h.cas_id + 1 /\ u.damaged = h.damaged
      /\ u.assoc = [h.assoc EXCEPT ![k0] = Push(@, x)]
      /\ u.item = [h.item EXCEPT ![x] = m]
      /\ \A y \in Chunks : y # x => u.item[y] = h.item[y]
      /\ u.item[x] = m
  BY <1>1 DEF Linked, Heap
<1>3. /\ m.refcount = h.item[x].refcount /\ m.linked
      /\ m.key = k0 /\ m.val = h.item[x].val /\ m.cas = h.cas_id + 1
      /\ m \in Item
  <2>1. h.item[x] \in Item /\ h.cas_id + 1 \in Nat
    BY <1>1 DEF Heap
  <2> QED
    BY <2>1 DEF Item
<1> HIDE DEF m
<1>4. u.assoc[k0] = <<x>> /\ \A k \in Keys : k # k0 => u.assoc[k] = h.assoc[k]
  <2>1. Push(<<>>, x) = <<x>>
    BY DEF Push
  <2>2. h.assoc \in [Keys -> Seq(Chunks)]
    BY <1>1 DEF Heap
  <2> QED
    BY <1>2, <2>1, <2>2
<1>5. u.assoc \in [Keys -> Seq(Chunks)]
  <2>1. h.assoc \in [Keys -> Seq(Chunks)]
    BY <1>1 DEF Heap
  <2>2. Push(h.assoc[k0], x) \in Seq(Chunks)
    BY <2>1, PushFacts
  <2> QED
    BY <1>2, <2>1, <2>2
<1>6. /\ u.lru \in Seq(Chunks) /\ NoDup(u.lru)
      /\ \A y : In(u.lru, y) <=> (y = x \/ In(h.lru, y))
  <2>1. h.lru \in Seq(Chunks) /\ NoDup(h.lru) /\ ~In(h.lru, x)
    BY <1>1 DEF Heap, LruList
  <2>2. /\ Push(h.lru, x) \in Seq(Chunks) /\ NoDup(Push(h.lru, x))
        /\ \A y : In(Push(h.lru, x), y) <=> (y = x \/ In(h.lru, y))
    BY <2>1, PushFacts
  <2>3. u.lru = Push(h.lru, x)
    BY <1>2
  <2> QED
    BY <2>2, <2>3
<1>7. u \in Heap
  <2>1. u = [h EXCEPT !.item = u.item, !.assoc = u.assoc, !.lru = u.lru, !.cas_id = u.cas_id]
    BY <1>1, ZenonT(60) DEF Linked, Heap
  <2>2. u.item \in [Chunks -> Item] /\ u.cas_id \in Nat
    BY <1>1, <1>2, <1>3 DEF Heap
  <2> HIDE DEF u
  <2> QED
    BY <1>1, <1>5, <1>6, <2>1, <2>2 DEF Heap
<1> HIDE DEF u
<1>8. Counts(u, Minus(held, x))
  <2> SUFFICES ASSUME NEW y \in Chunks
               PROVE  /\ u.item[y].refcount < RefMod
                      /\ u.item[y].refcount = One(u.item[y].linked) + Minus(held, x)[y]
    BY DEF Counts
  <2>1. CASE y = x
    <3>1. One(h.item[x].linked) = 0 /\ One(u.item[x].linked) = 1
      BY <1>2, <1>3 DEF One
    <3>2. h.item[x].refcount = held[x] /\ held[x] \in Nat /\ h.item[x].refcount < RefMod
      BY <1>1, <3>1 DEF Counts
    <3> QED
      BY <1>1, <1>2, <1>3, <2>1, <3>1, <3>2, PlusFacts
  <2>2. CASE y # x
    BY <1>1, <1>2, <2>2, PlusFacts DEF Counts
  <2> QED
    BY <2>1, <2>2
<1>9. FreeList(u)
  BY <1>1, <1>2, <1>3 DEF FreeList
<1>10. LruList(u)
  BY <1>1, <1>2, <1>3, <1>6 DEF LruList
<1>11. HashTable(u)
  <2>1. ASSUME NEW y \in Chunks, u.item[y].linked
        PROVE  /\ u.item[y].key \in Keys /\ u.item[y].val \in Vals
               /\ u.assoc[u.item[y].key] = <<y>>
    <3>1. CASE y = x
      BY <1>2, <1>3, <1>4, <3>1
    <3>2. CASE y # x
      <4>1. u.item[y] = h.item[y] /\ h.item[y].linked
        BY <1>2, <2>1, <3>2
      <4>2. /\ h.item[y].key \in Keys /\ h.item[y].val \in Vals
            /\ h.assoc[h.item[y].key] = <<y>>
        BY <1>1, <4>1 DEF HashTable
      <4>3. h.item[y].key # k0
        <5>1. <<y>> # <<>>
          OBVIOUS
        <5> QED
          BY <4>2, <5>1
      <4> QED
        BY <1>4, <4>1, <4>2, <4>3
    <3> QED
      BY <3>1, <3>2
  <2>2. ASSUME NEW k \in Keys, u.assoc[k] # <<>>
        PROVE  \E y \in Chunks : u.assoc[k] = <<y>> /\ u.item[y].linked /\ u.item[y].key = k
    <3>1. CASE k = k0
      BY <1>2, <1>3, <1>4, <3>1
    <3>2. CASE k # k0
      <4>1. u.assoc[k] = h.assoc[k]
        BY <1>4, <3>2
      <4>2. PICK y \in Chunks : h.assoc[k] = <<y>> /\ h.item[y].linked /\ h.item[y].key = k
        BY <1>1, <2>2, <4>1 DEF HashTable
      <4>3. y # x
        BY <3>2, <4>2
      <4> QED
        BY <1>2, <4>1, <4>2, <4>3
    <3> QED
      BY <3>1, <3>2
  <2> QED
    BY <2>1, <2>2 DEF HashTable
<1>12. Sound(u, Minus(held, x))
  BY <1>1, <1>7, <1>8, <1>9, <1>10, <1>11, PlusFacts DEF Sound
<1> QED
  BY <1>2, <1>3, <1>12 DEF u

\* do_item_link of an unlinked item under a key that is free.
LEMMA LinkSound ==
  ASSUME NEW h, NEW held, NEW x \in Chunks, Sound(h, held), held[x] = 1,
         ~h.item[x].linked, h.item[x].key \in Keys, h.item[x].val \in Vals,
         h.assoc[h.item[x].key] = <<>>, current_time \in Nat
  PROVE  /\ Sound(DoItemLink(h, x), held)
         /\ \A y \in Chunks : y # x => DoItemLink(h, x).item[y] = h.item[y]
         /\ DoItemLink(h, x).damaged = h.damaged
         /\ DoItemLink(h, x).item[x].linked
         /\ \A busy : Fair(h, DoItemLink(h, x), busy)
<1> DEFINE u == Linked(h, x)
           g == DoItemLink(h, x)
<1>1. g = Incr(u, x)
  BY DEF DoItemLink, Linked
<1>0. held \in [Chunks -> Nat] /\ held[x] >= 1
  BY DEF Sound
<1>2. /\ Sound(u, Minus(held, x)) /\ \A y \in Chunks : y # x => u.item[y] = h.item[y]
      /\ u.item[x].linked /\ u.damaged = h.damaged
  BY <1>0, LinkedSound
<1>c. /\ u.cas_id = h.cas_id + 1 /\ u.item[x].key = h.item[x].key
      /\ u.item[x].val = h.item[x].val /\ u.item[x].cas = h.cas_id + 1
  BY <1>0, LinkedSound
<1>3. held \in [Chunks -> Nat] /\ Room(u, x)
  <2>1. /\ held \in [Chunks -> Nat] /\ Minus(held, x)[x] = 0
        /\ RefMod \in Nat /\ RefMod > 3
    BY <1>0, PlusFacts, ItemStoreAssumption
  <2>2. u.item[x].refcount = 1
    BY <1>2, <2>1 DEF Sound, Counts, One
  <2> QED
    BY <2>1, <2>2 DEF Room
<1> DEFINE less == Minus(held, x)
<1> HIDE DEF u, g, less
<1>a. Sound(u, less) /\ Room(u, x)
  BY <1>2, <1>3 DEF less
<1>b. /\ Sound(g, Plus(less, x)) /\ Only(u, g, x)
      /\ g.item[x] = [u.item[x] EXCEPT !.refcount = @ + 1]
  BY <1>1, <1>2, <1>a, IncrSound
<1>4. /\ Sound(g, Plus(Minus(held, x), x)) /\ Only(u, g, x)
      /\ g.item[x] = [u.item[x] EXCEPT !.refcount = @ + 1]
  BY <1>b DEF less
<1>5. u \in Heap
  BY <1>2 DEF Sound
<1>6. g.item[x].linked
  BY <1>2, <1>4, <1>5 DEF Heap, Item
<1>7. Sound(g, held)
  BY <1>3, <1>4, MinusPlus
<1>8. ASSUME NEW busy PROVE Fair(h, g, busy)
  <2>1. h.cas_id \in Nat
    BY DEF Sound, Heap
  <2>2. /\ g.item[x].key = h.item[x].key /\ g.item[x].val = h.item[x].val
        /\ g.item[x].cas = h.cas_id + 1
    <3>1. u.item[x] \in Item
      BY <1>5 DEF Heap
    <3>2. /\ g.item[x].key = u.item[x].key /\ g.item[x].val = u.item[x].val
          /\ g.item[x].cas = u.item[x].cas
      BY <1>4, <3>1 DEF Item
    <3> QED
      BY <1>c, <3>2
  <2>3. g.cas_id = h.cas_id + 1 /\ \A y \in Chunks : y # x => g.item[y] = h.item[y]
    BY <1>2, <1>c, <1>4 DEF Only
  <2>4. Newer(h, g)
    BY <2>1, <2>2, <2>3 DEF Newer
  <2>5. Calm(h, g, busy)
    BY <2>2, <2>3 DEF Calm
  <2> QED
    BY <2>4, <2>5 DEF Fair
<1> QED
  BY <1>2, <1>4, <1>6, <1>7, <1>8 DEF g, Only

\* do_item_update moves a linked item to the head of the LRU list.
LEMMA UpdateSound ==
  ASSUME NEW h, NEW held, NEW x \in Chunks, Sound(h, held), current_time \in Nat
  PROVE  /\ Sound(DoItemUpdate(h, x), held)
         /\ Only(h, DoItemUpdate(h, x), x)
         /\ DoItemUpdate(h, x).item[x].linked <=> h.item[x].linked
         /\ \A busy : Fair(h, DoItemUpdate(h, x), busy)
<1> DEFINE g == DoItemUpdate(h, x)
<1>1. CASE g = h
  <2>1. \A busy : Fair(h, h, busy)
    BY FairSame DEF Sound
  <2> QED
    BY <1>1, <2>1 DEF Only
<1>2. CASE g # h
  <2>1. /\ h \in Heap /\ held \in [Chunks -> Nat] /\ Counts(h, held) /\ FreeList(h)
        /\ LruList(h) /\ HashTable(h)
    BY DEF Sound
  <2>2. h.item[x].linked
    BY <1>2 DEF DoItemUpdate
  <2>3. g = [h EXCEPT !.lru = Relink(@, x), !.item[x].time = current_time]
    BY <1>2 DEF DoItemUpdate
  <2>4. /\ g.slots = h.slots /\ g.lru = Relink(h.lru, x) /\ g.assoc = h.assoc
        /\ g.cas_id = h.cas_id /\ g.damaged = h.damaged
        /\ g.item = [h.item EXCEPT ![x] = [h.item[x] EXCEPT !.time = current_time]]
        /\ \A y \in Chunks : y # x => g.item[y] = h.item[y]
        /\ g.item[x] = [h.item[x] EXCEPT !.time = current_time]
    BY <2>1, <2>3 DEF Heap
  <2>5. h.item[x] \in Item
    BY <2>1 DEF Heap
  <2>6. /\ g.item[x].refcount = h.item[x].refcount /\ g.item[x].linked
        /\ g.item[x].key = h.item[x].key /\ g.item[x].val = h.item[x].val
        /\ g.item[x].cas = h.item[x].cas /\ g.item[x] \in Item
    BY <2>2, <2>4, <2>5 DEF Item
  <2>7. /\ g.lru \in Seq(Chunks) /\ NoDup(g.lru)
        /\ \A y : In(g.lru, y) <=> In(h.lru, y)
    <3> DEFINE w == Without(h.lru, x)
    <3>1. h.lru \in Seq(Chunks) /\ NoDup(h.lru) /\ In(h.lru, x)
      BY <2>1, <2>2 DEF Heap, LruList
    <3>2. w \in Seq(Chunks) /\ NoDup(w) /\ \A y : In(w, y) <=> (In(h.lru, y) /\ y # x)
      BY <3>1, WithoutFacts
    <3> HIDE DEF w
    <3>3. /\ Push(w, x) \in Seq(Chunks) /\ NoDup(Push(w, x))
          /\ \A y : In(Push(w, x), y) <=> (y = x \/ In(w, y))
      BY <3>2, PushFacts
    <3>4. g.lru = Push(w, x)
      BY <2>4 DEF Relink, w
    <3> QED
      BY <3>1, <3>2, <3>3, <3>4
  <2>8. g \in Heap
    <3>1. g = [h EXCEPT !.item = g.item, !.lru = g.lru]
      BY <2>1, <2>3 DEF Heap
    <3>2. g.item \in [Chunks -> Item]
      BY <2>1, <2>4, <2>6 DEF Heap
    <3> HIDE DEF g
    <3> QED
      BY <2>1, <2>7, <3>1, <3>2 DEF Heap
  <2> HIDE DEF g
  <2>9. Counts(g, held)
    <3> SUFFICES ASSUME NEW y \in Chunks
                 PROVE  /\ g.item[y].refcount < RefMod
                        /\ g.item[y].refcount = One(g.item[y].linked) + held[y]
      BY DEF Counts
    <3>1. g.item[y].refcount = h.item[y].refcount /\ (g.item[y].linked <=> h.item[y].linked)
      BY <2>2, <2>4, <2>6
    <3> QED
      BY <2>1, <3>1 DEF Counts, One
  <2>10. FreeList(g)
    BY <2>1, <2>4, <2>6 DEF FreeList
  <2>11. LruList(g)
    BY <2>1, <2>2, <2>4, <2>6, <2>7 DEF LruList
  <2>12. HashTable(g)
    BY <2>1, <2>2, <2>4, <2>6, HashTableSame DEF SameLinks
  <2>13. Sound(g, held)
    BY <2>1, <2>8, <2>9, <2>10, <2>11, <2>12 DEF Sound
  <2>14. Only(h, g, x)
    BY <2>4 DEF Only
  <2>15. \A busy : Fair(h, g, busy)
    BY <2>1, <2>2, <2>6, <2>14, FairRest
  <2> QED
    BY <2>2, <2>6, <2>13, <2>14, <2>15 DEF g
<1> QED
  BY <1>1, <1>2

-----------------------------------------------------------------------------
\* NULL is not a chunk.
LEMMA NilFacts == Nil \notin Chunks
  BY ItemStoreAssumption DEF Nil, Chunks

\* do_item_get returns the linked item of the key with a reference, or nothing, and
\* then no item has the key.
LEMMA GetSound ==
  ASSUME NEW h, NEW held, NEW k \in Keys, Sound(h, held), Countable(h, k)
  PROVE  LET r == DoItemGet(h, k)
         IN  /\ r.it = Nil => Sound(r.h, held) /\ r.h.assoc[k] = <<>>
             /\ r.it # Nil => /\ r.it \in Chunks /\ Sound(r.h, Plus(held, r.it))
                             /\ r.h.item[r.it].linked /\ r.h.item[r.it].key = k
             /\ r.h.damaged = h.damaged
             /\ \A y \in Chunks : ~h.item[y].linked => r.h.item[y] = h.item[y]
             /\ Fair(h, r.h, held)
<1> DEFINE r == DoItemGet(h, k)
<1>1. CASE h.assoc[k] = <<>>
  <2>1. r = [h |-> h, it |-> Nil]
    BY <1>1 DEF DoItemGet
  <2>2. Fair(h, h, held)
    BY FairSame DEF Sound
  <2> QED
    BY <1>1, <2>1, <2>2
<1>2. CASE h.assoc[k] # <<>>
  <2>1. PICK x \in Chunks : h.assoc[k] = <<x>> /\ h.item[x].linked /\ h.item[x].key = k
    BY <1>2 DEF Sound, HashTable
  <2> DEFINE g == Incr(h, x)
             more == Plus(held, x)
             u == DoItemUnlink(g, x)
             v == DoItemRemove(u, x)
  <2>2. Head(h.assoc[k]) = x
    BY <2>1
  <2>3. held \in [Chunks -> Nat] /\ h \in Heap /\ RefMod \in Nat
        /\ Room(h, x) /\ held[x] \in Nat
    BY <1>2, <2>2, ItemStoreAssumption DEF Sound, Countable, Room
  <2>4. more \in [Chunks -> Nat] /\ more[x] = held[x] + 1
    BY <2>3, PlusFacts
  <2>5. /\ Sound(g, more) /\ Only(h, g, x) /\ g.assoc = h.assoc
        /\ g.item[x] = [h.item[x] EXCEPT !.refcount = @ + 1]
    BY <2>1, <2>3, IncrSound
  <2>6. g.item[x].linked /\ g.item[x].key = k
    <3>1. h.item[x] \in Item
      BY <2>3 DEF Heap
    <3> QED
      BY <2>1, <2>5, <3>1 DEF Item
  <2>7. \/ r = [h |-> v, it |-> Nil]
        \/ r = [h |-> g, it |-> x]
    BY <1>2, <2>2 DEF DoItemGet
  <2> HIDE DEF g, more
  <2>8. more[x] >= 1
    BY <2>3, <2>4
  <2>a. Fair(h, g, held)
    <3>1. h.item[x] \in Item
      BY <2>3 DEF Heap
    <3>2. /\ g.item[x].key = h.item[x].key /\ g.item[x].val = h.item[x].val
          /\ g.item[x].cas = h.item[x].cas
      BY <2>5, <3>1 DEF Item
    <3> QED
      BY <2>1, <2>3, <2>5, <3>2, FairRest
  <2>9. /\ Sound(u, more) /\ Only(g, u, x) /\ ~u.item[x].linked /\ u.assoc[k] = <<>>
        /\ Fair(g, u, more)
    BY <2>5, <2>6, <2>8, UnlinkSound
  <2> HIDE DEF u
  <2>10. /\ Sound(v, Minus(more, x)) /\ Only(u, v, x) /\ v.assoc = u.assoc
    BY <2>8, <2>9, RemoveSound
  <2>11. Minus(more, x) = held
    BY <2>3, MinusPlus DEF more
  <2>b. Fair(u, v, held)
    BY <2>8, <2>9, <2>11, RemoveFair
  <2> HIDE DEF v
  <2>c. Fair(h, v, held)
    <3>1. \A y \in Chunks : held[y] >= 1 => more[y] >= 1
      <4>1. \A y \in Chunks : y # x => more[y] = held[y]
        BY <2>3, PlusFacts DEF more
      <4> QED
        BY <2>8, <4>1
    <3>2. Fair(g, u, held)
      BY <2>9, <3>1, FairFewer
    <3>3. h \in Heap /\ g \in Heap /\ u \in Heap /\ v \in Heap
      BY <2>3, <2>5, <2>9, <2>10 DEF Sound
    <3>4. Fair(g, v, held)
      BY <2>b, <3>2, <3>3, FairTwice
    <3> QED
      BY <2>a, <3>3, <3>4, FairTwice
  <2>12. \A y \in Chunks : y # x => g.item[y] = h.item[y] /\ v.item[y] = h.item[y]
    BY <2>5, <2>9, <2>10 DEF Only
  <2>13. g.damaged = h.damaged /\ v.damaged = h.damaged
    BY <2>5, <2>9, <2>10 DEF Only
  <2> HIDE DEF r
  <2>14. CASE r = [h |-> v, it |-> Nil]
    <3>1. r.h = v /\ r.it = Nil
      BY <2>14
    <3> QED
      BY <2>1, <2>9, <2>10, <2>11, <2>12, <2>13, <2>c, <3>1 DEF r
  <2>15. CASE r = [h |-> g, it |-> x]
    <3>1. r.h = g /\ r.it = x /\ x # Nil
      BY <2>15, NilFacts
    <3> QED
      BY <2>1, <2>5, <2>6, <2>12, <2>13, <2>a, <3>1 DEF r, more
  <2> QED
    BY <2>7, <2>14, <2>15
<1> QED
  BY <1>1, <1>2

-----------------------------------------------------------------------------
\* A bounded set of numbers that is not empty has a largest element: the search
\* of do_item_alloc ends at a well-defined position.
LEMMA LargestExists ==
  ASSUME NEW n \in Nat, NEW S \in SUBSET (1..n), S # {}
  PROVE  \E i \in S : \A j \in S : j <= i
<1> DEFINE R == OpToRel(<, Nat)
           T == {n - i : i \in S}
<1>1. \A a, b \in Nat : a < b => <<a, b>> \in R
  BY DEF OpToRel
<1>2. IsWellFoundedOn(R, Nat)
  BY NatLessThanWellFounded
<1> HIDE DEF R
<1>3. T \subseteq Nat /\ T # {}
  <2>1. ASSUME NEW t \in T PROVE t \in Nat
    <3>1. PICK i \in S : t = n - i
      BY <2>1
    <3>2. i \in 1..n
      OBVIOUS
    <3> QED
      BY <3>1, <3>2
  <2>2. PICK i \in S : TRUE
    OBVIOUS
  <2>3. n - i \in T
    OBVIOUS
  <2> QED
    BY <2>1, <2>3
<1>4. PICK a \in T : \A b \in T : ~(<<b, a>> \in R)
  <2> HIDE DEF T
  <2> QED
    BY <1>2, <1>3, WFMin
<1>5. PICK i \in S : a = n - i
  OBVIOUS
<1>6. ASSUME NEW j \in S PROVE j <= i
  <2>1. n - j \in T /\ n - j \in Nat /\ a \in Nat
    BY <1>3
  <2>2. ~(n - j < a)
    BY <1>1, <1>4, <2>1
  <2> QED
    BY <1>5, <2>1, <2>2
<1> QED
  BY <1>6

\* The search ends without an item, or at one of the LRU list that is not held,
\* or held but old enough for tail repair.
LEMMA SearchFacts ==
  ASSUME NEW h \in Heap, NEW cur
  PROVE  \/ Search(h, cur) = Nil
         \/ /\ Search(h, cur) \in Chunks /\ Search(h, cur) # Nil
            /\ In(h.lru, Search(h, cur))
<1> DEFINE S == Stops(h, cur)
           m == CHOOSE i \in S : \A j \in S : j <= i
<1>1. CASE S = {}
  BY <1>1 DEF Search
<1>2. CASE S # {}
  <2>1. h.lru \in Seq(Chunks)
    BY DEF Heap
  <2>2. S \in SUBSET (1..Len(h.lru)) /\ Len(h.lru) \in Nat
    BY <2>1 DEF Stops
  <2> HIDE DEF S
  <2>3. \E i \in S : \A j \in S : j <= i
    BY <1>2, <2>2, LargestExists
  <2>4. m \in S
    BY <2>3
  <2>5. Search(h, cur) = h.lru[m]
    BY <1>2 DEF Search, S
  <2> HIDE DEF m
  <2> QED
    BY <2>1, <2>2, <2>4, <2>5, NilFacts DEF In
<1> QED
  BY <1>1, <1>2

\* An item whose key, links and count stay the same, and whose value stays the
\* same if it is linked, may be rewritten.
LEMMA RewriteSound ==
  ASSUME NEW h, NEW held, NEW x \in Chunks, Sound(h, held), NEW m \in Item,
         m.refcount = h.item[x].refcount, m.linked = h.item[x].linked,
         m.key = h.item[x].key, h.item[x].linked => m.val = h.item[x].val
  PROVE  /\ Sound([h EXCEPT !.item[x] = m], held)
         /\ Only(h, [h EXCEPT !.item[x] = m], x)
         /\ [h EXCEPT !.item[x] = m].item[x] = m
         /\ [h EXCEPT !.item[x] = m].assoc = h.assoc
<1> DEFINE g == [h EXCEPT !.item[x] = m]
<1>1. /\ h \in Heap /\ held \in [Chunks -> Nat] /\ Counts(h, held) /\ FreeList(h)
      /\ LruList(h) /\ HashTable(h)
  BY DEF Sound
<1>2. /\ g.slots = h.slots /\ g.lru = h.lru /\ g.assoc = h.assoc
      /\ g.cas_id = h.cas_id /\ g.damaged = h.damaged
      /\ \A y \in Chunks : y # x => g.item[y] = h.item[y]
      /\ g.item[x] = m
      /\ g \in Heap
  BY <1>1 DEF Heap
<1> HIDE DEF g
<1>3. \A y \in Chunks : /\ g.item[y].refcount = h.item[y].refcount
                        /\ g.item[y].linked = h.item[y].linked
                        /\ g.item[y].key = h.item[y].key
                        /\ h.item[y].linked => g.item[y].val = h.item[y].val
  BY <1>2
<1>4. Counts(g, held) /\ FreeList(g) /\ LruList(g)
  BY <1>1, <1>2, <1>3 DEF Counts, FreeList, LruList
<1>5. HashTable(g)
  BY <1>1, <1>2, <1>3, HashTableSame DEF SameLinks
<1>6. Sound(g, held) /\ Only(h, g, x)
  BY <1>1, <1>2, <1>4, <1>5 DEF Sound, Only
<1> QED
  BY <1>2, <1>6 DEF g

\* The value of an item that is not linked may change.
LEMMA ValueSound ==
  ASSUME NEW h, NEW held, NEW x \in Chunks, Sound(h, held), ~h.item[x].linked,
         NEW v \in Vals, NEW g, g = [h EXCEPT !.item[x].val = v]
  PROVE  Sound(g, held) /\ Only(h, g, x)
<1> DEFINE m == [h.item[x] EXCEPT !.val = v]
<1>1. h.item[x] \in Item
  BY DEF Sound, Heap
<1>2. /\ m \in Item /\ m.refcount = h.item[x].refcount
      /\ m.linked = h.item[x].linked /\ m.key = h.item[x].key
  BY <1>1 DEF Item
<1>3. g = [h EXCEPT !.item[x] = m]
  OBVIOUS
<1> HIDE DEF m
<1>4. h.item[x].linked => m.val = h.item[x].val
  OBVIOUS
<1>5. Sound(g, held) /\ Only(h, g, x)
  BY <1>2, <1>3, <1>4, RewriteSound
<1> QED
  BY <1>5

\* What do_item_alloc makes of a chunk.
LEMMA NewItemFacts ==
  ASSUME NEW k \in Keys, NEW exptime \in Nat
  PROVE  /\ NewItem(k, exptime) \in Item
         /\ NewItem(k, exptime).refcount = 1 /\ ~NewItem(k, exptime).linked
         /\ NewItem(k, exptime).key = k
  BY DEF NewItem, FreeItem, Item

\* A chunk that only its holder refers to may become a new item.
LEMMA FreshSound ==
  ASSUME NEW h, NEW held, NEW x \in Chunks, Sound(h, held), held[x] = 1,
         ~h.item[x].linked, NEW k \in Keys, NEW exptime \in Nat
  PROVE  LET g == [h EXCEPT !.item[x] = NewItem(k, exptime)]
         IN  /\ Sound(g, held) /\ Only(h, g, x)
             /\ g.item[x] = NewItem(k, exptime)
<1> DEFINE m == NewItem(k, exptime)
           g == [h EXCEPT !.item[x] = m]
<1>1. /\ h \in Heap /\ held \in [Chunks -> Nat] /\ Counts(h, held) /\ FreeList(h)
      /\ LruList(h) /\ HashTable(h)
  BY DEF Sound
<1>2. m \in Item /\ m.refcount = 1 /\ ~m.linked
  BY NewItemFacts
<1> HIDE DEF m
<1>3. /\ g.slots = h.slots /\ g.lru = h.lru /\ g.assoc = h.assoc
      /\ g.cas_id = h.cas_id /\ g.damaged = h.damaged
      /\ \A y \in Chunks : y # x => g.item[y] = h.item[y]
      /\ g.item[x] = m
      /\ g \in Heap
  BY <1>1, <1>2 DEF Heap
<1>4. h.item[x].refcount = 1
  BY <1>1 DEF Counts, One
<1> HIDE DEF g
<1>5. Counts(g, held)
  BY <1>1, <1>2, <1>3, <1>4 DEF Counts, One
<1>6. FreeList(g) /\ LruList(g)
  BY <1>1, <1>2, <1>3, <1>4 DEF FreeList, LruList
<1>7. HashTable(g)
  BY <1>1, <1>2, <1>3, HashTableSame DEF SameLinks
<1>8. Sound(g, held) /\ Only(h, g, x)
  BY <1>1, <1>3, <1>5, <1>6, <1>7 DEF Sound, Only
<1> QED
  BY <1>3, <1>8 DEF g, m

-----------------------------------------------------------------------------
(***************************************************************************)
(* After tail repair the counts mean nothing, but every function still     *)
(* returns a heap, and none clears the mark.                               *)
(***************************************************************************)
Damaged(h) == h \in Heap /\ h.damaged

\* Taking a chunk out of any list gives a list.
LEMMA WithoutType ==
  ASSUME NEW s \in Seq(Chunks), NEW x
  PROVE  Without(s, x) \in Seq(Chunks)
<1>1. CASE ~\E i \in DOMAIN s : s[i] = x
  BY <1>1 DEF Without
<1>2. CASE \E i \in DOMAIN s : s[i] = x
  <2> DEFINE i == CHOOSE n \in DOMAIN s : s[n] = x
             w == Without(s, x)
  <2>1. i \in 1..Len(s) /\ Len(s) \in Nat
    BY <1>2
  <2>2. w = [j \in 1..(Len(s) - 1) |-> IF j < i THEN s[j] ELSE s[j + 1]]
    BY <1>2 DEF Without
  <2> HIDE DEF i
  <2>3. \A j \in 1..(Len(s) - 1) : (IF j < i THEN s[j] ELSE s[j + 1]) \in Chunks
    BY <2>1
  <2> QED
    BY <2>1, <2>2, <2>3
<1> QED
  BY <1>1, <1>2

\* do_item_remove keeps the mark.
LEMMA RemoveDamaged ==
  ASSUME NEW h, NEW x \in Chunks, Damaged(h)
  PROVE  Damaged(DoItemRemove(h, x))
<1>1. h \in Heap
  BY DEF Damaged
<1>2. DoItemRemove(h, x) \in Heap
  BY <1>1, RemoveType
<1>3. Decr(h, x) \in Heap /\ Decr(h, x).damaged
  BY <1>1, DecrType DEF Damaged, Decr, Heap
<1>4. ItemFree(Decr(h, x), x).damaged
  BY <1>3 DEF ItemFree, Heap
<1> QED
  BY <1>2, <1>3, <1>4 DEF DoItemRemove, Damaged

\* do_item_unlink gives a heap.
LEMMA UnlinkType ==
  ASSUME NEW h \in Heap, NEW x \in Chunks
  PROVE  /\ DoItemUnlink(h, x) \in Heap
         /\ h.damaged => DoItemUnlink(h, x).damaged
<1> DEFINE u == Unlinked(h, x)
<1>1. /\ h.assoc \in [Keys -> Seq(Chunks)] /\ h.lru \in Seq(Chunks)
      /\ h.item \in [Chunks -> Item] /\ h.item[x] \in Item
  BY DEF Heap
<1>2. AssocDelete(h.assoc, h.item[x].key) \in [Keys -> Seq(Chunks)]
  <2>1. \A s \in Seq(Chunks) : (IF s = <<>> THEN s ELSE Tail(s)) \in Seq(Chunks)
    OBVIOUS
  <2> QED
    BY <1>1, <2>1 DEF AssocDelete
<1>3. Without(h.lru, x) \in Seq(Chunks)
  BY <1>1, WithoutType
<1>4. [h.item[x] EXCEPT !.linked = FALSE] \in Item
  BY <1>1 DEF Item
<1>5. u = [h EXCEPT !.item = [h.item EXCEPT ![x] = [h.item[x] EXCEPT !.linked = FALSE]],
                    !.assoc = AssocDelete(h.assoc, h.item[x].key),
                    !.lru = Without(h.lru, x)]
  BY <1>1 DEF Unlinked, Heap
<1>6. u \in Heap /\ u.damaged = h.damaged
  BY <1>1, <1>2, <1>3, <1>4, <1>5, ZenonT(60) DEF Heap
<1> HIDE DEF u
<1>7. DoItemRemove(u, x) \in Heap /\ (h.damaged => DoItemRemove(u, x).damaged)
  BY <1>6, RemoveType, RemoveDamaged DEF Damaged
<1>8. DoItemUnlink(h, x) \in {h, DoItemRemove(u, x)}
  BY DEF DoItemUnlink, Unlinked, u
<1> QED
  BY <1>7, <1>8

\* do_item_link gives a heap.
LEMMA LinkType ==
  ASSUME NEW h \in Heap, NEW x \in Chunks, current_time \in Nat
  PROVE  /\ DoItemLink(h, x) \in Heap
         /\ h.damaged => DoItemLink(h, x).damaged
<1> DEFINE u == Linked(h, x)
           m == [h.item[x] EXCEPT !.linked = TRUE, !.time = current_time,
                                  !.cas = h.cas_id + 1]
           a == [h.assoc EXCEPT ![h.item[x].key] = Push(@, x)]
<1>1. /\ h.assoc \in [Keys -> Seq(Chunks)] /\ h.lru \in Seq(Chunks)
      /\ h.item \in [Chunks -> Item] /\ h.item[x] \in Item /\ h.cas_id \in Nat
  BY DEF Heap
<1>2. a \in [Keys -> Seq(Chunks)]
  <2>1. \A s \in Seq(Chunks) : Push(s, x) \in Seq(Chunks)
    BY PushFacts
  <2> QED
    BY <1>1, <2>1
<1>3. Push(h.lru, x) \in Seq(Chunks)
  BY <1>1, PushFacts
<1>4. m \in Item /\ h.cas_id + 1 \in Nat
  <2>1. h.item[x] \in Item /\ h.cas_id + 1 \in Nat
    BY <1>1
  <2> QED
    BY <2>1 DEF Item
<1>5. u = [h EXCEPT !.item = [h.item EXCEPT ![x] = m], !.assoc = a,
                    !.lru = Push(h.lru, x), !.cas_id = h.cas_id + 1]
  BY <1>1, ZenonT(60) DEF Linked, Heap
<1> HIDE DEF m, a
<1>6. u \in Heap /\ u.damaged = h.damaged
  BY <1>1, <1>2, <1>3, <1>4, <1>5, ZenonT(60) DEF Heap
<1> HIDE DEF u
<1>7. Incr(u, x) \in Heap /\ Incr(u, x).damaged = u.damaged
  BY <1>6, IncrType DEF Incr, Heap
<1>8. DoItemLink(h, x) = Incr(u, x)
  BY DEF DoItemLink, Linked, u
<1> QED
  BY <1>6, <1>7, <1>8

\* Tail repair gives a heap, marked, and the chunk of a linked item is free.
LEMMA TailRepairDamaged ==
  ASSUME NEW h \in Heap, NEW x \in Chunks, h.item[x].linked
  PROVE  /\ Damaged(TailRepair(h, x))
         /\ TailRepair(h, x).slots # <<>>
<1> DEFINE g == [h EXCEPT !.item[x].refcount = 1]
           u == DoItemUnlink(g, x)
           n == Unlinked(g, x)
<1>1. g \in Heap /\ g.item[x].refcount = 1 /\ g.item[x].linked
  <2>1. h.item[x] \in Item /\ [h.item[x] EXCEPT !.refcount = 1] \in Item
    BY DEF Heap, Item
  <2>2. g.item[x] = [h.item[x] EXCEPT !.refcount = 1] /\ g \in Heap
    BY <2>1 DEF Heap
  <2> HIDE DEF g
  <2> QED
    BY <2>1, <2>2 DEF Item
<1> HIDE DEF g
<1>2. u \in Heap
  BY <1>1, UnlinkType
<1>3. u.slots # <<>>
  <2>1. u = DoItemRemove(n, x)
    BY <1>1 DEF DoItemUnlink, Unlinked
  <2>2. /\ n.slots = g.slots
        /\ n.item = [g.item EXCEPT ![x] = [g.item[x] EXCEPT !.linked = FALSE]]
    BY <1>1 DEF Unlinked, Heap
  <2>3. n.item[x].refcount = 1 /\ n.slots \in Seq(Chunks)
    BY <1>1, <2>2 DEF Heap, Item
  <2>4. Wrap(1 - 1) = 0
    BY ItemStoreAssumption DEF Wrap
  <2>5. "item" \in DOMAIN n /\ "slots" \in DOMAIN n /\ x \in DOMAIN n.item
        /\ "refcount" \in DOMAIN n.item[x]
    BY <1>1 DEF Unlinked, Heap, Item
  <2> HIDE DEF n
  <2>6. Decr(n, x).item[x].refcount = 0 /\ Decr(n, x).slots = n.slots
        /\ "slots" \in DOMAIN Decr(n, x)
    BY <2>3, <2>4, <2>5 DEF Decr
  <2>7. u.slots = Push(n.slots, x)
    BY <2>1, <2>6 DEF DoItemRemove, ItemFree
  <2> QED
    BY <2>3, <2>7, PushFacts
<1> HIDE DEF u
<1>4. TailRepair(h, x) = [u EXCEPT !.damaged = TRUE]
  BY DEF TailRepair, u, g
<1> QED
  BY <1>2, <1>3, <1>4 DEF Damaged, Heap

\* slabs_alloc on a damaged heap with a free chunk.
LEMMA SlabsDamaged ==
  ASSUME NEW h, Damaged(h), h.slots # <<>>, NEW k \in Keys, NEW exptime \in Nat
  PROVE  /\ Damaged(SlabsAlloc(h, k, exptime).h)
         /\ SlabsAlloc(h, k, exptime).it \in Chunks
<1> DEFINE r == SlabsAlloc(h, k, exptime)
           x == Head(h.slots)
           g == [h EXCEPT !.slots = Tail(@), !.item[x] = NewItem(k, exptime)]
<1>1. h \in Heap /\ h.damaged /\ h.slots \in Seq(Chunks)
  BY DEF Damaged, Heap
<1>2. x \in Chunks /\ Tail(h.slots) \in Seq(Chunks)
  BY <1>1, TailFacts
<1>3. r.h = g /\ r.it = x
  BY <1>1 DEF SlabsAlloc, Initialised, Heap
<1>4. NewItem(k, exptime) \in Item
  BY NewItemFacts
<1> HIDE DEF r, x
<1>5. g \in Heap /\ g.damaged
  BY <1>1, <1>2, <1>4 DEF Heap
<1> QED
  BY <1>2, <1>3, <1>5 DEF Damaged, r

-----------------------------------------------------------------------------
(***************************************************************************)
(* do_item_alloc.                                                          *)
(***************************************************************************)

\* What do_item_alloc promises when it did not repair the tail: NULL and nothing
\* changed, or a chunk that nobody held, now the caller's; no item that somebody
\* holds was touched, and no linked one was changed.
Allocated(h, r, held, k) ==
    /\ r.h.damaged = h.damaged
    /\ r.it = Nil => r.h = h
    /\ r.it # Nil => /\ r.it \in Chunks /\ held[r.it] = 0
                     /\ Sound(r.h, Plus(held, r.it))
                     /\ ~r.h.item[r.it].linked /\ r.h.item[r.it].key = k
    /\ \A y \in Chunks : held[y] > 0 => r.h.item[y] = h.item[y]
    /\ Fair(h, r.h, held)

\* slabs_alloc of a sound heap.
LEMMA SlabsSound ==
  ASSUME NEW h, NEW held, Sound(h, held), 3 < RefMod,
         NEW k \in Keys, NEW exptime \in Nat
  PROVE  Allocated(h, SlabsAlloc(h, k, exptime), held, k)
<1> DEFINE r == SlabsAlloc(h, k, exptime)
           x == Head(h.slots)
           m == NewItem(k, exptime)
           g == [h EXCEPT !.slots = Tail(@), !.item[x] = m]
<1>1. CASE h.slots = <<>>
  <2>1. r = [h |-> h, it |-> Nil]
    BY <1>1 DEF SlabsAlloc
  <2>2. Fair(h, h, held)
    BY FairSame DEF Sound
  <2> QED
    BY <2>1, <2>2 DEF Allocated
<1>2. CASE h.slots # <<>>
  <2>1. /\ h \in Heap /\ held \in [Chunks -> Nat] /\ Counts(h, held) /\ FreeList(h)
        /\ LruList(h) /\ HashTable(h) /\ h.slots \in Seq(Chunks) /\ NoDup(h.slots)
        /\ RefMod \in Nat
    BY ItemStoreAssumption DEF Sound, Heap, FreeList
  <2>2. /\ x \in Chunks /\ Tail(h.slots) \in Seq(Chunks) /\ In(h.slots, x)
        /\ NoDup(Tail(h.slots))
        /\ \A y : In(Tail(h.slots), y) <=> (In(h.slots, y) /\ y # x)
    BY <1>2, <2>1, TailFacts
  <2>3. r.h = g /\ r.it = x
    BY <1>2, <2>1 DEF SlabsAlloc, Initialised, Heap
  <2>4. m \in Item /\ m.refcount = 1 /\ ~m.linked /\ m.key = k
    BY NewItemFacts
  <2> HIDE DEF r, x, m
  <2>5. /\ g.slots = Tail(h.slots) /\ g.lru = h.lru /\ g.assoc = h.assoc
        /\ g.damaged = h.damaged /\ g.cas_id = h.cas_id
        /\ \A y \in Chunks : y # x => g.item[y] = h.item[y]
        /\ g.item[x] = m
        /\ g \in Heap
    BY <2>1, <2>2, <2>4 DEF Heap
  <2>6. h.item[x].refcount = 0
    BY <2>1, <2>2 DEF FreeList
  <2>7. ~h.item[x].linked /\ held[x] = 0
    BY <2>1, <2>2, <2>6 DEF Counts, One
  <2> HIDE DEF g
  <2>8. Counts(g, Plus(held, x))
    <3> SUFFICES ASSUME NEW y \in Chunks
                 PROVE  /\ g.item[y].refcount < RefMod
                        /\ g.item[y].refcount = One(g.item[y].linked) + Plus(held, x)[y]
      BY DEF Counts
    <3>1. CASE y = x
      <4>a. Plus(held, x)[x] = held[x] + 1
        BY <2>1, <2>2, PlusFacts
      <4>1. Plus(held, x)[x] = 1 /\ 3 < RefMod
        BY <2>1, <2>7, <4>a
      <4> QED
        BY <2>1, <2>4, <2>5, <3>1, <4>1 DEF One
    <3>2. CASE y # x
      BY <2>1, <2>2, <2>5, <3>2, PlusFacts DEF Counts
    <3> QED
      BY <3>1, <3>2
  <2>9. FreeList(g)
    BY <2>1, <2>2, <2>4, <2>5, <2>6 DEF FreeList
  <2>10. LruList(g)
    BY <2>1, <2>4, <2>5, <2>7 DEF LruList
  <2>11. HashTable(g)
    BY <2>1, <2>4, <2>5, <2>7, HashTableSame DEF SameLinks
  <2>12. Sound(g, Plus(held, x))
    BY <2>1, <2>2, <2>5, <2>8, <2>9, <2>10, <2>11, PlusFacts DEF Sound
  <2>13. x # Nil /\ ~g.item[x].linked /\ g.item[x].key = k
    BY <2>2, <2>4, <2>5, NilFacts
  <2>14. \A y \in Chunks : held[y] > 0 => g.item[y] = h.item[y]
    BY <2>5, <2>7
  <2>a. Fair(h, g, held)
    <3>1. Only(h, g, x)
      BY <2>5 DEF Only
    <3> QED
      BY <2>1, <2>2, <2>7, <2>13, <3>1, FairGone
  <2>15. Allocated(h, r, held, k)
    BY <2>2, <2>3, <2>5, <2>7, <2>12, <2>13, <2>14, <2>a DEF Allocated
  <2> QED
    BY <2>15 DEF r
<1> QED
  BY <1>1, <1>2

\* An item that only the lists refer to becomes the new item.
LEMMA ReclaimSound ==
  ASSUME NEW h, NEW held, Sound(h, held), 3 < RefMod, NEW x \in Chunks,
         h.item[x].linked, held[x] = 0, NEW k \in Keys, NEW exptime \in Nat
  PROVE  Allocated(h, Initialised(Reclaim(h, x), x, k, exptime), held, k)
<1> DEFINE g == Incr(h, x)
           more == Plus(held, x)
           u == DoItemUnlink(g, x)
           m == NewItem(k, exptime)
           f == [u EXCEPT !.item[x] = m]
           r == Initialised(Reclaim(h, x), x, k, exptime)
<1>a. held \in [Chunks -> Nat] /\ h \in Heap /\ RefMod \in Nat
  BY ItemStoreAssumption DEF Sound
<1>1. Room(h, x) /\ held \in [Chunks -> Nat]
  BY <1>a DEF Sound, Counts, One, Room
<1>2. more[x] = 1 /\ more \in [Chunks -> Nat]
  BY <1>a, PlusFacts
<1>3. Sound(g, more) /\ Only(h, g, x)
  BY <1>1, IncrSound
<1> HIDE DEF g, more
<1>4. Sound(u, more) /\ Only(g, u, x) /\ ~u.item[x].linked
  BY <1>1, <1>2, <1>3, UnlinkSound
<1>5. m \in Item /\ ~m.linked /\ m.key = k
  BY NewItemFacts
<1> HIDE DEF u
<1>6. Sound(f, more) /\ Only(u, f, x) /\ f.item[x] = m
  BY <1>2, <1>4, FreshSound
<1>7. r.h = f /\ r.it = x
  <2>1. u \in Heap /\ u.item[x] \in Item
    BY <1>4 DEF Sound, Heap
  <2>2. [Decr(u, x) EXCEPT !.item[x] = m] = f
    BY <2>1 DEF Decr, Heap
  <2> QED
    BY <2>2 DEF Initialised, Reclaim, u, g
<1> HIDE DEF f, m, r
<1>8. /\ f.damaged = h.damaged
      /\ \A y \in Chunks : held[y] > 0 => f.item[y] = h.item[y]
  BY <1>3, <1>4, <1>6 DEF Only
<1>9. x # Nil /\ Sound(f, Plus(held, x)) /\ ~f.item[x].linked /\ f.item[x].key = k
  BY <1>5, <1>6, NilFacts DEF more
<1>b. Fair(h, f, held)
  <2>1. Only(h, f, x)
    BY <1>3, <1>4, <1>6 DEF Only
  <2> QED
    BY <1>a, <1>9, <2>1, FairGone
<1>10. Allocated(h, r, held, k)
  BY <1>7, <1>8, <1>9, <1>b DEF Allocated
<1> QED
  BY <1>10 DEF r

\* do_item_alloc: it repaired the tail, or kept its promise.
LEMMA AllocSound ==
  ASSUME NEW h, NEW held, Sound(h, held), 3 < RefMod, NEW k \in Keys,
         NEW exptime \in Nat, NEW cur
  PROVE  LET r == DoItemAlloc(h, k, exptime, cur)
         IN  \/ Damaged(r.h) /\ r.it \in Chunks
             \/ Allocated(h, r, held, k)
<1> DEFINE r == DoItemAlloc(h, k, exptime, cur)
           x == Search(h, cur)
<1>1. h \in Heap /\ held \in [Chunks -> Nat]
  BY DEF Sound
<1>2. CASE x = Nil
  <2>1. r = SlabsAlloc(h, k, exptime)
    BY <1>2 DEF DoItemAlloc
  <2> QED
    BY <2>1, SlabsSound
<1>3. CASE x # Nil
  <2>1. x \in Chunks /\ In(h.lru, x)
    BY <1>1, <1>3, SearchFacts
  <2>2. h.item[x].linked
    BY <2>1 DEF Sound, LruList
  <2> HIDE DEF x
  <2>3. CASE h.item[x].refcount # 1
    <3>1. r = SlabsAlloc(TailRepair(h, x), k, exptime)
      BY <1>3, <2>3 DEF DoItemAlloc, x
    <3>2. Damaged(TailRepair(h, x)) /\ TailRepair(h, x).slots # <<>>
      BY <1>1, <2>1, <2>2, TailRepairDamaged
    <3> QED
      BY <3>1, <3>2, SlabsDamaged
  <2>4. CASE h.item[x].refcount = 1
    <3>1. held[x] = 0
      BY <1>1, <2>1, <2>2, <2>4 DEF Sound, Counts, One
    <3>2. \/ r = Initialised(Reclaim(h, x), x, k, exptime)
          \/ r = SlabsAlloc(h, k, exptime)
          \/ r = [h |-> h, it |-> Nil]
      BY <1>3, <2>4 DEF DoItemAlloc, x
    <3> HIDE DEF r
    <3>3. CASE r = Initialised(Reclaim(h, x), x, k, exptime)
      <4>1. Allocated(h, r, held, k)
        BY <2>1, <2>2, <3>1, <3>3, ReclaimSound
      <4> QED
        BY <4>1 DEF r
    <3>4. CASE r = SlabsAlloc(h, k, exptime)
      <4>1. Allocated(h, r, held, k)
        BY <3>4, SlabsSound
      <4> QED
        BY <4>1 DEF r
    <3>5. CASE r = [h |-> h, it |-> Nil]
      <4>a. Fair(h, h, held)
        BY <1>1, FairSame
      <4>1. Allocated(h, r, held, k)
        BY <3>5, <4>a DEF Allocated
      <4> QED
        BY <4>1 DEF r
    <3> QED
      BY <3>2, <3>3, <3>4, <3>5
  <2> QED
    BY <2>3, <2>4
<1> QED
  BY <1>2, <1>3

-----------------------------------------------------------------------------
(***************************************************************************)
(* do_store_item and do_add_delta.                                         *)
(***************************************************************************)

\* An unlinked item takes the place of a linked one with the same key.
LEMMA ReplaceSound ==
  ASSUME NEW h, NEW held, Sound(h, held), NEW x \in Chunks, NEW new \in Chunks,
         h.item[x].linked, held[new] = 1,
         ~h.item[new].linked, h.item[new].key = h.item[x].key,
         h.item[new].val \in Vals, current_time \in Nat
  PROVE  /\ Sound(DoItemReplace(h, x, new), held)
         /\ DoItemReplace(h, x, new).damaged = h.damaged
         /\ \A y \in Chunks : y # x /\ y # new =>
               DoItemReplace(h, x, new).item[y] = h.item[y]
         /\ ~DoItemReplace(h, x, new).item[x].linked
         /\ Fair(h, DoItemReplace(h, x, new), held)
<1> DEFINE u == DoItemUnlink(h, x)
           g == DoItemLink(u, new)
<1>1. /\ Sound(u, held) /\ Only(h, u, x) /\ u.assoc[h.item[x].key] = <<>>
      /\ ~u.item[x].linked /\ Fair(h, u, held)
  BY UnlinkSound
<1>2. h.item[x].key \in Keys
  BY DEF Sound, HashTable
<1>3. x # new
  OBVIOUS
<1> HIDE DEF u
<1>4. u.item[new] = h.item[new] /\ \A y \in Chunks : y # x => u.item[y] = h.item[y]
  BY <1>1, <1>3 DEF Only
<1>5. /\ Sound(g, held) /\ g.damaged = u.damaged
      /\ \A y \in Chunks : y # new => g.item[y] = u.item[y]
  BY <1>1, <1>2, <1>4, LinkSound
<1>a. \A busy : Fair(u, g, busy)
  <2>1. /\ held[new] = 1 /\ ~u.item[new].linked /\ u.item[new].key \in Keys
        /\ u.item[new].val \in Vals /\ u.assoc[u.item[new].key] = <<>>
    BY <1>1, <1>2, <1>4
  <2> QED
    BY <1>1, <2>1, LinkSound
<1>6. DoItemReplace(h, x, new) = g
  BY DEF DoItemReplace, u
<1> HIDE DEF g
<1>7. Fair(h, g, held)
  BY <1>1, <1>5, <1>a, FairTwice DEF Sound
<1> QED
  BY <1>1, <1>3, <1>4, <1>5, <1>6, <1>7 DEF Only

\* Replacing on a damaged heap.
LEMMA ReplaceDamaged ==
  ASSUME NEW h, Damaged(h), NEW x \in Chunks, NEW new \in Chunks, current_time \in Nat
  PROVE  Damaged(DoItemReplace(h, x, new))
<1> DEFINE u == DoItemUnlink(h, x)
<1>1. u \in Heap /\ u.damaged
  BY UnlinkType DEF Damaged
<1> HIDE DEF u
<1>2. DoItemLink(u, new) \in Heap /\ DoItemLink(u, new).damaged
  BY <1>1, LinkType
<1> QED
  BY <1>2 DEF DoItemReplace, Damaged, u

\* A reference that a command took is dropped at its end.
LEMMA DropSound ==
  ASSUME NEW h, NEW held \in [Chunks -> Nat], NEW x \in Chunks, Sound(h, Plus(held, x))
  PROVE  /\ Sound(Drop(h, x), held)
         /\ Only(h, Drop(h, x), x)
         /\ Fair(h, Drop(h, x), held)
<1> DEFINE more == Plus(held, x)
<1>1. Drop(h, x) = DoItemRemove(h, x)
  BY NilFacts DEF Drop
<1>2. more[x] >= 1
  BY PlusFacts
<1>3. Minus(more, x) = held
  BY MinusPlus
<1> HIDE DEF more
<1>4. Sound(h, more)
  BY DEF more
<1>5. Sound(DoItemRemove(h, x), Minus(more, x)) /\ Only(h, DoItemRemove(h, x), x)
  BY <1>2, <1>4, RemoveSound
<1>6. Fair(h, DoItemRemove(h, x), Minus(more, x))
  BY <1>2, <1>4, RemoveFair
<1> QED
  BY <1>1, <1>3, <1>5, <1>6

\* Dropping a reference on a damaged heap.
LEMMA DropDamaged ==
  ASSUME NEW h, NEW x \in Chunks \cup {Nil}, Damaged(h)
  PROVE  Damaged(Drop(h, x))
  BY RemoveDamaged DEF Drop

\* The items that others are uploading are left alone.
Keeps(h, g, held, x) ==
    \A y \in Chunks : y # x /\ held[y] >= 1 /\ ~h.item[y].linked => g.item[y] = h.item[y]

\* What a command leaves behind.
Done(h, g, held, x) ==
    \/ Damaged(g)
    \/ /\ Sound(g, held) /\ g.damaged = h.damaged /\ Keeps(h, g, held, x)
       /\ Fair(h, g, held)

\* The new version of an item, made with do_item_alloc while the command holds the
\* old one, replaces it (append and incr).
Renewed(h, held, old, k, exptime, cur, v) ==
    LET new == DoItemAlloc(h, k, exptime, cur)
        made == [new.h EXCEPT !.item[new.it].val = v]
        g == DoItemReplace(made, old, new.it)
    IN  /\ new.it = Nil => \/ Damaged(Drop(new.h, old))
                           \/ Drop(new.h, old) = Drop(h, old)
        /\ new.it # Nil =>
              /\ new.it \in Chunks
              /\ \/ Damaged(g)
                 \/ /\ Sound(g, Plus(Plus(held, old), new.it))
                    /\ new.it # old /\ held[new.it] = 0
                    /\ g.damaged = h.damaged
                    /\ ~g.item[old].linked /\ Fair(h, g, held)
                    /\ \A y \in Chunks : held[y] >= 1 /\ y # old => g.item[y] = h.item[y]

\* Renewed holds of every linked item that the command holds.
LEMMA RenewSound ==
  ASSUME NEW h, NEW held, NEW old \in Chunks, Sound(h, Plus(held, old)),
         held \in [Chunks -> Nat], h.item[old].linked,
         NEW k \in Keys, h.item[old].key = k, NEW exptime \in Nat, NEW cur,
         NEW v \in Vals, current_time \in Nat
  PROVE  Renewed(h, held, old, k, exptime, cur, v)
<1> DEFINE new == DoItemAlloc(h, k, exptime, cur)
           it == new.it
           made == [new.h EXCEPT !.item[it].val = v]
           g == DoItemReplace(made, old, it)
           more == Plus(held, old)
<1>1. \A y \in Chunks : held[y] \in Nat
  OBVIOUS
<1>2. /\ more \in [Chunks -> Nat] /\ more[old] = held[old] + 1
      /\ \A y \in Chunks : y # old => more[y] = held[y]
  BY PlusFacts
<1>a. 3 < RefMod /\ h \in Heap
  BY ItemStoreAssumption DEF Sound
<1> HIDE DEF more
<1>3. \/ Damaged(new.h) /\ it \in Chunks
      \/ Allocated(h, new, more, k)
  BY <1>a, AllocSound DEF more
<1>4. CASE Damaged(new.h) /\ it \in Chunks
  <2> HIDE DEF new, it
  <2>1. Damaged(Drop(new.h, old))
    BY <1>4, DropDamaged
  <2>2. ASSUME it # Nil PROVE Damaged(g) /\ it \in Chunks
    <3>1. Damaged(made)
      <4>1. new.h \in Heap /\ new.h.damaged /\ it \in Chunks
        BY <1>4, <2>2 DEF Damaged
      <4>2. new.h.item[it] \in Item
        BY <4>1 DEF Heap
      <4>3. [new.h.item[it] EXCEPT !.val = v] \in Item
        BY <4>2 DEF Item
      <4> QED
        BY <4>1, <4>3 DEF Damaged, Heap
    <3> HIDE DEF made
    <3> QED
      BY <1>4, <2>2, <3>1, ReplaceDamaged
  <2> QED
    BY <2>1, <2>2 DEF new, it, Renewed
<1>5. CASE Allocated(h, new, more, k)
  <2> HIDE DEF new
  <2>1. it = Nil => Drop(new.h, old) = Drop(h, old)
    BY <1>5 DEF Allocated
  <2>2. ASSUME it # Nil
        PROVE  /\ it \in Chunks /\ it # old /\ held[it] = 0
               /\ Sound(g, Plus(more, it))
               /\ g.damaged = h.damaged
               /\ ~g.item[old].linked /\ Fair(h, g, held)
               /\ \A y \in Chunks : held[y] >= 1 /\ y # old => g.item[y] = h.item[y]
    <3> DEFINE most == Plus(more, it)
               m == [new.h.item[it] EXCEPT !.val = v]
    <3>1. /\ it \in Chunks /\ more[it] = 0 /\ Sound(new.h, most)
          /\ ~new.h.item[it].linked /\ new.h.item[it].key = k
          /\ new.h.damaged = h.damaged
          /\ \A y \in Chunks : more[y] > 0 => new.h.item[y] = h.item[y]
          /\ Fair(h, new.h, more)
      BY <1>5, <2>2 DEF Allocated
    <3>2. it # old /\ held[it] = 0
      BY <1>1, <1>2, <3>1
    <3>3. most[it] = 1 /\ most[old] = held[old] + 1
      BY <1>2, <3>1, <3>2, PlusFacts
    <3> HIDE DEF it
    <3>4. /\ m \in Item /\ m.refcount = new.h.item[it].refcount
          /\ m.linked = new.h.item[it].linked /\ m.key = new.h.item[it].key
          /\ m.val = v
      <4>1. new.h.item[it] \in Item
        BY <3>1 DEF Sound, Heap
      <4> QED
        BY <4>1 DEF Item
    <3>5. made = [new.h EXCEPT !.item[it].val = v]
      OBVIOUS
    <3> DEFINE f == new.h
    <3> HIDE DEF made, f, most, m
    <3>a. Sound(f, most) /\ ~f.item[it].linked
      BY <3>1 DEF f
    <3>c. made = [f EXCEPT !.item[it].val = v]
      BY <3>5 DEF f
    <3>e. Sound(made, most) /\ Only(f, made, it)
      BY <3>1, <3>a, <3>c, ValueSound
    <3>d. made.item[it] = [f.item[it] EXCEPT !.val = v]
      BY <3>1, <3>a, <3>c DEF Sound, Heap
    <3>6. /\ Sound(made, most) /\ Only(new.h, made, it) /\ made.item[it] = m
      BY <3>d, <3>e DEF f, m
    <3>7. made.item[old] = h.item[old]
      BY <1>1, <1>2, <3>1, <3>2, <3>6 DEF Only
    <3>8. most[it] = 1
      BY <3>3
    <3>9. /\ Sound(g, most) /\ g.damaged = made.damaged
          /\ \A y \in Chunks : y # old /\ y # it => g.item[y] = made.item[y]
          /\ ~g.item[old].linked /\ Fair(made, g, most)
      BY <3>1, <3>4, <3>6, <3>7, <3>8, ReplaceSound
    <3> HIDE DEF g
    <3>10. g.damaged = h.damaged
      BY <3>1, <3>6, <3>9 DEF Only
    <3>11. ASSUME NEW y \in Chunks, held[y] >= 1, y # old PROVE g.item[y] = h.item[y]
      <4>1. y # it /\ more[y] > 0
        BY <1>1, <1>2, <3>2, <3>11
      <4> QED
        BY <3>1, <3>6, <3>9, <3>11, <4>1 DEF Only
    <3>12. Fair(h, g, held)
      <4>1. \A y \in Chunks : held[y] >= 1 => more[y] >= 1 /\ most[y] >= 1
        <5>1. \A y \in Chunks : y # it => most[y] = more[y]
          BY <1>2, <3>1, PlusFacts DEF most
        <5> QED
          BY <1>1, <1>2, <3>2, <3>3, <5>1
      <4>2. Fair(h, f, held)
        BY <3>1, <4>1, FairFewer DEF f
      <4>3. Fair(f, made, held)
        <5>1. ~made.item[it].linked /\ f \in Heap /\ Only(f, made, it)
          BY <3>4, <3>6, <3>a DEF Sound, f
        <5> QED
          BY <3>1, <3>2, <5>1, FairGone
      <4>4. Fair(made, g, held)
        BY <3>9, <4>1, FairFewer
      <4>5. f \in Heap /\ made \in Heap /\ g \in Heap
        BY <3>6, <3>9, <3>a DEF Sound
      <4>6. Fair(h, made, held)
        BY <1>a, <4>2, <4>3, <4>5, FairTwice
      <4> QED
        BY <1>a, <4>4, <4>5, <4>6, FairTwice
    <3> QED
      BY <3>1, <3>2, <3>9, <3>10, <3>11, <3>12 DEF most
  <2> QED
    BY <2>1, <2>2 DEF new, more, Renewed
<1> QED
  BY <1>3, <1>4, <1>5 DEF Renewed

\* References are counted in any order.
LEMMA PlusPlus ==
  ASSUME NEW held \in [Chunks -> Nat], NEW x \in Chunks, NEW y \in Chunks, x # y
  PROVE  Plus(Plus(held, x), y) = Plus(Plus(held, y), x)
<1> DEFINE f == Plus(Plus(held, x), y)
           g == Plus(Plus(held, y), x)
<1>1. /\ f = [held EXCEPT ![x] = @ + 1, ![y] = @ + 1]
      /\ g = [held EXCEPT ![y] = @ + 1, ![x] = @ + 1]
  BY DEF Plus
<1>2. f \in [Chunks -> Nat] /\ g \in [Chunks -> Nat]
  BY <1>1
<1>3. \A z \in Chunks : f[z] = g[z]
  BY <1>1
<1> HIDE DEF f, g
<1>4. f = g
  BY <1>2, <1>3
<1> QED
  BY <1>4 DEF f, g

\* do_store_item: the uploaded item is linked or not, the references are the ones
\* there were, and the uploads of others are untouched, unless the tail was repaired.
LEMMA StoreItemSound ==
  ASSUME NEW h, NEW held, Sound(h, held), NEW x \in Chunks, held[x] = 1,
         ~h.item[x].linked, h.item[x].key \in Keys, Countable(h, h.item[x].key),
         h.item[x].val \in Vals, NEW comm, current_time \in Nat
  PROVE  Done(h, DoStoreItem(h, x, comm).h, held, x)
<1> DEFINE m   == h.item[x]
           k   == m.key
           got == DoItemGet(h, k)
           f   == got.h
           old == got.it
           v   == Join(f.item[old].val, m.val)
           e   == f.item[old].exptime
           new == DoItemAlloc(f, k, e, k)
           made == [new.h EXCEPT !.item[new.it].val = v]
           stored == Drop(Store(f, old, x), old)
           r   == DoStoreItem(h, x, comm)
<1>1. held \in [Chunks -> Nat] /\ RefMod \in Nat
  BY ItemStoreAssumption DEF Sound
<1>2. /\ old = Nil => Sound(f, held) /\ f.assoc[k] = <<>>
      /\ old # Nil => /\ old \in Chunks /\ Sound(f, Plus(held, old))
                      /\ f.item[old].linked /\ f.item[old].key = k
      /\ f.damaged = h.damaged
      /\ \A y \in Chunks : ~h.item[y].linked => f.item[y] = h.item[y]
      /\ Fair(h, f, held)
  BY GetSound
<1>b. h \in Heap /\ f \in Heap
  BY <1>2 DEF Sound
<1>3. \/ r.h = stored
      \/ old = Nil /\ r.h = f
      \/ old # Nil /\ r.h = Drop(DoItemUpdate(f, old), old)
      \/ old # Nil /\ r.h = Drop(f, old)
      \/ old # Nil /\ new.it = Nil /\ r.h = Drop(new.h, old)
      \/ old # Nil /\ new.it # Nil
                   /\ r.h = Drop(Drop(DoItemReplace(made, old, new.it), old), new.it)
  BY DEF DoStoreItem
<1> HIDE DEF got, r
<1>4. f.item[x] = m /\ f.item[x].key = k
  BY <1>2
<1>5. CASE old = Nil /\ r.h = f
  BY <1>2, <1>5 DEF Done, Keeps, r
<1>6. CASE old = Nil /\ r.h = stored
  <2>1. stored = DoItemLink(f, x)
    BY <1>6 DEF Store, Drop
  <2> HIDE DEF f
  <2>2. /\ Sound(DoItemLink(f, x), held) /\ DoItemLink(f, x).damaged = f.damaged
        /\ \A y \in Chunks : y # x => DoItemLink(f, x).item[y] = f.item[y]
    BY <1>2, <1>4, <1>6, LinkSound
  <2>a. \A busy : Fair(f, DoItemLink(f, x), busy)
    BY <1>2, <1>4, <1>6, LinkSound
  <2>b. Fair(h, DoItemLink(f, x), held)
    BY <1>2, <1>b, <2>2, <2>a, FairTwice DEF Sound
  <2>3. Done(h, DoItemLink(f, x), held, x)
    BY <1>2, <2>2, <2>b DEF Done, Keeps
  <2> QED
    BY <1>6, <2>1, <2>3 DEF r
<1>7. ASSUME old # Nil
      PROVE  \A g : /\ Sound(g, Plus(held, old)) /\ g.damaged = h.damaged
                    /\ \A y \in Chunks : y # x /\ held[y] >= 1 /\ ~h.item[y].linked =>
                          g.item[y] = h.item[y]
                    /\ Fair(f, g, held)
                    => Done(h, Drop(g, old), held, x)
  <2> SUFFICES ASSUME NEW g, Sound(g, Plus(held, old)), g.damaged = h.damaged,
                      \A y \in Chunks : y # x /\ held[y] >= 1 /\ ~h.item[y].linked =>
                          g.item[y] = h.item[y],
                      Fair(f, g, held)
               PROVE  Done(h, Drop(g, old), held, x)
    OBVIOUS
  <2>1. /\ Sound(Drop(g, old), held) /\ Only(g, Drop(g, old), old)
        /\ Fair(g, Drop(g, old), held)
    BY <1>1, <1>2, <1>7, DropSound
  <2>3. Fair(h, Drop(g, old), held)
    <3>1. g \in Heap /\ Drop(g, old) \in Heap
      BY <2>1 DEF Sound
    <3>2. Fair(h, g, held)
      BY <1>2, <1>b, <3>1, FairTwice
    <3> QED
      BY <1>b, <2>1, <3>1, <3>2, FairTwice
  <2>2. \A y \in Chunks : ~h.item[y].linked => y # old
    BY <1>2, <1>7
  <2> QED
    BY <2>1, <2>2, <2>3 DEF Done, Keeps, Only
<1>c. ASSUME old # Nil, NEW y \in Chunks, held[y] >= 1
      PROVE  Plus(held, old)[y] >= 1
  <2> DEFINE o == old
  <2>1. o \in Chunks
    BY <1>2, <1>c
  <2> HIDE DEF o
  <2>2. Plus(held, o)[y] = held[y] \/ Plus(held, o)[y] = held[y] + 1
    BY <1>1, <2>1, PlusFacts
  <2>3. held[y] \in Nat
    BY <1>1
  <2>4. Plus(held, o)[y] >= 1
    BY <1>c, <2>2, <2>3
  <2> QED
    BY <2>4 DEF o
<1>8. CASE old # Nil /\ r.h = stored
  <2> DEFINE more == Plus(held, old)
             g == DoItemReplace(f, old, x)
  <2>1. stored = Drop(g, old)
    BY <1>8 DEF Store
  <2>2. more[old] = held[old] + 1 /\ old # x /\ more[x] = held[x]
    BY <1>1, <1>2, <1>4, <1>8, PlusFacts
  <2> HIDE DEF f, old, more
  <2>a. Sound(f, more)
    BY <1>2, <1>8 DEF more
  <2>4. /\ Sound(g, more) /\ g.damaged = f.damaged
        /\ \A y \in Chunks : y # old /\ y # x => g.item[y] = f.item[y]
        /\ Fair(f, g, more)
    BY <1>2, <1>4, <1>8, <2>2, <2>a, ReplaceSound
  <2>b. Fair(f, g, held)
    BY <1>8, <1>c, <2>4, FairFewer DEF more
  <2> HIDE DEF g
  <2>5. \A y \in Chunks : ~h.item[y].linked => y # old
    BY <1>2, <1>8
  <2>6. Done(h, Drop(g, old), held, x)
    BY <1>2, <1>7, <1>8, <2>4, <2>5, <2>b DEF more
  <2> QED
    BY <1>8, <2>1, <2>6 DEF r
<1>9. CASE old # Nil /\ r.h = Drop(DoItemUpdate(f, old), old)
  <2> DEFINE g == DoItemUpdate(f, old)
  <2> HIDE DEF f, old
  <2>1. Sound(g, Plus(held, old)) /\ Only(f, g, old)
    BY <1>2, <1>9, UpdateSound
  <2>a. \A busy : Fair(f, g, busy)
    BY <1>2, <1>9, UpdateSound
  <2>2. \A y \in Chunks : ~h.item[y].linked => y # old
    BY <1>2, <1>9
  <2> HIDE DEF g
  <2>3. Done(h, Drop(g, old), held, x)
    BY <1>2, <1>7, <1>9, <2>1, <2>2, <2>a DEF Only
  <2> QED
    BY <1>9, <2>3 DEF r, g
<1>d. Fair(f, f, held)
  BY <1>b, FairSame
<1>10. CASE old # Nil /\ r.h = Drop(f, old)
  <2>1. Done(h, Drop(f, old), held, x)
    BY <1>2, <1>7, <1>10, <1>d
  <2> QED
    BY <1>10, <2>1 DEF r
<1>11. CASE old # Nil /\ \/ new.it = Nil /\ r.h = Drop(new.h, old)
                         \/ new.it # Nil
                            /\ r.h = Drop(Drop(DoItemReplace(made, old, new.it), old), new.it)
  <2> DEFINE g == DoItemReplace(made, old, new.it)
             more == Plus(held, old)
  <2>1. v \in Vals
    <3>1. f.item[old].val \in Vals
      BY <1>2, <1>11 DEF Sound, HashTable
    <3> QED
      BY <3>1, ItemStoreAssumption
  <2>2. e \in Nat
    BY <1>2, <1>11 DEF Sound, Heap, Item
  <2>a. k \in Keys
    OBVIOUS
  <2> HIDE DEF v, e, f, old, k
  <2>b. /\ old \in Chunks /\ Sound(f, Plus(held, old)) /\ f.item[old].linked
        /\ f.item[old].key = k /\ held \in [Chunks -> Nat]
    BY <1>1, <1>2, <1>11
  <2>c. Renewed(f, held, old, k, e, k, v)
    BY <2>1, <2>2, <2>a, <2>b, RenewSound
  <2>3. /\ new.it = Nil => \/ Damaged(Drop(new.h, old))
                           \/ Drop(new.h, old) = Drop(f, old)
        /\ new.it # Nil =>
              /\ new.it \in Chunks
              /\ \/ Damaged(g)
                 \/ /\ Sound(g, Plus(Plus(held, old), new.it))
                    /\ new.it # old /\ held[new.it] = 0
                    /\ g.damaged = f.damaged /\ Fair(f, g, held)
                    /\ \A y \in Chunks : held[y] >= 1 /\ y # old => g.item[y] = f.item[y]
    BY <2>c DEF Renewed
  <2> HIDE DEF new, g
  <2>4. CASE new.it = Nil
    <3>1. Done(h, Drop(new.h, old), held, x)
      BY <1>2, <1>7, <1>11, <1>d, <2>3, <2>4 DEF Done
    <3> QED
      BY <1>11, <2>4, <3>1 DEF r, g
  <2>5. CASE new.it # Nil
    <3> DEFINE it == new.it
               d == Drop(g, old)
    <3>1. it \in Chunks /\ r.h = Drop(d, it)
      BY <1>11, <2>3, <2>5 DEF g
    <3>2. CASE Damaged(g)
      <4>1. Damaged(Drop(d, it))
        BY <1>2, <1>11, <3>1, <3>2, DropDamaged
      <4> QED
        BY <3>1, <4>1 DEF Done, r
    <3>3. CASE ~Damaged(g)
      <4>1. /\ Sound(g, Plus(more, it)) /\ it # old /\ held[it] = 0
            /\ g.damaged = f.damaged /\ Fair(f, g, held)
            /\ \A y \in Chunks : held[y] >= 1 /\ y # old => g.item[y] = f.item[y]
        BY <2>3, <2>5, <3>3
      <4>2. Plus(more, it) = Plus(Plus(held, it), old) /\ Plus(held, it) \in [Chunks -> Nat]
        BY <1>1, <1>2, <1>11, <3>1, <4>1, PlusPlus, PlusFacts
      <4> DEFINE most == Plus(held, it)
      <4> HIDE DEF most, it, d
      <4>3. Sound(g, Plus(most, old)) /\ most \in [Chunks -> Nat]
        BY <4>1, <4>2 DEF most
      <4>4. Sound(d, most) /\ Only(g, d, old) /\ Fair(g, d, most)
        BY <1>2, <1>11, <4>3, DropSound DEF d
      <4>5. Sound(Drop(d, it), held) /\ Only(d, Drop(d, it), it) /\ Fair(d, Drop(d, it), held)
        BY <1>1, <3>1, <4>4, DropSound DEF most
      <4>a. Fair(h, Drop(d, it), held)
        <5>1. g \in Heap /\ d \in Heap /\ Drop(d, it) \in Heap
          BY <4>1, <4>4, <4>5 DEF Sound
        <5>2. \A y \in Chunks : held[y] >= 1 => most[y] >= 1
          BY <1>1, <3>1, PlusFacts DEF most
        <5>3. Fair(g, d, held)
          BY <4>4, <5>2, FairFewer
        <5>4. Fair(h, g, held)
          BY <1>2, <1>b, <4>1, <5>1, FairTwice
        <5>5. Fair(h, d, held)
          BY <1>b, <5>1, <5>3, <5>4, FairTwice
        <5> QED
          BY <1>b, <4>5, <5>1, <5>5, FairTwice
      <4>6. \A y \in Chunks : ~h.item[y].linked => y # old
        BY <1>2, <1>11
      <4>7. Keeps(h, Drop(d, it), held, x)
        <5> SUFFICES ASSUME NEW y \in Chunks, held[y] >= 1, ~h.item[y].linked
                     PROVE  Drop(d, it).item[y] = h.item[y]
          BY DEF Keeps
        <5>1. y # old /\ y # it
          BY <4>1, <4>6
        <5> QED
          BY <1>2, <4>1, <4>4, <4>5, <5>1 DEF Only
      <4>8. Done(h, Drop(d, it), held, x)
        BY <1>2, <4>1, <4>4, <4>5, <4>7, <4>a DEF Done, Only
      <4> QED
        BY <3>1, <4>8 DEF r
    <3> QED
      BY <3>2, <3>3
  <2> QED
    BY <2>4, <2>5
<1> QED
  BY <1>3, <1>5, <1>6, <1>8, <1>9, <1>10, <1>11

\* do_add_delta: as do_store_item, with no upload of its own.  It never changes a
\* value in place, since it holds the item itself.
LEMMA AddDeltaSound ==
  ASSUME NEW h, NEW held, Sound(h, held), NEW k \in Keys, Countable(h, k),
         current_time \in Nat
  PROVE  Done(h, DoAddDelta(h, k).h, held, Nil)
<1> DEFINE got == DoItemGet(h, k)
           f   == got.h
           it  == got.it
           v   == f.item[it].val
           w   == Bump(v)
           e   == f.item[it].exptime
           new == DoItemAlloc(f, k, e, k)
           made == [new.h EXCEPT !.item[new.it].val = w]
           g   == DoItemReplace(made, it, new.it)
           c   == ReplaceBumped(made, it, new.it)
           r   == DoAddDelta(h, k)
<1>c. c = ReplaceBumped(made, it, new.it)
  OBVIOUS
<1> HIDE DEF c
<1>1. held \in [Chunks -> Nat] /\ RefMod \in Nat
  BY ItemStoreAssumption DEF Sound
<1>2. /\ it = Nil => Sound(f, held)
      /\ it # Nil => /\ it \in Chunks /\ Sound(f, Plus(held, it))
                     /\ f.item[it].linked /\ f.item[it].key = k
      /\ f.damaged = h.damaged
      /\ \A y \in Chunks : ~h.item[y].linked => f.item[y] = h.item[y]
      /\ Fair(h, f, held)
  BY GetSound
<1>b. h \in Heap /\ f \in Heap
  BY <1>2 DEF Sound
<1>3. it # Nil => ~AddDeltaInPlace(f.item[it])
  <2> SUFFICES ASSUME it # Nil PROVE f.item[it].refcount # 1
    BY DEF AddDeltaInPlace
  <2> DEFINE more == Plus(held, it)
  <2>1. more[it] = held[it] + 1 /\ held[it] \in Nat
    BY <1>1, <1>2, PlusFacts
  <2> HIDE DEF more
  <2>2. Counts(f, more) /\ f.item[it].linked /\ it \in Chunks
    BY <1>2 DEF Sound, more
  <2>3. f.item[it].refcount = 1 + more[it]
    BY <2>2 DEF Counts, One
  <2> QED
    BY <2>1, <2>3
<1>4. \/ it = Nil /\ r.h = f
      \/ it # Nil /\ r.h = Drop(f, it)
      \/ it # Nil /\ v \in Numeric /\ new.it = Nil /\ r.h = Drop(new.h, it)
      \/ it # Nil /\ v \in Numeric /\ new.it # Nil /\ r.h = Drop(Drop(c, new.it), it)
  <2>1. CASE it = Nil
    BY <2>1 DEF DoAddDelta
  <2>2. CASE it # Nil /\ v \notin Numeric
    BY <2>2 DEF DoAddDelta
  <2>3. CASE it # Nil /\ v \in Numeric /\ new.it = Nil
    BY <1>3, <2>3 DEF DoAddDelta
  <2>4. CASE it # Nil /\ v \in Numeric /\ new.it # Nil
    <3>1. ~AddDeltaInPlace(f.item[it])
      BY <1>3, <2>4
    <3>2. r.h = Drop(Drop(c, new.it), it)
      BY <3>1, <2>4, ZenonT(60) DEF DoAddDelta, c
    <3> QED
      BY <2>4, <3>2
  <2> QED
    BY <2>1, <2>2, <2>3, <2>4
<1> HIDE DEF got, r
<1>5. CASE it = Nil /\ r.h = f
  BY <1>2, <1>5 DEF Done, Keeps, r
<1>6. ASSUME it # Nil PROVE Done(h, Drop(f, it), held, Nil)
  <2>1. /\ Sound(Drop(f, it), held) /\ Only(f, Drop(f, it), it)
        /\ Fair(f, Drop(f, it), held)
    BY <1>1, <1>2, <1>6, DropSound
  <2>3. Fair(h, Drop(f, it), held)
    BY <1>2, <1>b, <2>1, FairTwice DEF Sound
  <2>2. \A y \in Chunks : ~h.item[y].linked => y # it
    BY <1>2, <1>6
  <2> QED
    BY <1>2, <2>1, <2>2, <2>3 DEF Done, Keeps, Only
<1>7. CASE it # Nil /\ r.h = Drop(f, it)
  BY <1>6, <1>7 DEF r
<1>8. CASE it # Nil /\ v \in Numeric /\ \/ new.it = Nil /\ r.h = Drop(new.h, it)
                                        \/ new.it # Nil /\ r.h = Drop(Drop(c, new.it), it)
  <2>1. w \in Vals
    BY <1>8, ItemStoreAssumption
  <2>2. e \in Nat
    BY <1>2, <1>8 DEF Sound, Heap, Item
  <2>3. /\ it \in Chunks /\ Sound(f, Plus(held, it)) /\ f.item[it].linked
        /\ f.item[it].key = k /\ held \in [Chunks -> Nat]
    BY <1>1, <1>2, <1>8
  <2> HIDE DEF w, e, f, it
  <2>4. Renewed(f, held, it, k, e, k, w)
    BY <2>1, <2>2, <2>3, RenewSound
  <2>5. /\ new.it = Nil => \/ Damaged(Drop(new.h, it))
                           \/ Drop(new.h, it) = Drop(f, it)
        /\ new.it # Nil =>
              /\ new.it \in Chunks
              /\ \/ Damaged(g)
                 \/ /\ Sound(g, Plus(Plus(held, it), new.it))
                    /\ new.it # it /\ held[new.it] = 0
                    /\ g.damaged = f.damaged
                    /\ ~g.item[it].linked /\ Fair(f, g, held)
                    /\ \A y \in Chunks : held[y] >= 1 /\ y # it => g.item[y] = f.item[y]
    BY <2>4 DEF Renewed
  <2>b. c = [g EXCEPT !.item[it].cas = g.item[new.it].cas]
    BY <1>c DEF ReplaceBumped
  <2> HIDE DEF new, g
  <2>6. CASE new.it = Nil
    <3>1. Done(h, Drop(new.h, it), held, Nil)
      BY <1>6, <1>8, <2>5, <2>6 DEF Done
    <3> QED
      BY <1>8, <2>6, <3>1 DEF r
  <2>7. CASE new.it # Nil
    <3> DEFINE n == new.it
               d == Drop(c, n)
               m == [g.item[it] EXCEPT !.cas = g.item[n].cas]
               more == Plus(held, it)
    <3>1. n \in Chunks /\ r.h = Drop(d, it)
      BY <1>8, <2>5, <2>7
    <3>a. g \in Heap
      BY <2>5, <2>7 DEF Damaged, Sound
    <3> HIDE DEF n
    <3>b. /\ m \in Item /\ m.refcount = g.item[it].refcount
          /\ m.linked = g.item[it].linked /\ m.key = g.item[it].key
          /\ m.val = g.item[it].val
      <4>1. g.item[it] \in Item /\ g.item[n].cas \in Nat
        BY <2>3, <3>1, <3>a DEF Heap, Item
      <4> QED
        BY <4>1 DEF Item
    <3>c. c = [g EXCEPT !.item[it] = m]
      BY <2>b, <3>a DEF n, Heap
    <3> HIDE DEF m
    <3>2. CASE Damaged(g)
      <4>1. Damaged(c)
        BY <2>3, <3>2, <3>b, <3>c DEF Damaged, Heap
      <4>2. Damaged(Drop(d, it))
        BY <2>3, <3>1, <4>1, DropDamaged
      <4> QED
        BY <3>1, <4>2 DEF Done, r
    <3>3. CASE ~Damaged(g)
      <4>1. /\ Sound(g, Plus(more, n)) /\ n # it /\ held[n] = 0
            /\ g.damaged = f.damaged
            /\ ~g.item[it].linked /\ Fair(f, g, held)
            /\ \A y \in Chunks : held[y] >= 1 /\ y # it => g.item[y] = f.item[y]
        BY <2>5, <2>7, <3>3 DEF n
      <4>2. more \in [Chunks -> Nat]
        BY <2>3, PlusFacts
      <4> HIDE DEF d, more
      <4>a. Sound(c, Plus(more, n)) /\ Only(g, c, it) /\ c.item[it] = m
        <5>1. Sound(c, Plus(more, n)) /\ Only(g, c, it)
          BY <2>3, <3>b, <3>c, <4>1, RewriteSound
        <5>2. c.item[it] = m
          BY <2>3, <3>a, <3>c DEF Heap
        <5> QED
          BY <5>1, <5>2
      <4>b. Fair(g, c, held)
        <5>1. \A y \in Chunks : /\ c.item[y].key = g.item[y].key
                                /\ c.item[y].val = g.item[y].val
                                /\ y # it => c.item[y] = g.item[y]
          BY <3>b, <4>a DEF Only
        <5>2. ~c.item[it].linked /\ c.cas_id = g.cas_id /\ g.cas_id \in Nat
          BY <3>a, <3>b, <4>1, <4>a DEF Only, Heap
        <5>3. Newer(g, c)
          BY <5>1, <5>2 DEF Newer
        <5>4. Calm(g, c, held)
          BY <5>1 DEF Calm
        <5> QED
          BY <5>3, <5>4 DEF Fair
      <4>3. Sound(d, more) /\ Only(c, d, n) /\ Fair(c, d, more)
        BY <3>1, <4>2, <4>a, DropSound DEF d
      <4>4. Sound(Drop(d, it), held) /\ Only(d, Drop(d, it), it) /\ Fair(d, Drop(d, it), held)
        BY <2>3, <4>3, DropSound DEF more
      <4>c. Fair(h, Drop(d, it), held)
        <5>1. c \in Heap /\ d \in Heap /\ Drop(d, it) \in Heap
          BY <4>a, <4>3, <4>4 DEF Sound
        <5>2. \A y \in Chunks : held[y] >= 1 => more[y] >= 1
          BY <2>3, PlusFacts DEF more
        <5>3. Fair(c, d, held)
          BY <4>3, <5>2, FairFewer
        <5>4. Fair(h, g, held)
          BY <1>2, <1>b, <3>a, <4>1, FairTwice
        <5>5. Fair(h, c, held)
          BY <1>b, <3>a, <4>b, <5>1, <5>4, FairTwice
        <5>6. Fair(h, d, held)
          BY <1>b, <5>1, <5>3, <5>5, FairTwice
        <5> QED
          BY <1>b, <4>4, <5>1, <5>6, FairTwice
      <4>5. \A y \in Chunks : ~h.item[y].linked => y # it
        BY <1>2, <2>3, <1>8
      <4>6. Keeps(h, Drop(d, it), held, Nil)
        <5> SUFFICES ASSUME NEW y \in Chunks, held[y] >= 1, ~h.item[y].linked
                     PROVE  Drop(d, it).item[y] = h.item[y]
          BY DEF Keeps
        <5>1. y # it /\ y # n
          BY <4>1, <4>5
        <5> QED
          BY <1>2, <4>1, <4>3, <4>4, <4>a, <5>1 DEF Only
      <4>7. Done(h, Drop(d, it), held, Nil)
        BY <1>2, <4>1, <4>3, <4>4, <4>6, <4>a, <4>c DEF Done, Only
      <4> QED
        BY <3>1, <4>7 DEF r
    <3> QED
      BY <3>2, <3>3
  <2> QED
    BY <2>6, <2>7
<1> QED
  BY <1>4, <1>5, <1>7, <1>8

=============================================================================
