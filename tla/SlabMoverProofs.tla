-------------------------- MODULE SlabMoverProofs --------------------------
(***************************************************************************)
(* Safety of the slab rebalancer, for every number of workers, keys, slab  *)
(* classes and pages and every size of them.  What a worker has in hand is *)
(* tied to the chunks by their reference counts and to the place of its    *)
(* command; what the mover has cleared to the way it goes through the page.*)
(***************************************************************************)
EXTENDS SlabMover, Integers, FiniteSetTheorems, SequenceTheorems, WellFoundedInduction, TLAPS

\* What a worker's command o has in hand: the chunks it refers to, the one it
\* has made and not linked, the one it has allocated and not initialised, the
\* one it is about to free.
HasRef(o, h) == o # Idle /\ h \in {o.it, o.old, o.new}
IsNew(o, h) ==
    /\ o # Idle /\ o.do \in {"set", "append"} /\ o.at \notin {"drop", "remove", "removing"}
    /\ h \in {o.it, o.new}
IsRaw(o, h) == o # Idle /\ o.at = "init" /\ h = IF o.old # None THEN o.new ELSE o.it
Frees(o, h) == o # Idle /\ o.free = h

-----------------------------------------------------------------------------
\* Types, also of what is in a worker's hands at each place of a command.
Places == {"alloc", "search", "init", "reading", "store", "remove", "removing", "lock", "get",
           "writing", "delete", "unlink", "link", "drop", "unlock"}
MaybeChunk == Chunks \cup {None}
Command == [do : {"set", "append", "get", "delete"}, key : Keys, cls : Classes, at : Places,
            it : MaybeChunk, old : MaybeChunk, new : MaybeChunk, free : MaybeChunk,
            search : MaybeChunk, tries : Nat, hold : Keys \cup {None}]
Stores(o) == o.do \in {"set", "append"}
Shape(o) ==
    /\ o.at \in {"alloc", "search"} =>
          Stores(o) /\ o.new = None /\ (o.old = None <=> o.it = None)
          /\ (o.old # None => o.do = "append")
    /\ o.at = "init" => Stores(o) /\ o.it # None /\ (o.old = None <=> o.new = None)
                        /\ (o.old # None => o.do = "append")
    /\ o.at \in {"reading", "store"} => Stores(o) /\ o.it # None /\ o.old = None /\ o.new = None
    /\ o.at \in {"remove", "removing", "writing", "delete"} =>
          o.it # None /\ o.old = None /\ o.new = None
    /\ o.at \in {"writing", "delete", "lock"} => ~Stores(o)
    /\ o.at \in {"lock", "unlock"} => o.it = None /\ o.old = None /\ o.new = None
    /\ o.at = "get" => (o.it = None <=> ~Stores(o)) /\ o.old = None /\ o.new = None
    /\ o.at \in {"unlink", "link"} => Stores(o) /\ o.it # None /\ (o.new = None <=> o.do = "set")
    /\ o.at = "unlink" => o.old # None
    /\ o.at = "drop" => Stores(o) /\ o.it # None
    /\ o.free # None => o.at \in {"link", "drop", "unlock"}
OpInv ==
    /\ op \in [Workers -> Command \cup {Idle}]
    /\ \A w \in Workers : op[w] # Idle => Shape(op[w])

Flags == SUBSET {"SLABBED", "LINKED"}
ClassIds == Classes \cup {0, 255}
Item == [flags : Flags, refcount : Int,
         slabs_clsid : ClassIds, key : Keys \cup {None}]
MemoryInv ==
    /\ item \in [Chunks -> Item]
    /\ slots \in [Classes -> Seq(Chunks)]
    /\ lru \in [Classes -> Seq(Chunks)]

\* The pages that have been allocated are the first ones, each in one class.
PageSet == UNION {ToSet(slab_list[c]) : c \in Classes}
PagesInv ==
    /\ slab_list \in [Classes -> Seq(Pages)]
    /\ \A c \in Classes : IsInjective(slab_list[c])
    /\ \A c, d \in Classes : c # d => ToSet(slab_list[c]) \cap ToSet(slab_list[d]) = {}
    /\ \E n \in Nat : PageSet = 1..n
                      /\ n <= MemLimit + Cardinality({c \in Classes : slab_list[c] # <<>>})

\* cache_lock belongs to the worker that searches, or to the mover that is inside
\* slab_rebalance_move().
CacheInv ==
    /\ item_locks \in [Keys -> Workers \cup {None}]
    /\ cache_lock \in Workers \cup {Mover, None}
    /\ \A w \in Workers : cache_lock = w <=> op[w] # Idle /\ op[w].at = "search"
    /\ moving \in {"none", "DONE", "BUSY"}
    /\ cache_lock = Mover <=> moving # "none"
    /\ raced \subseteq {"unlock", "unlink", "lists"}

\* Where the mover is.
Cursor == [s_clsid : Nat, d_clsid : Nat, pos : Nat, busy_items : Nat, done : BOOLEAN]
RebalInv ==
    /\ slab_rebalance_signal \in 0..2
    /\ slab_rebal \in Cursor
    /\ slab_rebalance_signal # 0 =>
          /\ slab_rebal.s_clsid \in Classes /\ slab_rebal.d_clsid \in Classes
          /\ slab_rebal.s_clsid # slab_rebal.d_clsid
          /\ Len(slab_list[slab_rebal.s_clsid]) >= 2
    /\ slab_rebalance_signal # 2 => ~slab_rebal.done /\ moving = "none"
    /\ slab_rebal.done => /\ slab_rebal.pos = PerSlab[slab_rebal.s_clsid] + 1
                          /\ slab_rebal.busy_items = 0 /\ moving = "none"
    /\ slab_rebalance_signal = 2 /\ ~slab_rebal.done =>
          slab_rebal.pos \in 1..PerSlab[slab_rebal.s_clsid]

TypeInv == OpInv /\ MemoryInv /\ PagesInv /\ CacheInv /\ RebalInv

-----------------------------------------------------------------------------
\* A chunk of a page of its class; one that is in use as an item.
Owned(h, c) == c \in Classes /\ h \in ChunksIn(slab_list[c], c)
Live(h) == Owned(h, item[h].slabs_clsid) /\ "SLABBED" \notin item[h].flags

CountInv(h) == item[h].refcount = Refs(h)

LinkedInv(h) ==
    /\ Linked(h) => Live(h) /\ Contains(lru[item[h].slabs_clsid], h)
    /\ \A c \in Classes : Contains(lru[c], h) => Linked(h) /\ item[h].slabs_clsid = c

SlotInv(h) ==
    \A c \in Classes : Contains(slots[c], h) =>
       /\ Owned(h, c) /\ item[h].refcount = 0
       /\ "SLABBED" \in item[h].flags /\ item[h].slabs_clsid = 0

\* What a worker refers to is an item, or has just been allocated.
HandleInv(h) ==
    \A w \in Workers : HasRef(op[w], h) =>
       IF IsRaw(op[w], h) THEN Owned(h, op[w].cls) /\ item[h].slabs_clsid = 0 ELSE Live(h)

\* What a worker has made and not linked is its own.
NewInv(h) ==
    \A w \in Workers : IsNew(op[w], h) =>
       /\ ~Linked(h)
       /\ \A v \in Workers \ {w} : ~HasRef(op[v], h)
       /\ ~IsRaw(op[w], h) => item[h].slabs_clsid = op[w].cls

\* What a worker frees is nobody else's.
FreedInv(h) ==
    \A w \in Workers : Frees(op[w], h) =>
       /\ Live(h) /\ ~Linked(h)
       /\ \A v \in Workers : ~HasRef(op[v], h)
       /\ \A v \in Workers \ {w} : ~Frees(op[v], h)

\* What has been cleared is part of the moving page.
ClearInv(h) ==
    item[h].slabs_clsid = 255 =>
       slab_rebalance_signal = 2 /\ Contains(PageChunks(MovingPage, slab_rebal.s_clsid), h)

ChunkInv(h) ==
    /\ CountInv(h) /\ LinkedInv(h) /\ SlotInv(h) /\ HandleInv(h) /\ NewInv(h) /\ FreedInv(h)
    /\ ClearInv(h)

ListInv == \A c \in Classes : IsInjective(lru[c]) /\ IsInjective(slots[c])

Distinct(o) ==
    o # Idle => /\ o.it # None => o.it # o.old /\ o.it # o.new
                /\ o.old # None => o.old # o.new
DistinctInv == \A w \in Workers : Distinct(op[w])

\* A search is at an item that is linked.
AtLinked(o, l) ==
    o # Idle /\ o.at = "search" /\ o.search # None => Contains(l[o.cls], o.search)
SearchInv == \A w \in Workers : AtLinked(op[w], lru)

\* What the mover has passed since it last began at the top has been cleared, if
\* it found nothing busy; what it is about to clear is its own.
MoverInv ==
    /\ slab_rebalance_signal = 2 /\ slab_rebal.busy_items = 0 =>
          \A i \in 1..(slab_rebal.pos - 1) : item[<<MovingPage, i>>].slabs_clsid = 255
    /\ moving # "none" => item[Pos].slabs_clsid # 255
    /\ moving = "DONE" => item[Pos].refcount = 1 /\ \A w \in Workers : ~Frees(op[w], Pos)

HeapInv ==
    /\ \A h \in Chunks : ChunkInv(h)
    /\ ListInv /\ DistinctInv /\ SearchInv /\ MoverInv

IInv == TypeInv /\ LockHeldUnlessStaleUnlock /\ ("unlink" \notin raced => HeapInv)

-----------------------------------------------------------------------------
(***************************************************************************)
(* Lists.                                                                  *)
(***************************************************************************)
\* A set of numbers that is not empty has a least one: the intervals below its
\* members are well-founded by inclusion.
LEMMA LeastNumber ==
  ASSUME NEW S \in SUBSET Nat, S # {}
  PROVE  \E m \in S : \A k \in S : m <= k
<1> DEFINE T == {1..m : m \in S}
<1>1. T \subseteq FiniteSubsetsOf(Nat) /\ T # {}
  <2>1. ASSUME NEW m \in S
        PROVE  1..m \in FiniteSubsetsOf(Nat)
    <3>1. m \in Int /\ 1 \in Int
      OBVIOUS
    <3>2. IsFiniteSet(1..m) /\ 1..m \subseteq Nat
      BY <3>1, FS_Interval
    <3> QED
      BY <3>2 DEF FiniteSubsetsOf
  <2> QED
    BY <2>1
<1>2. PICK x \in T : \A y \in T : <<y, x>> \notin StrictSubsetOrdering(Nat)
  BY <1>1, FS_StrictSubsetOrderingWellFounded, WFMin
<1>3. PICK m \in S : x = 1..m
  BY <1>2
<1>4. ASSUME NEW k \in S, k < m
      PROVE  FALSE
  <2>1. 1..k \subseteq 1..m /\ m \in 1..m /\ m \notin 1..k
    BY <1>4
  <2>2. <<1..k, 1..m>> \in StrictSubsetOrdering(Nat)
    BY <2>1 DEF StrictSubsetOrdering
  <2> QED
    BY <1>2, <1>3, <2>2
<1> QED
  BY <1>4

\* The place of an element in a list that has it.
LEMMA SelectFacts ==
  ASSUME NEW S, NEW s \in Seq(S), NEW h, Contains(s, h)
  PROVE  \E i \in 1..Len(s) : i = SelectInSeq(s, LAMBDA v : v = h) /\ s[i] = h
<1> DEFINE I == {i \in 1..Len(s) : s[i] = h}
<1>1. I # {} /\ I \in SUBSET Nat
  BY DEF Contains
<1>2. PICK m \in I : \A k \in I : m <= k
  BY <1>1, LeastNumber
<1>3. SelectInSeq(s, LAMBDA v : v = h) = Min(I)
  BY <1>1 DEF SelectInSeq
<1>4. Min(I) \in I
  BY <1>2 DEF Min
<1> QED
  BY <1>3, <1>4

\* The list without the element.
LEMMA RemoveFirstFacts ==
  ASSUME NEW S, NEW s \in Seq(S), NEW h
  PROVE  /\ RemoveFirst(s, h) \in Seq(S)
         /\ IsInjective(s) =>
               /\ IsInjective(RemoveFirst(s, h))
               /\ \A g : Contains(RemoveFirst(s, h), g) <=> Contains(s, g) /\ g # h
<1>1. CASE ~Contains(s, h)
  <2>1. RemoveFirst(s, h) = s
    BY <1>1 DEF RemoveFirst, Contains
  <2> QED
    BY <1>1, <2>1
<1>2. CASE Contains(s, h)
  <2>1. PICK i \in 1..Len(s) : i = SelectInSeq(s, LAMBDA v : v = h) /\ s[i] = h
    BY <1>2, SelectFacts
  <2>2. RemoveFirst(s, h) = SubSeq(s, 1, i - 1) \o SubSeq(s, i + 1, Len(s))
    BY <1>2, <2>1 DEF RemoveFirst, RemoveAt, Contains
  <2>3. PICK r : r = RemoveFirst(s, h)
    OBVIOUS
  <2>4. r \in Seq(S) /\ Len(r) = Len(s) - 1
        /\ \A j \in 1..Len(r) : r[j] = IF j < i THEN s[j] ELSE s[j + 1]
    <3>1. PICK a : a = SubSeq(s, 1, i - 1)
      OBVIOUS
    <3>2. PICK b : b = SubSeq(s, i + 1, Len(s))
      OBVIOUS
    <3>3. /\ a \in Seq(S) /\ Len(a) = i - 1
          /\ \A j \in 1..(i - 1) : a[j] = s[j]
      BY <3>1
    <3>4. /\ b \in Seq(S) /\ Len(b) = Len(s) - i
          /\ \A j \in 1..(Len(s) - i) : b[j] = s[j + i]
      BY <3>2
    <3>5. r = a \o b
      BY <2>2, <2>3, <3>1, <3>2
    <3>6. r \in Seq(S) /\ Len(r) = Len(s) - 1
      BY <3>3, <3>4, <3>5
    <3>7. ASSUME NEW j \in 1..Len(r), j < i
          PROVE  r[j] = s[j]
      BY <3>3, <3>4, <3>5, <3>6, <3>7
    <3>8. ASSUME NEW j \in 1..Len(r), ~(j < i)
          PROVE  r[j] = s[j + 1]
      <4>1. j - (i - 1) \in 1..(Len(s) - i) /\ r[j] = b[j - (i - 1)]
        BY <3>3, <3>4, <3>5, <3>6, <3>8
      <4> QED
        BY <3>4, <3>6, <4>1
    <3> QED
      BY <3>6, <3>7, <3>8
  <2>5. ASSUME IsInjective(s)
        PROVE  IsInjective(r) /\ \A g : Contains(r, g) <=> Contains(s, g) /\ g # h
    <3>0. /\ Len(s) \in Nat /\ Len(r) = Len(s) - 1 /\ DOMAIN r = 1..Len(r)
          /\ \A j \in 1..Len(r) : j < i => r[j] = s[j]
          /\ \A j \in 1..Len(r) : j >= i => r[j] = s[j + 1]
      BY <2>4
    <3>1. \A j, k \in 1..Len(s) : s[j] = s[k] => j = k
      BY <2>5 DEF IsInjective
    <3> DEFINE from(j) == IF j < i THEN j ELSE j + 1
    <3>2. \A j \in 1..Len(r) : from(j) \in 1..Len(s) /\ from(j) # i /\ r[j] = s[from(j)]
      BY <3>0
    <3>3. \A j, k \in 1..Len(r) : from(j) = from(k) => j = k
      BY <3>0
    <3>4. \A n \in 1..Len(s) : n # i => \E j \in 1..Len(r) : from(j) = n
      <4>1. ASSUME NEW n \in 1..Len(s), n # i
            PROVE  \E j \in 1..Len(r) : from(j) = n
        <5>1. CASE n < i
          BY <3>0, <5>1
        <5>2. CASE n > i
          <6>1. n - 1 \in 1..Len(r) /\ from(n - 1) = n
            BY <3>0, <5>2
          <6> QED
            BY <6>1
        <5> QED
          BY <4>1, <3>0, <5>1, <5>2
      <4> QED
        BY <4>1
    <3> HIDE DEF from
    <3>5. IsInjective(r)
      BY <3>0, <3>1, <3>2, <3>3 DEF IsInjective
    <3>6. ASSUME NEW g, Contains(r, g)
          PROVE  Contains(s, g) /\ g # h
      BY <2>1, <3>1, <3>2, <3>6 DEF Contains
    <3>7. ASSUME NEW g, Contains(s, g), g # h
          PROVE  Contains(r, g)
      BY <2>1, <3>2, <3>4, <3>7 DEF Contains
    <3> QED
      BY <3>5, <3>6, <3>7
  <2> QED
    BY <2>3, <2>4, <2>5
<1> QED
  BY <1>1, <1>2

\* An element put in front.
LEMMA PushFacts ==
  ASSUME NEW S, NEW s \in Seq(S), NEW h \in S
  PROVE  /\ <<h>> \o s \in Seq(S)
         /\ \A g : Contains(<<h>> \o s, g) <=> g = h \/ Contains(s, g)
         /\ IsInjective(s) /\ ~Contains(s, h) => IsInjective(<<h>> \o s)
<1>1. PICK p : p = <<h>> \o s
  OBVIOUS
<1>2. /\ p \in Seq(S) /\ Len(p) = Len(s) + 1 /\ p[1] = h
      /\ \A j \in 1..Len(s) : p[j + 1] = s[j]
  BY <1>1
<1>3. \A j \in 1..Len(p) : j = 1 \/ (j - 1 \in 1..Len(s) /\ p[j] = s[j - 1])
  BY <1>2
<1>4. ASSUME NEW g
      PROVE  Contains(p, g) <=> g = h \/ Contains(s, g)
  <2>1. Contains(p, g) => g = h \/ Contains(s, g)
    BY <1>2, <1>3 DEF Contains
  <2>2. g = h => Contains(p, g)
    BY <1>2 DEF Contains
  <2>3. ASSUME Contains(s, g)
        PROVE  Contains(p, g)
    <3>1. PICK j \in 1..Len(s) : s[j] = g
      BY <2>3 DEF Contains
    <3>2. j + 1 \in 1..Len(p) /\ p[j + 1] = g
      BY <1>2, <3>1
    <3> QED
      BY <3>2 DEF Contains
  <2> QED
    BY <2>1, <2>2, <2>3
<1>5. ASSUME IsInjective(s), ~Contains(s, h)
      PROVE  IsInjective(p)
  <2>1. \A j, k \in 1..Len(s) : s[j] = s[k] => j = k
    BY <1>5 DEF IsInjective
  <2>2. \A j \in 1..Len(s) : s[j] # h
    BY <1>5 DEF Contains
  <2> QED
    <3>1. DOMAIN p = 1..Len(p)
      BY <1>2
    <3>2. SUFFICES ASSUME NEW j \in 1..Len(p), NEW k \in 1..Len(p), p[j] = p[k]
                   PROVE  j = k
      BY <3>1 DEF IsInjective
    <3>3. CASE j = 1
      BY <1>2, <1>3, <2>2, <3>2, <3>3
    <3>4. CASE k = 1
      BY <1>2, <1>3, <2>2, <3>2, <3>4
    <3>5. CASE j # 1 /\ k # 1
      <4>1. j - 1 = k - 1
        BY <1>3, <2>1, <3>2, <3>5
      <4> QED
        BY <4>1
    <3> QED
      BY <3>3, <3>4, <3>5
<1> QED
  BY <1>1, <1>2, <1>4, <1>5

\* What is left of a list without its head.
LEMMA TailFacts ==
  ASSUME NEW S, NEW s \in Seq(S), s # <<>>
  PROVE  /\ Tail(s) \in Seq(S) /\ Head(s) \in S /\ Contains(s, Head(s))
         /\ \A g : Contains(Tail(s), g) => Contains(s, g)
         /\ IsInjective(s) => /\ IsInjective(Tail(s)) /\ ~Contains(Tail(s), Head(s))
                              /\ \A g : Contains(s, g) => g = Head(s) \/ Contains(Tail(s), g)
<1>1. PICK t : t = Tail(s)
  OBVIOUS
<1>2. /\ t \in Seq(S) /\ Len(t) = Len(s) - 1 /\ Len(s) \in Nat \ {0}
      /\ \A j \in 1..Len(t) : t[j] = s[j + 1]
      /\ Head(s) = s[1] /\ s[1] \in S
  BY <1>1
<1>3. Contains(s, Head(s)) /\ \A g : Contains(t, g) => Contains(s, g)
  <2>1. \A j \in 1..Len(t) : j + 1 \in 1..Len(s)
    BY <1>2
  <2> QED
    BY <1>2, <2>1 DEF Contains
<1>4. ASSUME IsInjective(s)
      PROVE  /\ IsInjective(t) /\ ~Contains(t, Head(s))
             /\ \A g : Contains(s, g) => g = Head(s) \/ Contains(t, g)
  <2>1. \A j, k \in 1..Len(s) : s[j] = s[k] => j = k
    BY <1>4 DEF IsInjective
  <2>2. IsInjective(t)
    BY <1>2, <2>1 DEF IsInjective
  <2>3. ~Contains(t, Head(s))
    BY <1>2, <2>1 DEF Contains
  <2>4. \A j \in 1..Len(s) : j = 1 \/ (j - 1 \in 1..Len(t) /\ t[j - 1] = s[j])
    BY <1>2
  <2>5. \A g : Contains(s, g) => g = Head(s) \/ Contains(t, g)
    BY <1>2, <2>4 DEF Contains
  <2> QED
    BY <2>2, <2>3, <2>5
<1> QED
  BY <1>1, <1>2, <1>3, <1>4

\* A set of elements is a list's.
LEMMA ToSetFacts ==
  ASSUME NEW S, NEW s \in Seq(S)
  PROVE  ToSet(s) \subseteq S /\ \A g : g \in ToSet(s) <=> Contains(s, g)
BY DEF ToSet, Contains

\* A list backwards.
LEMMA ReverseFacts ==
  ASSUME NEW S, NEW s \in Seq(S)
  PROVE  /\ Reverse(s) \in Seq(S) /\ Len(Reverse(s)) = Len(s)
         /\ \A g : Contains(Reverse(s), g) <=> Contains(s, g)
         /\ IsInjective(s) => IsInjective(Reverse(s))
<1>1. PICK r : r = Reverse(s)
  OBVIOUS
<1>2. /\ r \in Seq(S) /\ Len(r) = Len(s)
      /\ \A j \in 1..Len(s) : r[j] = s[(Len(s) - j) + 1]
  BY <1>1 DEF Reverse
<1>3. \A j \in 1..Len(s) : (Len(s) - j) + 1 \in 1..Len(s) /\ r[(Len(s) - j) + 1] = s[j]
  BY <1>2
<1>4. \A g : Contains(r, g) <=> Contains(s, g)
  BY <1>2, <1>3 DEF Contains
<1>5. ASSUME IsInjective(s)
      PROVE  IsInjective(r)
  <2>1. \A j, k \in 1..Len(s) : s[j] = s[k] => j = k
    BY <1>5 DEF IsInjective
  <2> QED
    <3>1. Len(s) \in Nat /\ DOMAIN r = 1..Len(s)
      BY <1>2
    <3>2. SUFFICES ASSUME NEW j \in 1..Len(s), NEW k \in 1..Len(s), r[j] = r[k]
                   PROVE  j = k
      BY <3>1 DEF IsInjective
    <3>3. (Len(s) - j) + 1 = (Len(s) - k) + 1
      BY <1>2, <1>3, <2>1, <3>2
    <3> QED
      BY <3>1, <3>3
<1> QED
  BY <1>1, <1>2, <1>4, <1>5

-----------------------------------------------------------------------------
(***************************************************************************)
(* Pages and chunks.                                                       *)
(***************************************************************************)
LEMMA ClassFacts ==
  /\ Len(PerSlab) \in Nat /\ Classes = 1..Len(PerSlab)
  /\ 0 \notin Classes /\ 255 \notin Classes
  /\ \A c \in Classes : PerSlab[c] \in Nat \ {0}
BY SlabMoverAssumption DEF Classes

\* The chunks of a page.
LEMMA PageFacts ==
  ASSUME NEW p \in Pages, NEW c \in Classes
  PROVE  /\ PageChunks(p, c) \in Seq(Chunks) /\ PageChunks(p, c) # <<>>
         /\ IsInjective(PageChunks(p, c))
         /\ \A h : Contains(PageChunks(p, c), h) <=> \E i \in 1..PerSlab[c] : h = <<p, i>>
<1>1. PICK s : s = PageChunks(p, c)
  OBVIOUS
<1>2. PerSlab[c] \in Nat \ {0} /\ s = [i \in 1..PerSlab[c] |-> <<p, i>>]
  BY <1>1, ClassFacts DEF PageChunks
<1>3. ASSUME NEW i \in 1..PerSlab[c]
      PROVE  s[i] \in Chunks
  <2>1. DOMAIN s = 1..PerSlab[c]
    BY <1>2
  <2>2. s[i] \in ToSet(s)
    BY <1>3, <2>1 DEF ToSet
  <2> QED
    BY <1>1, <2>2 DEF Chunks
<1>4. s \in Seq(Chunks) /\ Len(s) = PerSlab[c] /\ s # <<>>
  <2>1. PICK n \in Nat \ {0} : n = PerSlab[c]
    BY <1>2
  <2>2. s = [i \in 1..n |-> s[i]] /\ \A i \in 1..n : s[i] \in Chunks
    BY <1>2, <1>3, <2>1
  <2>3. s \in [1..n -> Chunks]
    BY <2>2
  <2>4. s \in Seq(Chunks) /\ Len(s) = n
    BY <2>1, <2>3
  <2> QED
    BY <2>1, <2>4
<1>5. IsInjective(s)
  BY <1>2 DEF IsInjective
<1>6. \A h : Contains(s, h) <=> \E i \in 1..PerSlab[c] : h = <<p, i>>
  BY <1>2, <1>4 DEF Contains
<1> QED
  BY <1>1, <1>4, <1>5, <1>6

\* The chunks of some pages of one class.
LEMMA ChunksInFacts ==
  ASSUME NEW c \in Classes, NEW list \in Seq(Pages)
  PROVE  \A h : h \in ChunksIn(list, c) <=>
                   \E p \in Pages : Contains(list, p) /\ Contains(PageChunks(p, c), h)
<1>1. \A p : p \in ToSet(list) <=> p \in Pages /\ Contains(list, p)
  BY ToSetFacts
<1>2. \A p \in Pages : \A h : h \in ToSet(PageChunks(p, c)) <=> Contains(PageChunks(p, c), h)
  BY PageFacts, ToSetFacts
<1> QED
  BY <1>1, <1>2 DEF ChunksIn

\* A chunk has a page.
LEMMA ChunkPage ==
  ASSUME NEW h \in Chunks
  PROVE  \E p \in Pages : \E i \in Nat \ {0} : h = <<p, i>> /\ h[1] = p
<1>1. PICK p \in Pages, c \in Classes : h \in ToSet(PageChunks(p, c))
  BY DEF Chunks
<1>2. Contains(PageChunks(p, c), h)
  BY <1>1, PageFacts, ToSetFacts
<1>3. PICK i \in 1..PerSlab[c] : h = <<p, i>>
  BY <1>2, PageFacts
<1>4. i \in Nat \ {0}
  BY ClassFacts
<1> QED
  BY <1>3, <1>4

-----------------------------------------------------------------------------
(***************************************************************************)
(* Types, step by step.                                                    *)
(***************************************************************************)
\* One worker's command has changed.
LEMMA OpEdit ==
  ASSUME OpInv, NEW w \in Workers, NEW o \in Command \cup {Idle},
         o # Idle => Shape(o), op' = [op EXCEPT ![w] = o]
  PROVE  /\ OpInv' /\ op'[w] = o
         /\ \A v \in Workers \ {w} : op'[v] = op[v]
<1>1. op'[w] = o /\ \A v \in Workers \ {w} : op'[v] = op[v]
  BY DEF OpInv
<1>2. op' \in [Workers -> Command \cup {Idle}]
  BY DEF OpInv
<1> QED
  BY <1>1, <1>2 DEF OpInv

\* The same for who has cache_lock.
LEMMA CacheEdit ==
  ASSUME TypeInv, NEW w \in Workers, NEW o, op' = [op EXCEPT ![w] = o],
         moving' = moving,
         item_locks' \in [Keys -> Workers \cup {None}], raced' \subseteq {"unlock", "unlink", "lists"},
         \/ cache_lock' = cache_lock
            /\ (o # Idle /\ o.at = "search" <=> op[w] # Idle /\ op[w].at = "search")
         \/ cache_lock = None /\ cache_lock' = w /\ o # Idle /\ o.at = "search"
         \/ cache_lock = w /\ cache_lock' = None /\ ~(o # Idle /\ o.at = "search")
  PROVE  CacheInv'
<1>1. op'[w] = o /\ \A v \in Workers \ {w} : op'[v] = op[v]
  BY DEF TypeInv, OpInv
<1>2. Mover \notin Workers /\ Mover # None /\ None \notin Workers
  BY SlabMoverAssumption
<1>3. \A v \in Workers : cache_lock = v <=> op[v] # Idle /\ op[v].at = "search"
  BY DEF TypeInv, CacheInv
<1>4. cache_lock \in Workers \cup {Mover, None} /\ (cache_lock = Mover <=> moving # "none")
      /\ moving \in {"none", "DONE", "BUSY"}
  BY DEF TypeInv, CacheInv
<1>5. \A v \in Workers : cache_lock' = v <=> op'[v] # Idle /\ op'[v].at = "search"
  BY <1>1, <1>2, <1>3
<1>6. cache_lock' \in Workers \cup {Mover, None} /\ (cache_lock' = Mover <=> moving' # "none")
  BY <1>2, <1>4
<1> QED
  BY <1>4, <1>5, <1>6 DEF CacheInv

\* What a worker at a place has in hand.
LEMMA AtFacts ==
  ASSUME TypeInv, NEW w \in Workers, op[w] # Idle
  PROVE  op[w] \in Command /\ Shape(op[w])
BY DEF TypeInv, OpInv

LEMMA BeginTypes ==
  ASSUME TypeInv, NEW w \in Workers, NEW do \in {"set", "append", "get", "delete"},
         NEW k \in Keys, NEW c \in UsedClasses, Begin(w, do, k, c)
  PROVE  OpInv' /\ CacheInv'
<1>1. PICK o : o = [do |-> do, key |-> k, cls |-> c,
                    at |-> IF do \in {"set", "append"} THEN "alloc" ELSE "lock",
                    it |-> None, old |-> None, new |-> None, free |-> None,
                    search |-> None, tries |-> 0, hold |-> None]
  OBVIOUS
<1>2. op' = [op EXCEPT ![w] = o] /\ op[w] = Idle
  BY <1>1 DEF Begin
<1>3. o \in Command /\ o # Idle /\ o.at # "search"
  BY <1>1, SlabMoverAssumption DEF Command, Places, MaybeChunk, Idle
<1>4. Shape(o)
  BY <1>1 DEF Shape, Stores
<1>5. OpInv'
  BY <1>2, <1>3, <1>4, OpEdit DEF TypeInv
<1>6. CacheInv'
  BY <1>2, <1>3, CacheEdit DEF TypeInv, CacheInv, Begin, movevars
<1> QED
  BY <1>5, <1>6

LEMMA AllocStartTypes ==
  ASSUME TypeInv, NEW w \in Workers, AllocStart(w)
  PROVE  OpInv' /\ CacheInv'
<1>1. op[w] \in Command /\ Shape(op[w]) /\ op[w] # Idle /\ op[w].at = "alloc"
      /\ op[w].free = None
  BY AtFacts DEF AllocStart, At
<1>2. PICK h \in MaybeChunk : op' = [op EXCEPT ![w].at = "search", ![w].tries = MaxTries,
                                               ![w].search = h]
  <2>1. lru[op[w].cls] \in Seq(Chunks)
    BY <1>1 DEF Command, TypeInv, MemoryInv
  <2>2. lru[op[w].cls] # <<>> => Last(lru[op[w].cls]) \in Chunks
    BY <2>1 DEF Last
  <2> QED
    BY <2>2 DEF AllocStart, MaybeChunk
<1>3. PICK o : o = [op[w] EXCEPT !.at = "search", !.tries = MaxTries, !.search = h]
  OBVIOUS
<1>4. op' = [op EXCEPT ![w] = o]
  BY <1>2, <1>3 DEF TypeInv, OpInv
<1>5. o \in Command /\ o # Idle /\ o.at = "search"
  BY <1>1, <1>3, SlabMoverAssumption DEF Command, Places, Idle
<1>6. Shape(o)
  BY <1>1, <1>3 DEF Shape, Stores, Command
<1>7. OpInv'
  BY <1>4, <1>5, <1>6, OpEdit DEF TypeInv
<1>8. cache_lock = None /\ cache_lock' = w
  BY DEF AllocStart
<1>9. CacheInv'
  BY <1>4, <1>5, <1>8, CacheEdit DEF TypeInv, CacheInv, AllocStart, movevars
<1> QED
  BY <1>7, <1>9

\* Where a search can go on.
LEMMA PrevsFacts ==
  ASSUME TypeInv, NEW w \in Workers, Searching(w)
  PROVE  /\ op[w].cls \in Classes /\ op[w].search \in Chunks
         /\ HoldLock(w) \in Keys \cup {None} /\ Prevs(w) \subseteq MaybeChunk
<1>1. op[w] \in Command /\ op[w].search # None
  BY AtFacts DEF Searching, At
<1>2. op[w].cls \in Classes /\ op[w].search \in Chunks /\ op[w].hold \in Keys \cup {None}
  BY <1>1 DEF Command, MaybeChunk
<1>3. item[op[w].search] \in Item
  BY <1>2 DEF TypeInv, MemoryInv
<1>4. HoldLock(w) \in Keys \cup {None}
  BY <1>2, <1>3 DEF HoldLock, Item
<1>5. PICK list, h : list = lru[op[w].cls] /\ h = op[w].search
  OBVIOUS
<1>6. list \in Seq(Chunks) /\ slots[op[w].cls] \in Seq(Chunks)
  BY <1>2, <1>5 DEF TypeInv, MemoryInv
<1>7. Prevs(w) \subseteq MaybeChunk
  <2>1. CASE Contains(list, h)
    <3>1. PICK i \in 1..Len(list) : i = SelectInSeq(list, LAMBDA g : g = h) /\ list[i] = h
      BY <1>6, <2>1, SelectFacts
    <3>2. CASE h = Head(list)
      BY <1>5, <2>1, <3>2 DEF Prevs, MaybeChunk
    <3>3. CASE h # Head(list)
      <4>1. i # 1
        BY <1>6, <3>1, <3>3
      <4>2. i - 1 \in 1..Len(list)
        BY <1>6, <4>1
      <4>3. list[i - 1] \in Chunks
        BY <1>6, <4>2
      <4>4. Prevs(w) = {list[i - 1]}
        BY <1>5, <2>1, <3>1, <3>3 DEF Prevs
      <4> QED
        BY <4>3, <4>4 DEF MaybeChunk
    <3> QED
      BY <3>2, <3>3
  <2>2. CASE ~Contains(list, h)
    <3>1. ToSet(list) \subseteq Chunks /\ ToSet(slots[op[w].cls]) \subseteq Chunks
      BY <1>6, ToSetFacts
    <3> QED
      BY <1>5, <2>2, <3>1 DEF Prevs, MaybeChunk
  <2> QED
    BY <2>1, <2>2
<1> QED
  BY <1>2, <1>4, <1>7

\* A search that goes on.
LEMMA SearchOnTypes ==
  ASSUME TypeInv, NEW w \in Workers, Searching(w), NEW hold \in Keys \cup {None},
         SearchOn(w, hold), moving' = moving, cache_lock' = cache_lock,
         item_locks' \in [Keys -> Workers \cup {None}], raced' \subseteq {"unlock", "unlink", "lists"}
  PROVE  /\ OpInv' /\ CacheInv'
         /\ \E p \in Prevs(w) :
               op' = [op EXCEPT ![w] = [op[w] EXCEPT !.search = p, !.tries = op[w].tries - 1,
                                                     !.hold = hold]]
<1>1. op[w] \in Command /\ Shape(op[w]) /\ op[w] # Idle /\ op[w].at = "search"
      /\ op[w].free = None /\ op[w].tries > 0
  BY AtFacts DEF Searching, At
<1>2. PICK p \in Prevs(w) :
         op' = [op EXCEPT ![w].search = p, ![w].tries = @ - 1, ![w].hold = hold]
  BY DEF SearchOn
<1>3. p \in MaybeChunk
  BY PrevsFacts
<1>4. PICK o : o = [op[w] EXCEPT !.search = p, !.tries = op[w].tries - 1, !.hold = hold]
  OBVIOUS
<1>5. op' = [op EXCEPT ![w] = o]
  BY <1>1, <1>2, <1>4 DEF TypeInv, OpInv
<1>6. o \in Command /\ o # Idle /\ o.at = "search"
  <2>1. op[w].tries - 1 \in Nat
    BY <1>1 DEF Command
  <2> QED
    BY <1>1, <1>3, <1>4, <2>1 DEF Command, Places, Idle
<1>7. Shape(o)
  BY <1>1, <1>4 DEF Shape, Stores, Command
<1>8. OpInv'
  BY <1>5, <1>6, <1>7, OpEdit DEF TypeInv
<1>9. CacheInv'
  BY <1>1, <1>5, <1>6, CacheEdit
<1> QED
  BY <1>4, <1>5, <1>8, <1>9

\* hold_lock is unlocked.
LEMMA UnlockHoldTypes ==
  ASSUME TypeInv, NEW w \in Workers, Searching(w), UnlockHold(w)
  PROVE  /\ item_locks' \in [Keys -> Workers \cup {None}]
         /\ raced' \subseteq {"unlock", "unlink", "lists"} /\ raced \subseteq raced'
         /\ ("unlink" \in raced' => "unlink" \in raced)
         /\ \A k \in Keys : item_locks[k] # item_locks'[k] => "unlock" \in raced'
<1>1. HoldLock(w) \in Keys \cup {None}
  BY PrevsFacts
<1>2. item_locks \in [Keys -> Workers \cup {None}] /\ raced \subseteq {"unlock", "unlink", "lists"}
  BY DEF TypeInv, CacheInv
<1>3. CASE HoldLock(w) = None
  BY <1>2, <1>3 DEF UnlockHold
<1>4. CASE HoldLock(w) # None
  <2>1. item_locks' = [item_locks EXCEPT ![HoldLock(w)] = None]
        /\ raced' = IF item_locks[HoldLock(w)] = None THEN raced ELSE raced \cup {"unlock"}
    BY <1>4 DEF UnlockHold
  <2> QED
    BY <1>1, <1>2, <1>4, <2>1
<1> QED
  BY <1>3, <1>4

LEMMA SkipLockedTypes ==
  ASSUME TypeInv, NEW w \in Workers, SkipLocked(w)
  PROVE  OpInv' /\ CacheInv'
<1>1. item_locks' = item_locks /\ raced' = raced /\ moving' = moving /\ cache_lock' = cache_lock
      /\ Searching(w) /\ SearchOn(w, None)
  BY DEF SkipLocked, movevars
<1> QED
  BY <1>1, SearchOnTypes DEF TypeInv, CacheInv

LEMMA SkipBusyTypes ==
  ASSUME TypeInv, NEW w \in Workers, SkipBusy(w)
  PROVE  OpInv' /\ CacheInv'
<1>1. moving' = moving /\ cache_lock' = cache_lock
      /\ Searching(w) /\ SearchOn(w, HoldLock(w)) /\ UnlockHold(w)
  BY DEF SkipBusy, movevars
<1> QED
  BY <1>1, SearchOnTypes, UnlockHoldTypes, PrevsFacts

\* A chunk has been allocated.
LEMMA TakeTypes ==
  ASSUME TypeInv, NEW w \in Workers, At(w, "search"), NEW h \in Chunks, Take(w, h),
         moving' = moving,
         item_locks' \in [Keys -> Workers \cup {None}], raced' \subseteq {"unlock", "unlink", "lists"}
  PROVE  /\ OpInv' /\ CacheInv'
         /\ op' = [op EXCEPT ![w] =
                     [op[w] EXCEPT !.at = "init", !.search = None, !.tries = 0, !.hold = None,
                                   !.it = IF op[w].old # None THEN op[w].it ELSE h,
                                   !.new = IF op[w].old # None THEN h ELSE op[w].new]]
<1>1. op[w] \in Command /\ Shape(op[w]) /\ op[w] # Idle /\ op[w].at = "search"
      /\ op[w].free = None
  BY AtFacts DEF At
<1>2. PICK o : o = [op[w] EXCEPT !.at = "init", !.search = None, !.tries = 0, !.hold = None,
                                 !.it = IF op[w].old # None THEN op[w].it ELSE h,
                                 !.new = IF op[w].old # None THEN h ELSE op[w].new]
  OBVIOUS
<1>3. op' = [op EXCEPT ![w] = o]
  BY <1>1, <1>2 DEF TypeInv, OpInv, Take, InAppend
<1>4. h \in MaybeChunk /\ h # None
  BY SlabMoverAssumption DEF MaybeChunk
<1>5. o \in Command /\ o # Idle /\ o.at = "init"
  <2>1. PICK it, new : /\ it = IF op[w].old # None THEN op[w].it ELSE h
                       /\ new = IF op[w].old # None THEN h ELSE op[w].new
    OBVIOUS
  <2>2. it \in MaybeChunk /\ new \in MaybeChunk /\ None \in MaybeChunk
    BY <1>1, <1>4, <2>1 DEF Command, MaybeChunk
  <2>3. o = [op[w] EXCEPT !.at = "init", !.search = None, !.tries = 0, !.hold = None,
                          !.it = it, !.new = new]
    BY <1>2, <2>1
  <2> QED
    BY <1>1, <2>2, <2>3 DEF Command, Places, Idle
<1>6. Shape(o)
  BY <1>1, <1>2, <1>4 DEF Shape, Stores, Command
<1>7. OpInv'
  BY <1>3, <1>5, <1>6, OpEdit DEF TypeInv
<1>8. cache_lock = w /\ cache_lock' = None
  BY <1>1 DEF TypeInv, CacheInv, Take
<1>9. CacheInv'
  BY <1>3, <1>5, <1>8, CacheEdit
<1> QED
  BY <1>2, <1>3, <1>7, <1>9

-----------------------------------------------------------------------------
(***************************************************************************)
(* A class gets another page.                                              *)
(***************************************************************************)
\* Classes that have a page.
Filled(lists) == {c \in Classes : lists[c] # <<>>}

LEMMA FilledFacts ==
  ASSUME NEW lists
  PROVE  /\ IsFiniteSet(Filled(lists)) /\ Cardinality(Filled(lists)) \in Nat
         /\ Cardinality(Filled(lists)) <= Len(PerSlab)
<1>1. Len(PerSlab) \in Nat /\ Classes = 1..Len(PerSlab) /\ 1 \in Int /\ Len(PerSlab) \in Int
  BY ClassFacts
<1>2. IsFiniteSet(1..Len(PerSlab)) /\ Cardinality(1..Len(PerSlab)) =
         IF 1 > Len(PerSlab) THEN 0 ELSE Len(PerSlab) - 1 + 1
  BY <1>1, FS_Interval
<1>3. IsFiniteSet(Classes) /\ Cardinality(Classes) = Len(PerSlab)
  BY <1>1, <1>2
<1>4. Filled(lists) \subseteq Classes
  BY DEF Filled
<1>5. IsFiniteSet(Filled(lists)) /\ Cardinality(Filled(lists)) <= Cardinality(Classes)
  BY <1>3, <1>4, FS_Subset
<1> QED
  BY <1>3, <1>5, FS_CardinalityType

LEMMA FilledMore ==
  ASSUME NEW lists, NEW more, Filled(lists) \subseteq Filled(more)
  PROVE  /\ Cardinality(Filled(lists)) <= Cardinality(Filled(more))
         /\ \A c \in Filled(more) : c \notin Filled(lists) =>
               Cardinality(Filled(lists)) + 1 <= Cardinality(Filled(more))
<1>1. IsFiniteSet(Filled(lists)) /\ IsFiniteSet(Filled(more))
      /\ Cardinality(Filled(lists)) \in Nat /\ Cardinality(Filled(more)) \in Nat
  BY FilledFacts
<1>2. Cardinality(Filled(lists)) <= Cardinality(Filled(more))
  BY <1>1, FS_Subset
<1>3. ASSUME NEW c \in Filled(more), c \notin Filled(lists)
      PROVE  Cardinality(Filled(lists)) + 1 <= Cardinality(Filled(more))
  <2>1. /\ IsFiniteSet(Filled(lists) \cup {c})
        /\ Cardinality(Filled(lists) \cup {c}) = Cardinality(Filled(lists)) + 1
    BY <1>1, <1>3, FS_AddElement
  <2>2. Filled(lists) \cup {c} \subseteq Filled(more)
    BY <1>3
  <2>3. Cardinality(Filled(lists) \cup {c}) <= Cardinality(Filled(more))
    BY <1>1, <2>2, FS_Subset
  <2> QED
    BY <2>1, <2>3
<1> QED
  BY <1>2, <1>3

\* The next page is nobody's yet, and there is room for it.
LEMMA NextPageFacts ==
  ASSUME TypeInv
  PROVE  /\ NextPage \in Nat \ {0} /\ PageSet = 1..(NextPage - 1)
         /\ NextPage - 1 <= MemLimit + Cardinality(Filled(slab_list))
         /\ \A c \in Classes : ~Contains(slab_list[c], NextPage)
         /\ \A c \in Classes : MayGrow(c) => NextPage \in Pages
<1>1. PICK n \in Nat : PageSet = 1..n
                       /\ n <= MemLimit + Cardinality({c \in Classes : slab_list[c] # <<>>})
  BY DEF TypeInv, PagesInv
<1>2. Cardinality(1..n) = n
  <2>1. n \in Int /\ 1 \in Int
    OBVIOUS
  <2>2. Cardinality(1..n) = IF 1 > n THEN 0 ELSE n - 1 + 1
    BY <2>1, FS_Interval
  <2> QED
    BY <2>2
<1>3. NextPage = n + 1
  <2>1. NextPage = 1 + Cardinality(PageSet)
    BY DEF NextPage, PageSet
  <2>2. Cardinality(PageSet) = n
    BY <1>1, <1>2
  <2> QED
    BY <2>1, <2>2
<1>4. n <= MemLimit + Cardinality(Filled(slab_list))
  BY <1>1 DEF Filled
<1>5. ASSUME NEW c \in Classes
      PROVE  ~Contains(slab_list[c], NextPage)
  <2>1. slab_list[c] \in Seq(Pages)
    BY DEF TypeInv, PagesInv
  <2>2. Contains(slab_list[c], NextPage) => NextPage \in PageSet
    BY <2>1, ToSetFacts DEF PageSet
  <2> QED
    BY <1>1, <1>3, <2>2
<1>6. ASSUME NEW c \in Classes, MayGrow(c)
      PROVE  NextPage \in Pages
  <2>1. Len(PerSlab) \in Nat /\ MemLimit \in Nat
    BY ClassFacts, SlabMoverAssumption
  <2>2. CASE NextPage <= MemLimit
    BY <1>3, <2>1, <2>2 DEF Pages
  <2>3. CASE slab_list[c] = <<>>
    <3>1. c \notin Filled(slab_list) /\ Filled([d \in Classes |-> <<0>>]) = Classes
      BY <2>3 DEF Filled
    <3>2. Cardinality(Filled(slab_list)) + 1 <= Cardinality(Filled([d \in Classes |-> <<0>>]))
      <4>1. Filled(slab_list) \subseteq Filled([d \in Classes |-> <<0>>])
        BY <3>1 DEF Filled
      <4> QED
        BY <3>1, <4>1, FilledMore
    <3>3. Cardinality(Filled([d \in Classes |-> <<0>>])) <= Len(PerSlab)
          /\ Cardinality(Filled([d \in Classes |-> <<0>>])) \in Nat
          /\ Cardinality(Filled(slab_list)) \in Nat
      BY FilledFacts
    <3> QED
      BY <1>3, <1>4, <2>1, <3>2, <3>3 DEF Pages
  <2> QED
    BY <1>6, <2>2, <2>3 DEF MayGrow
<1> QED
  BY <1>1, <1>3, <1>4, <1>5, <1>6

\* A page put at the end of the list of one class.
LEMMA AppendFacts ==
  ASSUME NEW S, NEW s \in Seq(S), NEW p \in S
  PROVE  /\ Append(s, p) \in Seq(S) /\ Append(s, p) # <<>> /\ Len(Append(s, p)) = Len(s) + 1
         /\ \A g : Contains(Append(s, p), g) <=> Contains(s, g) \/ g = p
         /\ s # <<>> => Append(s, p)[1] = s[1]
         /\ IsInjective(s) /\ ~Contains(s, p) => IsInjective(Append(s, p))
<1>1. PICK t : t = Append(s, p)
  OBVIOUS
<1>2. /\ t \in Seq(S) /\ Len(t) = Len(s) + 1 /\ t[Len(s) + 1] = p /\ t # <<>>
      /\ \A i \in 1..Len(s) : t[i] = s[i]
  BY <1>1
<1>3. \A g : Contains(t, g) <=> Contains(s, g) \/ g = p
  <2>1. \A i \in 1..Len(t) : i \in 1..Len(s) \/ i = Len(s) + 1
    BY <1>2
  <2>2. \A i \in 1..Len(s) : i \in 1..Len(t)
    BY <1>2
  <2>3. Len(s) + 1 \in 1..Len(t)
    BY <1>2
  <2> QED
    BY <1>2, <2>1, <2>2, <2>3 DEF Contains
<1>4. s # <<>> => t[1] = s[1]
  <2>1. s # <<>> => 1 \in 1..Len(s)
    OBVIOUS
  <2> QED
    BY <1>2, <2>1
<1>5. ASSUME IsInjective(s), ~Contains(s, p)
      PROVE  IsInjective(t)
  <2>1. \A j, k \in 1..Len(s) : s[j] = s[k] => j = k
    BY <1>5 DEF IsInjective
  <2>2. \A j \in 1..Len(s) : s[j] # p
    BY <1>5 DEF Contains
  <2>3. DOMAIN t = 1..Len(t)
    BY <1>2
  <2>4. SUFFICES ASSUME NEW j \in 1..Len(t), NEW k \in 1..Len(t), t[j] = t[k]
                 PROVE  j = k
    BY <2>3 DEF IsInjective
  <2>5. \A i \in 1..Len(t) : i \in 1..Len(s) \/ i = Len(s) + 1
    BY <1>2
  <2> QED
    BY <1>2, <2>1, <2>2, <2>4, <2>5
<1> QED
  BY <1>1, <1>2, <1>3, <1>4, <1>5

LEMMA GrowTypes ==
  ASSUME TypeInv, NEW c \in Classes, MayGrow(c),
         slab_list' = [slab_list EXCEPT ![c] = Append(@, NextPage)]
  PROVE  /\ PagesInv'
         /\ \A d \in Classes : \A p : Contains(slab_list'[d], p)
                                      <=> Contains(slab_list[d], p) \/ (d = c /\ p = NextPage)
         /\ \A d \in Classes : slab_list[d] # <<>> => slab_list'[d][1] = slab_list[d][1]
         /\ \A d \in Classes : Len(slab_list'[d]) >= Len(slab_list[d])
<1>1. NextPage \in Pages /\ NextPage \in Nat \ {0}
  BY NextPageFacts
<1>2. slab_list \in [Classes -> Seq(Pages)]
  BY DEF TypeInv, PagesInv
<1>3. slab_list'[c] = Append(slab_list[c], NextPage)
      /\ \A d \in Classes : d # c => slab_list'[d] = slab_list[d]
  BY <1>2
<1>4. slab_list[c] \in Seq(Pages) /\ IsInjective(slab_list[c]) /\ ~Contains(slab_list[c], NextPage)
  BY <1>2, NextPageFacts DEF TypeInv, PagesInv
<1>5. /\ slab_list'[c] \in Seq(Pages) /\ slab_list'[c] # <<>> /\ IsInjective(slab_list'[c])
      /\ Len(slab_list'[c]) = Len(slab_list[c]) + 1
      /\ \A p : Contains(slab_list'[c], p) <=> Contains(slab_list[c], p) \/ p = NextPage
      /\ slab_list[c] # <<>> => slab_list'[c][1] = slab_list[c][1]
  BY <1>1, <1>3, <1>4, AppendFacts
<1>6. slab_list' \in [Classes -> Seq(Pages)]
  BY <1>2, <1>3, <1>5
<1>7. \A d \in Classes : \A p : Contains(slab_list'[d], p)
                                <=> Contains(slab_list[d], p) \/ (d = c /\ p = NextPage)
  BY <1>3, <1>5
<1>8. \A d \in Classes : IsInjective(slab_list'[d])
  BY <1>3, <1>5 DEF TypeInv, PagesInv
<1>9. /\ \A d \in Classes : \A p : p \in ToSet(slab_list[d]) <=> Contains(slab_list[d], p)
      /\ \A d \in Classes : \A p : p \in ToSet(slab_list'[d]) <=> Contains(slab_list'[d], p)
  BY <1>2, <1>6, ToSetFacts
<1>10. ASSUME NEW d \in Classes, NEW e \in Classes, d # e, NEW p,
              p \in ToSet(slab_list'[d]), p \in ToSet(slab_list'[e])
       PROVE  FALSE
  <2>1. ToSet(slab_list[d]) \cap ToSet(slab_list[e]) = {}
    BY <1>10 DEF TypeInv, PagesInv
  <2>2. ~Contains(slab_list[d], NextPage) /\ ~Contains(slab_list[e], NextPage)
    BY NextPageFacts
  <2>3. Contains(slab_list'[d], p) /\ Contains(slab_list'[e], p)
    BY <1>9, <1>10
  <2>4. /\ Contains(slab_list[d], p) \/ (d = c /\ p = NextPage)
        /\ Contains(slab_list[e], p) \/ (e = c /\ p = NextPage)
    BY <1>7, <2>3
  <2>5. ~(Contains(slab_list[d], p) /\ Contains(slab_list[e], p))
    BY <1>9, <2>1
  <2> QED
    BY <1>10, <2>2, <2>4, <2>5
<1>11. \A d, e \in Classes : d # e => ToSet(slab_list'[d]) \cap ToSet(slab_list'[e]) = {}
  BY <1>10
<1>12. PageSet' = 1..NextPage
  <2>1. PageSet = 1..(NextPage - 1)
    BY NextPageFacts
  <2>2. \A p : p \in PageSet <=> \E d \in Classes : Contains(slab_list[d], p)
    BY <1>9 DEF PageSet
  <2>3. \A p : p \in PageSet' <=> \E d \in Classes : Contains(slab_list'[d], p)
    BY <1>9 DEF PageSet
  <2>4. \A p : p \in PageSet' <=> p \in PageSet \/ p = NextPage
    BY <1>7, <2>2, <2>3
  <2>5. 1..NextPage = 1..(NextPage - 1) \cup {NextPage}
    BY <1>1
  <2> QED
    BY <2>1, <2>4, <2>5
<1>13. NextPage <= MemLimit + Cardinality(Filled(slab_list'))
  <2>1. MemLimit \in Nat /\ Cardinality(Filled(slab_list)) \in Nat
        /\ Cardinality(Filled(slab_list')) \in Nat
    BY FilledFacts, SlabMoverAssumption
  <2>2. Filled(slab_list) \subseteq Filled(slab_list') /\ c \in Filled(slab_list')
    BY <1>3, <1>5 DEF Filled
  <2>3. CASE NextPage <= MemLimit
    BY <1>1, <2>1, <2>3
  <2>4. CASE slab_list[c] = <<>>
    <3>1. c \notin Filled(slab_list)
      BY <2>4 DEF Filled
    <3>2. Cardinality(Filled(slab_list)) + 1 <= Cardinality(Filled(slab_list'))
      BY <2>2, <3>1, FilledMore
    <3>3. NextPage - 1 <= MemLimit + Cardinality(Filled(slab_list))
      BY NextPageFacts
    <3> QED
      BY <1>1, <2>1, <3>2, <3>3
  <2> QED
    BY <2>3, <2>4 DEF MayGrow
<1>14. PagesInv'
  BY <1>1, <1>6, <1>8, <1>11, <1>12, <1>13 DEF PagesInv, Filled
<1>15. \A d \in Classes : slab_list[d] # <<>> => slab_list'[d][1] = slab_list[d][1]
  BY <1>3, <1>5
<1>16. \A d \in Classes : Len(slab_list'[d]) >= Len(slab_list[d])
  BY <1>2, <1>3, <1>5
<1> QED
  BY <1>7, <1>14, <1>15, <1>16

-----------------------------------------------------------------------------
(***************************************************************************)
(* The chunks.                                                             *)
(***************************************************************************)
\* Parts of what is kept of a chunk are set.
LEMMA ItemFields ==
  ASSUME NEW i \in Item
  PROVE  /\ i.flags \subseteq {"SLABBED", "LINKED"} /\ i.refcount \in Int
         /\ i.slabs_clsid \in Classes \cup {0, 255} /\ i.key \in Keys \cup {None}
BY DEF Item, Flags, ClassIds

LEMMA ItemSet ==
  ASSUME MemoryInv, NEW h \in Chunks, NEW i \in Item, item' = [item EXCEPT ![h] = i]
  PROVE  /\ item' \in [Chunks -> Item] /\ item'[h] = i
         /\ \A g \in Chunks \ {h} : item'[g] = item[g]
BY DEF MemoryInv

LEMMA RefSet ==
  ASSUME MemoryInv, NEW h \in Chunks, NEW n \in Int, item' = [item EXCEPT ![h].refcount = n]
  PROVE  /\ item' \in [Chunks -> Item] /\ item'[h] = [item[h] EXCEPT !.refcount = n]
         /\ \A g \in Chunks \ {h} : item'[g] = item[g]
<1>1. item[h] \in Item
  BY DEF MemoryInv
<1>2. PICK i : i = [item[h] EXCEPT !.refcount = n]
  OBVIOUS
<1>3. i \in Item
  BY <1>1, <1>2 DEF Item
<1>4. item' = [item EXCEPT ![h] = i]
  BY <1>1, <1>2 DEF MemoryInv
<1> QED
  BY <1>2, <1>3, <1>4, ItemSet

\* What do_slabs_free() makes of a chunk.
LEMMA SlabbedFacts ==
  ASSUME NEW i \in Item
  PROVE  /\ Slabbed(i) \in Item /\ "SLABBED" \in Slabbed(i).flags /\ Slabbed(i).slabs_clsid = 0
         /\ Slabbed(i).refcount = i.refcount /\ Slabbed(i).key = i.key
         /\ "LINKED" \in Slabbed(i).flags <=> "LINKED" \in i.flags
<1>1. PICK f : f = i.flags \cup {"SLABBED"}
  OBVIOUS
<1>2. f \in Flags /\ "SLABBED" \in f /\ ("LINKED" \in f <=> "LINKED" \in i.flags)
  BY <1>1, ItemFields DEF Flags
<1>3. Slabbed(i) = [i EXCEPT !.flags = f, !.slabs_clsid = 0]
  BY <1>1 DEF Slabbed
<1>4. 0 \in ClassIds
  BY DEF ClassIds
<1>5. Slabbed(i) \in Item
  BY <1>2, <1>3, <1>4 DEF Item
<1>6. Slabbed(i).flags = f /\ Slabbed(i).slabs_clsid = 0
      /\ Slabbed(i).refcount = i.refcount /\ Slabbed(i).key = i.key
  BY <1>3 DEF Item
<1> QED
  BY <1>2, <1>5, <1>6

\* What is left of an item that has been taken off its lists.
LEMMA UnlinkSet ==
  ASSUME TypeInv, NEW h \in Chunks, NEW n \in Int,
         NEW i, i = [item[h] EXCEPT !.flags = item[h].flags \ {"LINKED"}, !.refcount = n]
  PROVE  /\ i \in Item /\ i.refcount = n /\ i.slabs_clsid = item[h].slabs_clsid
         /\ i.key = item[h].key /\ i.flags = item[h].flags \ {"LINKED"}
<1>1. item[h] \in Item
  BY DEF TypeInv, MemoryInv
<1>2. PICK f : f = item[h].flags \ {"LINKED"}
  OBVIOUS
<1>3. f \in Flags
  BY <1>1, <1>2, ItemFields DEF Flags
<1>4. i = [item[h] EXCEPT !.flags = f, !.refcount = n]
  BY <1>2
<1>5. i \in Item
  BY <1>1, <1>3, <1>4 DEF Item
<1>6. i.refcount = n /\ i.slabs_clsid = item[h].slabs_clsid /\ i.key = item[h].key
      /\ i.flags = f
  BY <1>1, <1>4 DEF Item
<1> QED
  BY <1>2, <1>5, <1>6

LEMMA UnlinkedItem ==
  ASSUME TypeInv, NEW h \in Chunks, Linked(h), Unlinked(h)
  PROVE  /\ item'[h].refcount = item[h].refcount - 1
         /\ item'[h].slabs_clsid = item[h].slabs_clsid
         /\ item'[h].flags = item[h].flags \ {"LINKED"}
         /\ \A g \in Chunks \ {h} : item'[g] = item[g]
<1>1. PICK o : o = item[h]
  OBVIOUS
<1>2. o \in Item
  BY <1>1 DEF TypeInv, MemoryInv
<1>3. PICK i : i = [o EXCEPT !.flags = o.flags \ {"LINKED"}, !.refcount = o.refcount - 1]
  OBVIOUS
<1>4. item' = [item EXCEPT ![h] = i]
  BY <1>1, <1>3 DEF Unlinked, TypeInv, MemoryInv
<1>5. item'[h] = i /\ \A g \in Chunks \ {h} : item'[g] = item[g]
  BY <1>4 DEF TypeInv, MemoryInv
<1>6. i.refcount = o.refcount - 1 /\ i.slabs_clsid = o.slabs_clsid
      /\ i.flags = o.flags \ {"LINKED"}
  BY <1>2, <1>3 DEF Item
<1> QED
  BY <1>1, <1>5, <1>6

\* It has been taken off the LRU lists.
LEMMA OffLists ==
  ASSUME TypeInv, NEW h, lru' = [c \in Classes |-> RemoveFirst(lru[c], h)]
  PROVE  /\ lru' \in [Classes -> Seq(Chunks)]
         /\ ListInv => \A c \in Classes :
                          /\ IsInjective(lru'[c])
                          /\ \A g : Contains(lru'[c], g) <=> Contains(lru[c], g) /\ g # h
<1>1. \A c \in Classes : lru[c] \in Seq(Chunks)
  BY DEF TypeInv, MemoryInv
<1>2. \A c \in Classes : lru'[c] = RemoveFirst(lru[c], h)
  OBVIOUS
<1>3. \A c \in Classes : RemoveFirst(lru[c], h) \in Seq(Chunks)
  BY <1>1, RemoveFirstFacts
<1>4. ASSUME ListInv, NEW c \in Classes
      PROVE  /\ IsInjective(lru'[c])
             /\ \A g : Contains(lru'[c], g) <=> Contains(lru[c], g) /\ g # h
  <2>1. IsInjective(lru[c])
    BY <1>4 DEF ListInv
  <2> QED
    BY <1>1, <1>2, <2>1, RemoveFirstFacts
<1> QED
  BY <1>3, <1>4

LEMMA UnlinkedTypes ==
  ASSUME TypeInv, NEW h \in Chunks, Unlinked(h)
  PROVE  item' \in [Chunks -> Item] /\ lru' \in [Classes -> Seq(Chunks)]
<1>1. CASE Linked(h)
  <2>1. PICK i : i = [item[h] EXCEPT !.flags = item[h].flags \ {"LINKED"},
                                     !.refcount = item[h].refcount - 1]
    OBVIOUS
  <2>2. item[h].refcount - 1 \in Int
    <3>1. item[h] \in Item
      BY DEF TypeInv, MemoryInv
    <3> QED
      BY <3>1 DEF Item
  <2>3. i \in Item
    BY <2>1, <2>2, UnlinkSet
  <2>4. item' = [item EXCEPT ![h] = i]
    BY <1>1, <2>1 DEF Unlinked, TypeInv, MemoryInv
  <2>5. lru' \in [Classes -> Seq(Chunks)]
    BY <1>1, OffLists DEF Unlinked
  <2> QED
    BY <2>3, <2>4, <2>5, ItemSet DEF TypeInv
<1>2. CASE ~Linked(h)
  BY <1>2 DEF Unlinked, TypeInv, MemoryInv
<1> QED
  BY <1>1, <1>2

\* The free list do_slabs_alloc() takes the first chunk of.
FreeList(c) == IF slots[c] = <<>> THEN Reverse(PageChunks(NextPage, c)) ELSE slots[c]

LEMMA FreeListFacts ==
  ASSUME TypeInv, NEW c \in Classes, slots[c] # <<>> \/ MayGrow(c)
  PROVE  /\ FreeList(c) \in Seq(Chunks) /\ FreeList(c) # <<>>
         /\ slots[c] = <<>> => /\ IsInjective(FreeList(c))
                               /\ \A h : Contains(FreeList(c), h)
                                         <=> Contains(PageChunks(NextPage, c), h)
<1>1. CASE slots[c] = <<>>
  <2>1. NextPage \in Pages
    BY <1>1, NextPageFacts
  <2>2. /\ PageChunks(NextPage, c) \in Seq(Chunks) /\ PageChunks(NextPage, c) # <<>>
        /\ IsInjective(PageChunks(NextPage, c))
    BY <2>1, PageFacts
  <2>3. FreeList(c) = Reverse(PageChunks(NextPage, c))
    BY <1>1 DEF FreeList
  <2>4. /\ FreeList(c) \in Seq(Chunks) /\ IsInjective(FreeList(c))
        /\ Len(FreeList(c)) = Len(PageChunks(NextPage, c))
        /\ \A h : Contains(FreeList(c), h) <=> Contains(PageChunks(NextPage, c), h)
    BY <2>2, <2>3, ReverseFacts
  <2>5. FreeList(c) # <<>>
    BY <2>2, <2>4
  <2> QED
    BY <2>4, <2>5
<1>2. CASE slots[c] # <<>>
  BY <1>2 DEF FreeList, TypeInv, MemoryInv
<1> QED
  BY <1>1, <1>2

LEMMA SlabsAllocTypes ==
  ASSUME TypeInv, NEW w \in Workers, At(w, "search"), SlabsAlloc(w),
         moving' = moving, slab_rebal' = slab_rebal,
         slab_rebalance_signal' = slab_rebalance_signal,
         item_locks' \in [Keys -> Workers \cup {None}], raced' \subseteq {"unlock", "unlink", "lists"}
  PROVE  TypeInv'
<1>1. PICK c : c = op[w].cls
  OBVIOUS
<1>2. c \in Classes
  BY <1>1, AtFacts DEF At, Command
<1>3. PICK free : free = FreeList(c)
  OBVIOUS
<1>4. /\ slots[c] # <<>> \/ MayGrow(c)
      /\ slots' = [slots EXCEPT ![c] = Tail(free)]
      /\ slab_list' = IF slots[c] = <<>> THEN [slab_list EXCEPT ![c] = Append(@, NextPage)]
                      ELSE slab_list
      /\ item' = [h \in Chunks |->
                     IF h = Head(free) THEN [Slabbed(item[h]) EXCEPT !.refcount = 1]
                     ELSE IF h \in ToSet(free) THEN Slabbed(item[h]) ELSE item[h]]
      /\ Take(w, Head(free)) /\ lru' = lru
  BY <1>1, <1>3 DEF SlabsAlloc, FreeList
<1>5. free \in Seq(Chunks) /\ free # <<>>
  BY <1>2, <1>3, <1>4, FreeListFacts
<1>6. Tail(free) \in Seq(Chunks) /\ Head(free) \in Chunks
  BY <1>5, TailFacts
<1>7. OpInv' /\ CacheInv'
  BY <1>4, <1>6, TakeTypes
<1>8. MemoryInv'
  <2>1. slots' \in [Classes -> Seq(Chunks)] /\ lru' \in [Classes -> Seq(Chunks)]
    BY <1>4, <1>6 DEF TypeInv, MemoryInv
  <2>2. ASSUME NEW h \in Chunks
        PROVE  item'[h] \in Item
    <3>1. item[h] \in Item /\ Slabbed(item[h]) \in Item
      BY SlabbedFacts DEF TypeInv, MemoryInv
    <3>2. [Slabbed(item[h]) EXCEPT !.refcount = 1] \in Item
      BY <3>1 DEF Item
    <3> QED
      BY <1>4, <3>1, <3>2
  <2>3. item' \in [Chunks -> Item]
    BY <1>4, <2>2
  <2> QED
    BY <2>1, <2>3 DEF MemoryInv
<1>9. PagesInv' /\ \A d \in Classes : Len(slab_list'[d]) >= Len(slab_list[d])
  <2>1. CASE slots[c] = <<>>
    BY <1>2, <1>4, <2>1, GrowTypes
  <2>2. CASE slots[c] # <<>>
    <3>1. slab_list' = slab_list
      BY <1>4, <2>2
    <3>2. \A d \in Classes : Len(slab_list[d]) \in Nat
      BY DEF TypeInv, PagesInv
    <3>3. PagesInv'
      BY <3>1 DEF TypeInv, PagesInv, PageSet
    <3> QED
      BY <3>1, <3>2, <3>3
  <2> QED
    BY <1>4, <2>1, <2>2
<1>10. RebalInv'
  <2>1. \A d \in Classes : Len(slab_list[d]) \in Nat /\ Len(slab_list'[d]) \in Nat
    BY <1>9 DEF TypeInv, PagesInv
  <2> QED
    BY <1>9, <2>1 DEF TypeInv, RebalInv
<1> QED
  BY <1>7, <1>8, <1>9, <1>10 DEF TypeInv

-----------------------------------------------------------------------------
(***************************************************************************)
(* The types of every step of a worker.                                    *)
(***************************************************************************)
LEMMA TypesKept ==
  ASSUME TypeInv, OpInv', CacheInv', MemoryInv', slab_list' = slab_list, moving' = moving,
         slab_rebal' = slab_rebal, slab_rebalance_signal' = slab_rebalance_signal
  PROVE  TypeInv'
<1>1. PagesInv'
  BY DEF TypeInv, PagesInv, PageSet
<1>2. RebalInv'
  BY DEF TypeInv, RebalInv
<1> QED
  BY <1>1, <1>2 DEF TypeInv

\* A worker's step that is no allocation and leaves cache_lock alone.
LEMMA StepTypes ==
  ASSUME TypeInv, NEW w \in Workers, NEW o \in Command \cup {Idle},
         o # Idle => Shape(o), op' = [op EXCEPT ![w] = o],
         o # Idle /\ o.at = "search" <=> op[w] # Idle /\ op[w].at = "search",
         cache_lock' = cache_lock, slab_list' = slab_list, moving' = moving,
         slab_rebal' = slab_rebal, slab_rebalance_signal' = slab_rebalance_signal,
         item_locks' \in [Keys -> Workers \cup {None}], raced' \subseteq {"unlock", "unlink", "lists"},
         MemoryInv'
  PROVE  TypeInv'
<1>1. OpInv'
  BY OpEdit DEF TypeInv
<1>2. CacheInv'
  BY CacheEdit
<1> QED
  BY <1>1, <1>2, TypesKept

LEMMA LocksKept ==
  ASSUME TypeInv
  PROVE  item_locks \in [Keys -> Workers \cup {None}] /\ raced \subseteq {"unlock", "unlink", "lists"}
BY DEF TypeInv, CacheInv

LEMMA QuietTypes ==
  ASSUME TypeInv, NEW w \in Workers, OpInv', CacheInv', UNCHANGED memvars, UNCHANGED movevars
  PROVE  TypeInv'
<1>1. MemoryInv'
  BY DEF memvars, TypeInv, MemoryInv
<1> QED
  BY <1>1, TypesKept DEF memvars, movevars

LEMMA FoundTypes ==
  ASSUME TypeInv, NEW w \in Workers, Found(w)
  PROVE  TypeInv'
<1>1. Searching(w) /\ At(w, "search") /\ UnlockHold(w)
      /\ moving' = moving /\ slab_rebal' = slab_rebal
      /\ slab_rebalance_signal' = slab_rebalance_signal
  BY DEF Found, Searching, movevars
<1>2. item_locks' \in [Keys -> Workers \cup {None}] /\ raced' \subseteq {"unlock", "unlink", "lists"}
  BY <1>1, UnlockHoldTypes
<1>3. CASE SlabsAlloc(w)
  BY <1>1, <1>2, <1>3, SlabsAllocTypes
<1>4. CASE ~SlabsAlloc(w)
  <2>1. PICK h : h = op[w].search
    OBVIOUS
  <2>2. h \in Chunks
    BY <1>1, <2>1, PrevsFacts
  <2>3. /\ item' = [item EXCEPT ![h].flags = @ \ {"LINKED"}, ![h].slabs_clsid = 0]
        /\ lru' = [c \in Classes |-> RemoveFirst(lru[c], h)]
        /\ Take(w, h) /\ slots' = slots /\ slab_list' = slab_list
    BY <1>4, <2>1 DEF Found
  <2>4. OpInv' /\ CacheInv'
    BY <1>1, <1>2, <2>2, <2>3, TakeTypes
  <2>5. item' \in [Chunks -> Item]
    <3>1. item[h] \in Item
      BY <2>2 DEF TypeInv, MemoryInv
    <3>2. PICK f : f = item[h].flags \ {"LINKED"}
      OBVIOUS
    <3>3. f \in Flags /\ 0 \in ClassIds
      BY <3>1, <3>2, ItemFields DEF Flags, ClassIds
    <3>4. PICK i : i = [item[h] EXCEPT !.flags = f, !.slabs_clsid = 0]
      OBVIOUS
    <3>5. i \in Item
      BY <3>1, <3>3, <3>4 DEF Item
    <3>6. item' = [item EXCEPT ![h] = i]
      BY <2>2, <2>3, <3>2, <3>4 DEF TypeInv, MemoryInv
    <3> QED
      BY <2>2, <3>5, <3>6, ItemSet DEF TypeInv
  <2>6. lru' \in [Classes -> Seq(Chunks)]
    BY <2>3, OffLists
  <2>7. MemoryInv'
    BY <2>3, <2>5, <2>6 DEF TypeInv, MemoryInv
  <2> QED
    BY <1>1, <2>3, <2>4, <2>7, TypesKept
<1> QED
  BY <1>3, <1>4

\* What a command that gets no chunk goes on with: an append with what it has,
\* a set with nothing in hand, as a delete if it is not over.
LEMMA RefusedFacts ==
  ASSUME TypeInv, NEW w \in Workers, At(w, "search"), NEW o \in Refused(w)
  PROVE  /\ o \in Command \cup {Idle} /\ (o # Idle => Shape(o) /\ o.at \in {"drop", "lock"})
         /\ op[w].old # None =>
               /\ o \in Command /\ o # Idle /\ o.at = "drop"
               /\ o.it = op[w].it /\ o.old = op[w].old /\ o.new = op[w].new
               /\ o.cls = op[w].cls /\ o.do = op[w].do /\ o.free = op[w].free /\ o.key = op[w].key
         /\ op[w].old = None /\ o # Idle =>
               /\ o.at = "lock"
               /\ o.it = None /\ o.old = None /\ o.new = None /\ o.free = None
<1>1. op[w] \in Command /\ Shape(op[w]) /\ op[w] # Idle /\ op[w].at = "search"
      /\ op[w].free = None
  BY AtFacts DEF At
<1>2. PICK p : p = [op[w] EXCEPT !.search = None, !.tries = 0, !.hold = None]
  OBVIOUS
<1>3. None \in MaybeChunk
  BY DEF MaybeChunk
<1>4. /\ p \in Command /\ p.at = op[w].at /\ p.do = op[w].do /\ p.key = op[w].key
      /\ p.it = op[w].it /\ p.old = op[w].old /\ p.new = op[w].new /\ p.cls = op[w].cls
      /\ p.free = op[w].free
  BY <1>1, <1>2, <1>3 DEF Command
<1>5. CASE op[w].old # None
  <2>1. o = [p EXCEPT !.at = "drop"]
    BY <1>2, <1>5 DEF Refused, InAppend
  <2>2. /\ o \in Command /\ o.at = "drop" /\ o.do = p.do /\ o.key = p.key
        /\ o.it = p.it /\ o.old = p.old /\ o.new = p.new /\ o.cls = p.cls
        /\ o.free = p.free
    BY <1>4, <2>1 DEF Command, Places
  <2>3. o # Idle
    BY <2>2 DEF Command, Idle
  <2>4. Shape(o)
    BY <1>1, <1>4, <1>5, <2>2 DEF Shape, Stores
  <2> QED
    BY <1>4, <1>5, <2>2, <2>3, <2>4
<1>6. CASE op[w].old = None /\ o # Idle
  <2>1. op[w].do = "set" /\ o = [p EXCEPT !.do = "delete", !.at = "lock"]
    BY <1>2, <1>4, <1>6 DEF Refused, InAppend
  <2>2. /\ o \in Command /\ o.at = "lock" /\ o.do = "delete"
        /\ o.it = p.it /\ o.old = p.old /\ o.new = p.new /\ o.free = p.free
    BY <1>4, <2>1 DEF Command, Places
  <2>3. o.it = None /\ o.old = None /\ o.new = None /\ o.free = None
    BY <1>1, <1>4, <1>6, <2>2 DEF Shape
  <2>4. Shape(o)
    BY <2>2, <2>3 DEF Shape, Stores
  <2> QED
    BY <1>6, <2>2, <2>3, <2>4
<1>7. CASE op[w].old = None /\ o = Idle
  BY <1>7
<1> QED
  BY <1>5, <1>6, <1>7

LEMMA ExhaustedTypes ==
  ASSUME TypeInv, NEW w \in Workers, Exhausted(w)
  PROVE  TypeInv'
<1>1. At(w, "search") /\ UNCHANGED movevars
      /\ moving' = moving /\ slab_rebal' = slab_rebal
      /\ slab_rebalance_signal' = slab_rebalance_signal
      /\ item_locks' = item_locks /\ raced' = raced
  BY DEF Exhausted, movevars
<1>2. CASE SlabsAlloc(w)
  BY <1>1, <1>2, SlabsAllocTypes, LocksKept
<1>3. CASE ~SlabsAlloc(w)
  <2>1. op[w] \in Command /\ Shape(op[w]) /\ op[w] # Idle /\ op[w].at = "search"
        /\ op[w].free = None
    BY <1>1, AtFacts DEF At
  <2>2. PICK o \in Refused(w) : op' = [op EXCEPT ![w] = o]
    BY <1>3 DEF Exhausted
  <2>3. op' = [op EXCEPT ![w] = o]
    BY <2>2
  <2>4. o \in Command \cup {Idle} /\ ~(o # Idle /\ o.at = "search")
    BY <1>1, RefusedFacts
  <2>5. o # Idle => Shape(o)
    BY <1>1, RefusedFacts
  <2>6. OpInv'
    BY <2>3, <2>4, <2>5, OpEdit DEF TypeInv
  <2>7. cache_lock = w /\ cache_lock' = None /\ UNCHANGED memvars
    BY <1>3, <2>1 DEF TypeInv, CacheInv, Exhausted
  <2>8. CacheInv'
    BY <1>1, <2>3, <2>4, <2>7, CacheEdit, LocksKept
  <2> QED
    BY <1>1, <2>6, <2>7, <2>8, QuietTypes
<1> QED
  BY <1>2, <1>3

\* The item that has been allocated is filled in.
LEMMA InitItemFacts ==
  ASSUME TypeInv, NEW w \in Workers, InitItem(w)
  PROVE  \E h \in Chunks : \E i \in Item :
            /\ h = IF op[w].old # None THEN op[w].new ELSE op[w].it
            /\ i = [item[h] EXCEPT !.flags = {}, !.slabs_clsid = op[w].cls, !.key = op[w].key]
            /\ item' = [item EXCEPT ![h] = i] /\ item'[h] = i
            /\ op' = [op EXCEPT ![w] = [op[w] EXCEPT !.at = IF op[w].old # None THEN "unlink"
                                                            ELSE "reading"]]
<1>1. op[w] \in Command /\ Shape(op[w]) /\ op[w] # Idle /\ op[w].at = "init"
      /\ op[w].free = None
  BY AtFacts DEF At, InitItem
<1>2. PICK h : h = IF op[w].old # None THEN op[w].new ELSE op[w].it
  OBVIOUS
<1>3. h \in Chunks
  BY <1>1, <1>2 DEF Shape, Command, MaybeChunk
<1>4. PICK cls, key : cls = op[w].cls /\ key = op[w].key
  OBVIOUS
<1>5. cls \in ClassIds /\ key \in Keys \cup {None} /\ {} \in Flags
  BY <1>1, <1>4 DEF Command, ClassIds, Flags
<1>6. PICK i : i = [item[h] EXCEPT !.flags = {}, !.slabs_clsid = cls, !.key = key]
  OBVIOUS
<1>7. item[h] \in Item
  BY <1>3 DEF TypeInv, MemoryInv
<1>8. i \in Item
  BY <1>5, <1>6, <1>7 DEF Item
<1>9. item' = [item EXCEPT ![h] = i]
  BY <1>2, <1>3, <1>4, <1>6 DEF InitItem, InAppend, TypeInv, MemoryInv
<1>10. item'[h] = i
  BY <1>3, <1>9 DEF TypeInv, MemoryInv
<1>11. op' = [op EXCEPT ![w] = [op[w] EXCEPT !.at = IF op[w].old # None THEN "unlink"
                                                    ELSE "reading"]]
  BY DEF InitItem, InAppend, TypeInv, OpInv
<1> QED
  BY <1>2, <1>3, <1>4, <1>6, <1>8, <1>9, <1>10, <1>11

LEMMA InitItemTypes ==
  ASSUME TypeInv, NEW w \in Workers, InitItem(w)
  PROVE  TypeInv'
<1>1. PICK h \in Chunks, i \in Item :
            /\ item' = [item EXCEPT ![h] = i]
            /\ op' = [op EXCEPT ![w] = [op[w] EXCEPT !.at = IF op[w].old # None THEN "unlink"
                                                            ELSE "reading"]]
  BY InitItemFacts
<1>2. op[w] \in Command /\ Shape(op[w]) /\ op[w] # Idle /\ op[w].at = "init"
      /\ op[w].free = None
  BY AtFacts DEF At, InitItem
<1>3. PICK o : o = [op[w] EXCEPT !.at = IF op[w].old # None THEN "unlink" ELSE "reading"]
  OBVIOUS
<1>4. o \in Command /\ o # Idle /\ o.at # "search"
  BY <1>2, <1>3 DEF Command, Places, Idle
<1>5. Shape(o)
  BY <1>2, <1>3 DEF Shape, Stores, Command
<1>6. MemoryInv'
  BY <1>1, ItemSet DEF TypeInv, MemoryInv, InitItem
<1>7. op' = [op EXCEPT ![w] = o]
  BY <1>1, <1>3
<1>8. cache_lock' = cache_lock /\ slab_list' = slab_list /\ moving' = moving
      /\ slab_rebal' = slab_rebal /\ slab_rebalance_signal' = slab_rebalance_signal
      /\ item_locks' = item_locks /\ raced' = raced
  BY DEF InitItem, movevars
<1>9. item_locks' \in [Keys -> Workers \cup {None}] /\ raced' \subseteq {"unlock", "unlink", "lists"}
  BY <1>8, LocksKept
<1> QED
  BY <1>2, <1>4, <1>5, <1>6, <1>7, <1>8, <1>9, StepTypes

LEMMA ClientGoesOnTypes ==
  ASSUME TypeInv, NEW w \in Workers, ClientGoesOn(w)
  PROVE  TypeInv'
<1>1. PICK next \in {"store", "remove"} :
         /\ At(w, "reading") \/ (At(w, "writing") /\ next = "remove")
         /\ op' = [op EXCEPT ![w].at = next]
  BY DEF ClientGoesOn
<1>2. op[w] \in Command /\ Shape(op[w]) /\ op[w] # Idle /\ op[w].free = None
      /\ (op[w].at = "reading" \/ (op[w].at = "writing" /\ next = "remove"))
  BY <1>1, AtFacts DEF At
<1>3. PICK o : o = [op[w] EXCEPT !.at = next]
  OBVIOUS
<1>4. o \in Command /\ o # Idle /\ o.at # "search"
  BY <1>2, <1>3 DEF Command, Places, Idle
<1>5. Shape(o)
  BY <1>2, <1>3 DEF Shape, Stores, Command
<1>6. op' = [op EXCEPT ![w] = o]
  BY <1>1, <1>3 DEF TypeInv, OpInv
<1>7. CacheInv'
  BY <1>2, <1>4, <1>6, CacheEdit, LocksKept DEF ClientGoesOn, movevars
<1>8. OpInv'
  BY <1>4, <1>5, <1>6, OpEdit DEF TypeInv
<1> QED
  BY <1>7, <1>8, QuietTypes DEF ClientGoesOn

LEMMA ItemLockTypes ==
  ASSUME TypeInv, NEW w \in Workers, ItemLock(w)
  PROVE  TypeInv'
<1>1. op[w] \in Command /\ Shape(op[w]) /\ op[w] # Idle /\ op[w].free = None
      /\ op[w].at \in {"lock", "store", "remove"}
  BY AtFacts DEF At, ItemLock
<1>2. PICK at : at = IF op[w].at = "remove" THEN "removing" ELSE "get"
  OBVIOUS
<1>3. PICK o : o = [op[w] EXCEPT !.at = at]
  OBVIOUS
<1>4. op' = [op EXCEPT ![w] = o]
  BY <1>2, <1>3 DEF TypeInv, OpInv, ItemLock
<1>5. o \in Command /\ o # Idle /\ o.at # "search"
  BY <1>1, <1>2, <1>3 DEF Command, Places, Idle
<1>6. Shape(o)
  BY <1>1, <1>2, <1>3 DEF Shape, Stores, Command
<1>7. item_locks' \in [Keys -> Workers \cup {None}]
  BY LocksKept DEF ItemLock
<1>8. CacheInv'
  BY <1>1, <1>4, <1>5, <1>7, CacheEdit, LocksKept DEF ItemLock, movevars
<1>9. OpInv'
  BY <1>4, <1>5, <1>6, OpEdit DEF TypeInv
<1> QED
  BY <1>8, <1>9, QuietTypes DEF ItemLock

LEMMA UnlockItemFacts ==
  ASSUME TypeInv, NEW w \in Workers, ItemUnlock(w)
  PROVE  item_locks' \in [Keys -> Workers \cup {None}]
BY LocksKept DEF ItemUnlock

\* A command that ends, or has still to free a chunk.
LEMMA EndFacts ==
  ASSUME TypeInv, NEW w \in Workers, op[w] # Idle, op[w].free = None,
         op[w].old = None, op[w].new = None, op[w].at # "search",
         NEW freed \in MaybeChunk, End(w, freed)
  PROVE  \E o \in Command \cup {Idle} :
            /\ op' = [op EXCEPT ![w] = o] /\ (o # Idle => Shape(o) /\ o.at # "search")
            /\ o = IF freed = None THEN Idle
                   ELSE [op[w] EXCEPT !.it = None, !.free = freed, !.at = "unlock"]
            /\ item_locks' \in [Keys -> Workers \cup {None}]
            /\ item_locks' = IF freed = None THEN [item_locks EXCEPT ![op[w].key] = None]
                             ELSE item_locks
<1>1. op[w] \in Command
  BY AtFacts
<1>2. CASE freed = None
  <2>1. item_locks' \in [Keys -> Workers \cup {None}]
    BY <1>2, UnlockItemFacts DEF End
  <2> QED
    BY <1>2, <2>1 DEF End, ItemUnlock
<1>3. CASE freed # None
  <2>1. PICK o : o = [op[w] EXCEPT !.it = None, !.free = freed, !.at = "unlock"]
    OBVIOUS
  <2>2. None \in MaybeChunk
    BY DEF MaybeChunk
  <2>3. o \in Command /\ o # Idle /\ o.at = "unlock"
    BY <1>1, <2>1, <2>2 DEF Command, Places, Idle
  <2>4. Shape(o)
    BY <1>1, <2>1 DEF Shape, Stores, Command
  <2>5. op' = [op EXCEPT ![w] = o]
    BY <1>3, <2>1 DEF End, TypeInv, OpInv
  <2>6. item_locks' = item_locks
    BY <1>3 DEF End
  <2> QED
    BY <1>3, <2>1, <2>3, <2>4, <2>5, <2>6, LocksKept
<1> QED
  BY <1>2, <1>3

\* do_item_get() has found nothing.
LEMMA GetNothingFacts ==
  ASSUME TypeInv, NEW w \in Workers, At(w, "get"), NEW freed \in MaybeChunk,
         GetNothing(w, freed)
  PROVE  \E o \in Command \cup {Idle} :
            /\ op' = [op EXCEPT ![w] = o] /\ (o # Idle => Shape(o) /\ o.at # "search")
            /\ IF ~Stores(op[w])
               THEN o = IF freed = None THEN Idle
                        ELSE [op[w] EXCEPT !.it = None, !.free = freed, !.at = "unlock"]
               ELSE o = [op[w] EXCEPT !.free = freed,
                                      !.at = IF op[w].do = "set" THEN "link" ELSE "drop"]
            /\ item_locks' \in [Keys -> Workers \cup {None}]
            /\ item_locks' = IF freed = None /\ ~Stores(op[w])
                             THEN [item_locks EXCEPT ![op[w].key] = None]
                             ELSE item_locks
<1>1. op[w] \in Command /\ Shape(op[w]) /\ op[w] # Idle /\ op[w].at = "get"
      /\ op[w].free = None
  BY AtFacts DEF At
<1>2. op[w].old = None /\ op[w].new = None
  BY <1>1 DEF Shape
<1>3. op[w].do \in {"get", "delete"} <=> ~Stores(op[w])
  BY <1>1 DEF Stores, Command
<1>4. CASE ~Stores(op[w])
  <2>1. End(w, freed)
    BY <1>3, <1>4 DEF GetNothing
  <2>2. PICK o \in Command \cup {Idle} :
            /\ op' = [op EXCEPT ![w] = o] /\ (o # Idle => Shape(o) /\ o.at # "search")
            /\ o = IF freed = None THEN Idle
                   ELSE [op[w] EXCEPT !.it = None, !.free = freed, !.at = "unlock"]
            /\ item_locks' \in [Keys -> Workers \cup {None}]
            /\ item_locks' = IF freed = None THEN [item_locks EXCEPT ![op[w].key] = None]
                             ELSE item_locks
    BY <1>1, <1>2, <2>1, EndFacts
  <2> QED
    BY <1>4, <2>2
<1>5. CASE Stores(op[w])
  <2>1. PICK at : at = IF op[w].do = "set" THEN "link" ELSE "drop"
    OBVIOUS
  <2>2. PICK o : o = [op[w] EXCEPT !.free = freed, !.at = at]
    OBVIOUS
  <2>3. o \in Command /\ o # Idle /\ o.at # "search"
    BY <1>1, <2>1, <2>2 DEF Command, Places, Idle
  <2>4. Shape(o)
    BY <1>1, <1>5, <2>1, <2>2 DEF Shape, Stores, Command
  <2>5. op' = [op EXCEPT ![w] = o] /\ item_locks' = item_locks
    BY <1>3, <1>5, <2>1, <2>2 DEF GetNothing, TypeInv, OpInv
  <2> QED
    BY <1>5, <2>1, <2>2, <2>3, <2>4, <2>5, LocksKept
<1> QED
  BY <1>4, <1>5

\* do_item_get() has found an item.
LEMMA GetFoundFacts ==
  ASSUME TypeInv, NEW w \in Workers, At(w, "get"), NEW h \in Chunks, GetFound(w, h)
  PROVE  \E o \in Command :
            /\ op' = [op EXCEPT ![w] = o] /\ o # Idle /\ Shape(o) /\ o.at # "search"
            /\ IF ~Stores(op[w])
               THEN o = [op[w] EXCEPT !.it = h,
                                      !.at = IF op[w].do = "get" THEN "writing" ELSE "delete"]
               ELSE o = [op[w] EXCEPT !.old = h,
                                      !.at = IF op[w].do = "set" THEN "unlink" ELSE "alloc"]
            /\ item_locks' \in [Keys -> Workers \cup {None}]
            /\ item_locks' = IF ~Stores(op[w]) THEN [item_locks EXCEPT ![op[w].key] = None]
                             ELSE item_locks
            /\ item' = [item EXCEPT ![h].refcount = item[h].refcount + 1]
            /\ lru' = lru
<1>1. op[w] \in Command /\ Shape(op[w]) /\ op[w] # Idle /\ op[w].at = "get"
      /\ op[w].free = None
  BY AtFacts DEF At
<1>2. op[w].old = None /\ op[w].new = None
  BY <1>1 DEF Shape
<1>3. op[w].do \in {"get", "delete"} <=> ~Stores(op[w])
  BY <1>1 DEF Stores, Command
<1>4. h \in MaybeChunk /\ h # None
  BY SlabMoverAssumption DEF MaybeChunk
<1>5. item' = [item EXCEPT ![h].refcount = item[h].refcount + 1] /\ lru' = lru
  BY DEF GetFound
<1>6. CASE ~Stores(op[w])
  <2>1. PICK at : at = IF op[w].do = "get" THEN "writing" ELSE "delete"
    OBVIOUS
  <2>2. PICK o : o = [op[w] EXCEPT !.it = h, !.at = at]
    OBVIOUS
  <2>3. o \in Command /\ o # Idle /\ o.at # "search"
    BY <1>1, <1>4, <2>1, <2>2 DEF Command, Places, Idle
  <2>4. Shape(o)
    BY <1>1, <1>2, <1>4, <1>6, <2>1, <2>2 DEF Shape, Stores, Command
  <2>5. op' = [op EXCEPT ![w] = o]
    BY <1>3, <1>6, <2>1, <2>2 DEF GetFound, TypeInv, OpInv
  <2>6. ItemUnlock(w)
    BY <1>3, <1>6 DEF GetFound
  <2>7. item_locks' \in [Keys -> Workers \cup {None}]
    BY <2>6, UnlockItemFacts
  <2>8. item_locks' = [item_locks EXCEPT ![op[w].key] = None]
    BY <2>6 DEF ItemUnlock
  <2> QED
    BY <1>5, <1>6, <2>1, <2>2, <2>3, <2>4, <2>5, <2>7, <2>8
<1>7. CASE Stores(op[w])
  <2>1. PICK at : at = IF op[w].do = "set" THEN "unlink" ELSE "alloc"
    OBVIOUS
  <2>2. PICK o : o = [op[w] EXCEPT !.old = h, !.at = at]
    OBVIOUS
  <2>3. o \in Command /\ o # Idle /\ o.at # "search"
    BY <1>1, <1>4, <2>1, <2>2 DEF Command, Places, Idle
  <2>4. Shape(o)
    BY <1>1, <1>2, <1>4, <1>7, <2>1, <2>2 DEF Shape, Stores, Command
  <2>5. op' = [op EXCEPT ![w] = o] /\ item_locks' = item_locks
    BY <1>3, <1>7, <2>1, <2>2 DEF GetFound, TypeInv, OpInv
  <2> QED
    BY <1>5, <1>7, <2>1, <2>2, <2>3, <2>4, <2>5, LocksKept
<1> QED
  BY <1>6, <1>7

LEMMA DoItemGetTypes ==
  ASSUME TypeInv, NEW w \in Workers, DoItemGet(w)
  PROVE  TypeInv'
<1>1. At(w, "get") /\ op[w] # Idle /\ op[w].at = "get"
  BY DEF DoItemGet, At
<1>2. cache_lock' = cache_lock /\ slab_list' = slab_list /\ moving' = moving /\ slots' = slots
      /\ slab_rebal' = slab_rebal /\ slab_rebalance_signal' = slab_rebalance_signal
  BY DEF DoItemGet, movevars
<1>3. raced' \subseteq {"unlock", "unlink", "lists"}
  <2>1. raced' \in {raced, raced \cup {"unlink"}, raced \cup {"unlink", "lists"}}
    BY DEF DoItemGet
  <2> QED
    BY <2>1, LocksKept
<1>4. CASE GetNothing(w, None) /\ UNCHANGED <<item, lru>>
  <2>1. None \in MaybeChunk
    BY DEF MaybeChunk
  <2>2. PICK o \in Command \cup {Idle} :
            /\ op' = [op EXCEPT ![w] = o] /\ (o # Idle => Shape(o) /\ o.at # "search")
            /\ item_locks' \in [Keys -> Workers \cup {None}]
    BY <1>1, <1>4, <2>1, GetNothingFacts
  <2>3. MemoryInv'
    BY <1>2, <1>4 DEF TypeInv, MemoryInv
  <2> QED
    BY <1>1, <1>2, <1>3, <2>2, <2>3, StepTypes
<1>5. CASE \E h \in Chunks : GetFound(w, h)
  <2>1. PICK h \in Chunks : GetFound(w, h)
    BY <1>5
  <2>2. PICK o \in Command :
            /\ op' = [op EXCEPT ![w] = o] /\ o # Idle /\ Shape(o) /\ o.at # "search"
            /\ item_locks' \in [Keys -> Workers \cup {None}]
            /\ item' = [item EXCEPT ![h].refcount = item[h].refcount + 1]
            /\ lru' = lru
    BY <1>1, <2>1, GetFoundFacts
  <2>3. item[h] \in Item
    BY DEF TypeInv, MemoryInv
  <2>4. item[h].refcount + 1 \in Int
    BY <2>3, ItemFields
  <2>5. MemoryInv'
    BY <1>2, <2>2, <2>4, RefSet DEF TypeInv, MemoryInv
  <2> QED
    BY <1>1, <1>2, <1>3, <2>2, <2>5, StepTypes
<1>6. CASE \E h \in Chunks : Unlinked(h) /\ GetNothing(w, Dropped(h))
  <2>1. PICK h \in Chunks : Unlinked(h) /\ GetNothing(w, Dropped(h))
    BY <1>6
  <2>2. Dropped(h) \in MaybeChunk
    BY DEF Dropped, MaybeChunk
  <2>3. PICK o \in Command \cup {Idle} :
            /\ op' = [op EXCEPT ![w] = o] /\ (o # Idle => Shape(o) /\ o.at # "search")
            /\ item_locks' \in [Keys -> Workers \cup {None}]
    BY <1>1, <2>1, <2>2, GetNothingFacts
  <2>4. MemoryInv'
    BY <1>2, <2>1, UnlinkedTypes DEF TypeInv, MemoryInv
  <2> QED
    BY <1>1, <1>2, <1>3, <2>3, <2>4, StepTypes
<1> QED
  BY <1>4, <1>5, <1>6 DEF DoItemGet

LEMMA UnlinkTypes ==
  ASSUME TypeInv, NEW w \in Workers, Unlink(w)
  PROVE  TypeInv'
<1>1. cache_lock' = cache_lock /\ slab_list' = slab_list /\ moving' = moving /\ slots' = slots
      /\ slab_rebal' = slab_rebal /\ slab_rebalance_signal' = slab_rebalance_signal
      /\ item_locks' = item_locks /\ raced' = raced
  BY DEF Unlink, movevars
<1>2. op[w] \in Command /\ Shape(op[w]) /\ op[w] # Idle /\ op[w].free = None
      /\ op[w].at \in {"unlink", "delete"}
  BY AtFacts DEF At, Unlink
<1>3. PICK at, h : /\ at = IF op[w].at = "unlink" THEN "link" ELSE "remove"
                   /\ h = IF op[w].at = "unlink" THEN op[w].old ELSE op[w].it
  OBVIOUS
<1>4. Unlinked(h) /\ op' = [op EXCEPT ![w].at = at]
  BY <1>2, <1>3 DEF Unlink, At
<1>5. h \in Chunks
  BY <1>2, <1>3 DEF Shape, Command, MaybeChunk
<1>6. PICK o : o = [op[w] EXCEPT !.at = at]
  OBVIOUS
<1>7. o \in Command /\ o # Idle /\ o.at # "search"
  BY <1>2, <1>3, <1>6 DEF Command, Places, Idle
<1>8. Shape(o)
  BY <1>2, <1>3, <1>6 DEF Shape, Stores, Command
<1>9. op' = [op EXCEPT ![w] = o]
  BY <1>4, <1>6 DEF TypeInv, OpInv
<1>10. MemoryInv'
  BY <1>1, <1>4, <1>5, UnlinkedTypes DEF TypeInv, MemoryInv
<1>11. item_locks' \in [Keys -> Workers \cup {None}] /\ raced' \subseteq {"unlock", "unlink", "lists"}
  BY <1>1, LocksKept
<1> QED
  BY <1>1, <1>2, <1>7, <1>8, <1>9, <1>10, <1>11, StepTypes

\* What is linked.
LEMMA LinkFacts ==
  ASSUME TypeInv, NEW w \in Workers, Link(w)
  PROVE  \E h \in Chunks : \E i \in Item :
            /\ h = IF op[w].new # None THEN op[w].new ELSE op[w].it
            /\ item' = [item EXCEPT ![h] = i] /\ item'[h] = i
            /\ i.flags = item[h].flags \cup {"LINKED"} /\ i.refcount = item[h].refcount + 1
            /\ i.slabs_clsid = item[h].slabs_clsid /\ i.key = item[h].key
            /\ lru' = [lru EXCEPT ![op[w].cls] = <<h>> \o lru[op[w].cls]]
            /\ op' = [op EXCEPT ![w] = [op[w] EXCEPT !.at = "drop"]]
<1>1. op[w] \in Command /\ Shape(op[w]) /\ op[w] # Idle /\ op[w].at = "link"
      /\ op[w].free = None
  BY AtFacts DEF At, Link
<1>2. PICK h : h = IF op[w].new # None THEN op[w].new ELSE op[w].it
  OBVIOUS
<1>3. h \in Chunks
  BY <1>1, <1>2 DEF Shape, Command, MaybeChunk
<1>4. item[h] \in Item
  BY <1>3 DEF TypeInv, MemoryInv
<1>5. PICK f, n : f = item[h].flags \cup {"LINKED"} /\ n = item[h].refcount + 1
  OBVIOUS
<1>6. f \in Flags /\ n \in Int
  BY <1>4, <1>5, ItemFields DEF Flags
<1>7. PICK i : i = [item[h] EXCEPT !.flags = f, !.refcount = n]
  OBVIOUS
<1>8. i \in Item
  BY <1>4, <1>6, <1>7 DEF Item
<1>9. i.flags = f /\ i.refcount = n /\ i.slabs_clsid = item[h].slabs_clsid
      /\ i.key = item[h].key
  BY <1>4, <1>7 DEF Item
<1>10. item' = [item EXCEPT ![h].flags = @ \cup {"LINKED"}, ![h].refcount = @ + 1]
       /\ lru' = [lru EXCEPT ![op[w].cls] = <<h>> \o @]
       /\ op' = [op EXCEPT ![w].at = "drop"]
  BY <1>2 DEF Link
<1>11. item' = [item EXCEPT ![h] = i]
  BY <1>3, <1>5, <1>7, <1>10 DEF TypeInv, MemoryInv
<1>12. item'[h] = i
  BY <1>3, <1>11 DEF TypeInv, MemoryInv
<1>13. op' = [op EXCEPT ![w] = [op[w] EXCEPT !.at = "drop"]]
  BY <1>10 DEF TypeInv, OpInv
<1>14. /\ i.flags = item[h].flags \cup {"LINKED"} /\ i.refcount = item[h].refcount + 1
       /\ lru' = [lru EXCEPT ![op[w].cls] = <<h>> \o lru[op[w].cls]]
  BY <1>5, <1>9, <1>10
<1>15. /\ h = IF op[w].new # None THEN op[w].new ELSE op[w].it
       /\ item' = [item EXCEPT ![h] = i] /\ item'[h] = i
       /\ i.flags = item[h].flags \cup {"LINKED"} /\ i.refcount = item[h].refcount + 1
       /\ i.slabs_clsid = item[h].slabs_clsid /\ i.key = item[h].key
       /\ lru' = [lru EXCEPT ![op[w].cls] = <<h>> \o lru[op[w].cls]]
       /\ op' = [op EXCEPT ![w] = [op[w] EXCEPT !.at = "drop"]]
  BY <1>2, <1>9, <1>11, <1>12, <1>13, <1>14
<1> QED
  BY <1>3, <1>8, <1>15

LEMMA LinkTypes ==
  ASSUME TypeInv, NEW w \in Workers, Link(w)
  PROVE  TypeInv'
<1>1. cache_lock' = cache_lock /\ slab_list' = slab_list /\ moving' = moving /\ slots' = slots
      /\ slab_rebal' = slab_rebal /\ slab_rebalance_signal' = slab_rebalance_signal
      /\ item_locks' = item_locks /\ raced' = raced
  BY DEF Link, movevars
<1>2. op[w] \in Command /\ Shape(op[w]) /\ op[w] # Idle /\ op[w].at = "link"
      /\ op[w].free = None
  BY AtFacts DEF At, Link
<1>3. PICK h \in Chunks : \E i \in Item :
            /\ h = IF op[w].new # None THEN op[w].new ELSE op[w].it
            /\ item' = [item EXCEPT ![h] = i] /\ item'[h] = i
            /\ i.flags = item[h].flags \cup {"LINKED"} /\ i.refcount = item[h].refcount + 1
            /\ i.slabs_clsid = item[h].slabs_clsid /\ i.key = item[h].key
            /\ lru' = [lru EXCEPT ![op[w].cls] = <<h>> \o lru[op[w].cls]]
            /\ op' = [op EXCEPT ![w] = [op[w] EXCEPT !.at = "drop"]]
  BY LinkFacts
<1>4. lru' \in [Classes -> Seq(Chunks)]
  <2>1. op[w].cls \in Classes
    BY <1>2 DEF Command
  <2>2. lru \in [Classes -> Seq(Chunks)]
    BY DEF TypeInv, MemoryInv
  <2>3. <<h>> \o lru[op[w].cls] \in Seq(Chunks)
    BY <2>1, <2>2, PushFacts
  <2> QED
    BY <1>3, <2>1, <2>2, <2>3
<1>5. item' \in [Chunks -> Item]
  BY <1>3, ItemSet DEF TypeInv
<1>6. MemoryInv'
  BY <1>1, <1>4, <1>5 DEF TypeInv, MemoryInv
<1>7. PICK o : o = [op[w] EXCEPT !.at = "drop"]
  OBVIOUS
<1>8. o \in Command /\ o # Idle /\ o.at # "search"
  BY <1>2, <1>7 DEF Command, Places, Idle
<1>9. Shape(o)
  BY <1>2, <1>7 DEF Shape, Stores, Command
<1>10. item_locks' \in [Keys -> Workers \cup {None}] /\ raced' \subseteq {"unlock", "unlink", "lists"}
  BY <1>1, LocksKept
<1>11. op' = [op EXCEPT ![w] = o]
  BY <1>3, <1>7
<1> QED
  BY <1>1, <1>2, <1>6, <1>8, <1>9, <1>10, <1>11, StepTypes

\* What is dropped, and where the command goes on, o.
DropTo(w, o) ==
    \/ /\ op[w].old # None /\ op[w].old \in Chunks /\ item_locks' = item_locks
       /\ item' = [item EXCEPT ![op[w].old].refcount = item[op[w].old].refcount - 1]
       /\ o = [op[w] EXCEPT !.old = None, !.free = Dropped(op[w].old)]
    \/ /\ op[w].old = None /\ op[w].new # None /\ op[w].new \in Chunks
       /\ item_locks' = item_locks
       /\ item' = [item EXCEPT ![op[w].new].refcount = item[op[w].new].refcount - 1]
       /\ o = [op[w] EXCEPT !.new = None, !.free = Dropped(op[w].new)]
    \/ /\ op[w].old = None /\ op[w].new = None /\ item' = item
       /\ item_locks' = [item_locks EXCEPT ![op[w].key] = None]
       /\ o = [op[w] EXCEPT !.at = "remove"]

LEMMA DropFacts ==
  ASSUME TypeInv, NEW w \in Workers, Drop(w)
  PROVE  \E o \in Command :
            /\ op' = [op EXCEPT ![w] = o] /\ o # Idle /\ Shape(o) /\ o.at # "search"
            /\ item_locks' \in [Keys -> Workers \cup {None}]
            /\ DropTo(w, o)
<1>1. op[w] \in Command /\ Shape(op[w]) /\ op[w] # Idle /\ op[w].at = "drop"
      /\ op[w].free = None
  BY AtFacts DEF At, Drop
<1>2. \A h \in Chunks : Dropped(h) \in MaybeChunk
  BY DEF Dropped, MaybeChunk
<1>3. None \in MaybeChunk
  BY DEF MaybeChunk
<1>4. CASE op[w].old # None
  <2>1. op[w].old \in Chunks
    BY <1>1, <1>4 DEF Command, MaybeChunk
  <2>2. PICK freed : freed = Dropped(op[w].old)
    OBVIOUS
  <2>3. PICK o : o = [op[w] EXCEPT !.old = None, !.free = freed]
    OBVIOUS
  <2>4. o \in Command /\ o # Idle /\ o.at = "drop"
    BY <1>1, <1>2, <1>3, <2>1, <2>2, <2>3 DEF Command, Idle
  <2>5. Shape(o)
    BY <1>1, <2>3 DEF Shape, Stores, Command
  <2>6. op' = [op EXCEPT ![w] = o] /\ item_locks' = item_locks
    BY <1>4, <2>2, <2>3 DEF Drop, TypeInv, OpInv
  <2>7. item' = [item EXCEPT ![op[w].old].refcount = item[op[w].old].refcount - 1]
    BY <1>4 DEF Drop, DropRef
  <2> QED
    BY <1>4, <2>1, <2>2, <2>3, <2>4, <2>5, <2>6, <2>7, LocksKept DEF DropTo
<1>5. CASE op[w].old = None /\ op[w].new # None
  <2>1. op[w].new \in Chunks
    BY <1>1, <1>5 DEF Command, MaybeChunk
  <2>2. PICK freed : freed = Dropped(op[w].new)
    OBVIOUS
  <2>3. PICK o : o = [op[w] EXCEPT !.new = None, !.free = freed]
    OBVIOUS
  <2>4. o \in Command /\ o # Idle /\ o.at = "drop"
    BY <1>1, <1>2, <1>3, <2>1, <2>2, <2>3 DEF Command, Idle
  <2>5. Shape(o)
    BY <1>1, <2>3 DEF Shape, Stores, Command
  <2>6. op' = [op EXCEPT ![w] = o] /\ item_locks' = item_locks
    BY <1>5, <2>2, <2>3 DEF Drop, TypeInv, OpInv
  <2>7. item' = [item EXCEPT ![op[w].new].refcount = item[op[w].new].refcount - 1]
    BY <1>5 DEF Drop, DropRef
  <2> QED
    BY <1>5, <2>1, <2>2, <2>3, <2>4, <2>5, <2>6, <2>7, LocksKept DEF DropTo
<1>6. CASE op[w].old = None /\ op[w].new = None
  <2>1. PICK o : o = [op[w] EXCEPT !.at = "remove"]
    OBVIOUS
  <2>2. o \in Command /\ o # Idle /\ o.at = "remove"
    BY <1>1, <2>1 DEF Command, Places, Idle
  <2>3. Shape(o)
    BY <1>1, <1>6, <2>1 DEF Shape, Stores, Command
  <2>4. op' = [op EXCEPT ![w] = o] /\ ItemUnlock(w) /\ item' = item
    BY <1>6, <2>1 DEF Drop, TypeInv, OpInv
  <2>5. item_locks' = [item_locks EXCEPT ![op[w].key] = None]
    BY <2>4 DEF ItemUnlock
  <2> QED
    BY <1>6, <2>1, <2>2, <2>3, <2>4, <2>5, UnlockItemFacts DEF DropTo
<1> QED
  BY <1>4, <1>5, <1>6

LEMMA DropTypes ==
  ASSUME TypeInv, NEW w \in Workers, Drop(w)
  PROVE  TypeInv'
<1>1. cache_lock' = cache_lock /\ slab_list' = slab_list /\ moving' = moving /\ slots' = slots
      /\ slab_rebal' = slab_rebal /\ slab_rebalance_signal' = slab_rebalance_signal
      /\ lru' = lru /\ raced' = raced
  BY DEF Drop, movevars
<1>2. op[w] # Idle /\ op[w].at = "drop"
  BY DEF At, Drop
<1>3. PICK o \in Command :
            /\ op' = [op EXCEPT ![w] = o] /\ o # Idle /\ Shape(o) /\ o.at # "search"
            /\ item_locks' \in [Keys -> Workers \cup {None}]
            /\ DropTo(w, o)
  BY DropFacts
<1>4. item' \in [Chunks -> Item]
  <2>1. ASSUME NEW h \in Chunks, item' = [item EXCEPT ![h].refcount = item[h].refcount - 1]
        PROVE  item' \in [Chunks -> Item]
    <3>1. item[h] \in Item
      BY DEF TypeInv, MemoryInv
    <3>2. item[h].refcount - 1 \in Int
      BY <3>1, ItemFields
    <3> QED
      BY <2>1, <3>2, RefSet DEF TypeInv
  <2> QED
    BY <1>3, <2>1 DEF DropTo, TypeInv, MemoryInv
<1>5. MemoryInv'
  BY <1>1, <1>4 DEF TypeInv, MemoryInv
<1>6. raced' \subseteq {"unlock", "unlink", "lists"}
  BY <1>1, LocksKept
<1> QED
  BY <1>1, <1>2, <1>3, <1>5, <1>6, StepTypes

\* The last of a command but the freeing.
LEMMA ItemRemoveFacts ==
  ASSUME TypeInv, NEW w \in Workers, ItemRemove(w)
  PROVE  \E h \in Chunks : \E o \in Command \cup {Idle} :
            /\ op[w].it = h /\ op[w].old = None /\ op[w].new = None
            /\ op' = [op EXCEPT ![w] = o] /\ (o # Idle => Shape(o) /\ o.at # "search")
            /\ o = IF Dropped(h) = None THEN Idle
                   ELSE [op[w] EXCEPT !.it = None, !.free = Dropped(h), !.at = "unlock"]
            /\ item_locks' \in [Keys -> Workers \cup {None}]
            /\ item_locks' = IF Dropped(h) = None THEN [item_locks EXCEPT ![op[w].key] = None]
                             ELSE item_locks
            /\ item' = [item EXCEPT ![h].refcount = item[h].refcount - 1]
<1>1. op[w] \in Command /\ Shape(op[w]) /\ op[w] # Idle /\ op[w].at = "removing"
      /\ op[w].free = None
  BY AtFacts DEF At, ItemRemove
<1>2. PICK h : h = op[w].it
  OBVIOUS
<1>3. h \in Chunks /\ op[w].old = None /\ op[w].new = None
  BY <1>1, <1>2 DEF Shape, Command, MaybeChunk
<1>4. Dropped(h) \in MaybeChunk
  BY <1>3 DEF Dropped, MaybeChunk
<1>5. End(w, Dropped(h)) /\ item' = [item EXCEPT ![h].refcount = item[h].refcount - 1]
  BY <1>2 DEF ItemRemove, DropRef
<1>6. PICK o \in Command \cup {Idle} :
            /\ op' = [op EXCEPT ![w] = o] /\ (o # Idle => Shape(o) /\ o.at # "search")
            /\ o = IF Dropped(h) = None THEN Idle
                   ELSE [op[w] EXCEPT !.it = None, !.free = Dropped(h), !.at = "unlock"]
            /\ item_locks' \in [Keys -> Workers \cup {None}]
            /\ item_locks' = IF Dropped(h) = None THEN [item_locks EXCEPT ![op[w].key] = None]
                             ELSE item_locks
  <2>1. op[w].at # "search"
    BY <1>1
  <2> QED
    BY <1>1, <1>3, <1>4, <1>5, <2>1, EndFacts
<1> QED
  BY <1>2, <1>3, <1>5, <1>6

LEMMA ItemRemoveTypes ==
  ASSUME TypeInv, NEW w \in Workers, ItemRemove(w)
  PROVE  TypeInv'
<1>1. cache_lock' = cache_lock /\ slab_list' = slab_list /\ moving' = moving /\ slots' = slots
      /\ slab_rebal' = slab_rebal /\ slab_rebalance_signal' = slab_rebalance_signal
      /\ lru' = lru /\ raced' = raced
  BY DEF ItemRemove, movevars
<1>2. op[w] # Idle /\ op[w].at = "removing"
  BY DEF At, ItemRemove
<1>3. PICK h \in Chunks : \E o \in Command \cup {Idle} :
            /\ op' = [op EXCEPT ![w] = o] /\ (o # Idle => Shape(o) /\ o.at # "search")
            /\ item_locks' \in [Keys -> Workers \cup {None}]
            /\ item' = [item EXCEPT ![h].refcount = item[h].refcount - 1]
  BY ItemRemoveFacts
<1>4. item[h].refcount - 1 \in Int
  <2>1. item[h] \in Item
    BY DEF TypeInv, MemoryInv
  <2> QED
    BY <2>1, ItemFields
<1>5. MemoryInv'
  BY <1>1, <1>3, <1>4, RefSet DEF TypeInv, MemoryInv
<1>6. raced' \subseteq {"unlock", "unlink", "lists"}
  BY <1>1, LocksKept
<1> QED
  BY <1>1, <1>2, <1>3, <1>5, <1>6, StepTypes

LEMMA UnlockTypes ==
  ASSUME TypeInv, NEW w \in Workers, Unlock(w)
  PROVE  TypeInv'
<1>1. op[w] # Idle /\ op[w].at = "unlock" /\ ItemUnlock(w) /\ op' = [op EXCEPT ![w] = Idle]
      /\ UNCHANGED memvars /\ UNCHANGED movevars
      /\ moving' = moving /\ cache_lock' = cache_lock /\ raced' = raced
  BY DEF At, Unlock, movevars
<1>2. Idle \in Command \cup {Idle}
  OBVIOUS
<1>3. OpInv'
  BY <1>1, <1>2, OpEdit DEF TypeInv
<1>4. CacheInv'
  BY <1>1, CacheEdit, UnlockItemFacts, LocksKept
<1> QED
  BY <1>1, <1>3, <1>4, QuietTypes

\* What is freed.
LEMMA FreeItemFacts ==
  ASSUME TypeInv, NEW w \in Workers, FreeItem(w)
  PROVE  \E h \in Chunks : \E o \in Command :
            /\ op[w].free = h /\ op[w] # Idle
            /\ op' = [op EXCEPT ![w] = o] /\ o # Idle /\ Shape(o)
            /\ (o.at = "search" <=> op[w].at = "search")
            /\ o = [op[w] EXCEPT !.free = None]
            /\ item' = [item EXCEPT ![h] = Slabbed(item[h])]
            /\ slots' = [slots EXCEPT ![item[h].slabs_clsid] =
                            <<h>> \o slots[item[h].slabs_clsid]]
<1>1. op[w] \in Command /\ Shape(op[w]) /\ op[w] # Idle /\ op[w].free # None
  BY AtFacts DEF FreeItem
<1>2. PICK h : h = op[w].free
  OBVIOUS
<1>3. h \in Chunks
  BY <1>1, <1>2 DEF Command, MaybeChunk
<1>4. PICK o : o = [op[w] EXCEPT !.free = None]
  OBVIOUS
<1>5. None \in MaybeChunk
  BY DEF MaybeChunk
<1>6. o \in Command /\ o # Idle /\ o.at = op[w].at
  BY <1>1, <1>4, <1>5 DEF Command, Idle
<1>7. Shape(o)
  BY <1>1, <1>4 DEF Shape, Stores, Command
<1>8. op' = [op EXCEPT ![w] = o]
  BY <1>4 DEF FreeItem, TypeInv, OpInv
<1>9. item' = [item EXCEPT ![h] = Slabbed(item[h])]
      /\ slots' = [slots EXCEPT ![item[h].slabs_clsid] = <<h>> \o slots[item[h].slabs_clsid]]
  BY <1>2 DEF FreeItem
<1> QED
  BY <1>1, <1>2, <1>3, <1>4, <1>6, <1>7, <1>8, <1>9

LEMMA FreeItemTypes ==
  ASSUME TypeInv, NEW w \in Workers, FreeItem(w)
  PROVE  TypeInv'
<1>1. cache_lock' = cache_lock /\ slab_list' = slab_list /\ moving' = moving
      /\ slab_rebal' = slab_rebal /\ slab_rebalance_signal' = slab_rebalance_signal
      /\ lru' = lru /\ raced' = raced /\ item_locks' = item_locks
  BY DEF FreeItem, movevars
<1>2. PICK h \in Chunks : \E o \in Command :
            /\ op[w].free = h /\ op[w] # Idle
            /\ op' = [op EXCEPT ![w] = o] /\ o # Idle /\ Shape(o)
            /\ (o.at = "search" <=> op[w].at = "search")
            /\ o = [op[w] EXCEPT !.free = None]
            /\ item' = [item EXCEPT ![h] = Slabbed(item[h])]
            /\ slots' = [slots EXCEPT ![item[h].slabs_clsid] =
                            <<h>> \o slots[item[h].slabs_clsid]]
  BY FreeItemFacts
<1>3. item' \in [Chunks -> Item]
  <2>1. item[h] \in Item
    BY DEF TypeInv, MemoryInv
  <2>2. Slabbed(item[h]) \in Item
    BY <2>1, SlabbedFacts
  <2> QED
    BY <1>2, <2>2, ItemSet DEF TypeInv
<1>4. slots' \in [Classes -> Seq(Chunks)]
  <2>1. PICK c : c = item[h].slabs_clsid
    OBVIOUS
  <2>2. slots' = [slots EXCEPT ![c] = <<h>> \o slots[c]] /\ slots \in [Classes -> Seq(Chunks)]
    BY <1>2, <2>1 DEF TypeInv, MemoryInv
  <2>3. CASE c \in Classes
    <3>1. <<h>> \o slots[c] \in Seq(Chunks)
      BY <2>2, <2>3, PushFacts
    <3> QED
      BY <2>2, <2>3, <3>1
  <2>4. CASE c \notin Classes
    BY <2>2, <2>4
  <2> QED
    BY <2>3, <2>4
<1>5. MemoryInv'
  BY <1>1, <1>3, <1>4 DEF TypeInv, MemoryInv
<1>6. item_locks' \in [Keys -> Workers \cup {None}] /\ raced' \subseteq {"unlock", "unlink", "lists"}
  BY <1>1, LocksKept
<1> QED
  BY <1>1, <1>2, <1>5, <1>6, StepTypes

-----------------------------------------------------------------------------
(***************************************************************************)
(* The types of every step of the mover.                                   *)
(***************************************************************************)
\* The page it is at, and the chunk.
LEMMA MovingFacts ==
  ASSUME TypeInv, slab_rebalance_signal = 2
  PROVE  /\ slab_rebal.s_clsid \in Classes /\ slab_rebal.d_clsid \in Classes
         /\ slab_rebal.s_clsid # slab_rebal.d_clsid
         /\ slab_list[slab_rebal.s_clsid] \in Seq(Pages)
         /\ Len(slab_list[slab_rebal.s_clsid]) >= 2
         /\ MovingPage \in Pages /\ Contains(slab_list[slab_rebal.s_clsid], MovingPage)
<1>1. PICK s : s = slab_rebal.s_clsid
  OBVIOUS
<1>2. s \in Classes /\ Len(slab_list[s]) >= 2 /\ slab_rebal.d_clsid \in Classes
      /\ s # slab_rebal.d_clsid
  BY <1>1 DEF TypeInv, RebalInv
<1>3. slab_list[s] \in Seq(Pages)
  BY <1>2 DEF TypeInv, PagesInv
<1>4. 1 \in 1..Len(slab_list[s])
  BY <1>2, <1>3
<1>5. slab_list[s][1] \in Pages /\ Contains(slab_list[s], slab_list[s][1])
  BY <1>3, <1>4 DEF Contains
<1> QED
  BY <1>1, <1>2, <1>3, <1>5 DEF MovingPage

LEMMA PosFacts ==
  ASSUME TypeInv, slab_rebalance_signal = 2, ~slab_rebal.done
  PROVE  /\ slab_rebal.pos \in 1..PerSlab[slab_rebal.s_clsid]
         /\ Pos \in Chunks /\ Contains(PageChunks(MovingPage, slab_rebal.s_clsid), Pos)
         /\ Pos[1] = MovingPage
<1>1. slab_rebal.pos \in 1..PerSlab[slab_rebal.s_clsid]
  BY DEF TypeInv, RebalInv
<1>2. slab_rebal.s_clsid \in Classes /\ MovingPage \in Pages
  BY MovingFacts
<1>3. Contains(PageChunks(MovingPage, slab_rebal.s_clsid), Pos)
  BY <1>1, <1>2, PageFacts DEF Pos
<1>4. PageChunks(MovingPage, slab_rebal.s_clsid) \in Seq(Chunks)
  BY <1>2, PageFacts
<1>5. Pos \in Chunks
  BY <1>3, <1>4, ToSetFacts
<1> QED
  BY <1>1, <1>3, <1>5 DEF Pos

LEMMA ReassignTypes ==
  ASSUME TypeInv, NEW src \in Classes, NEW dst \in Classes, Reassign(src, dst)
  PROVE  TypeInv'
<1>1. op' = op /\ UNCHANGED memvars /\ item_locks' = item_locks /\ cache_lock' = cache_lock
      /\ raced' = raced /\ moving' = moving /\ slab_list' = slab_list
  BY DEF Reassign, memvars
<1>2. OpInv' /\ CacheInv'
  BY <1>1 DEF TypeInv, OpInv, CacheInv
<1>3. MemoryInv'
  BY <1>1 DEF TypeInv, MemoryInv, memvars
<1>4. PagesInv'
  BY <1>1 DEF TypeInv, PagesInv, PageSet
<1>5. RebalInv'
  <2>1. src \in Nat /\ dst \in Nat
    BY ClassFacts
  <2>2. slab_rebal' = [slab_rebal EXCEPT !.s_clsid = src, !.d_clsid = dst]
        /\ slab_rebalance_signal' = 1 /\ src # dst /\ Len(slab_list[src]) >= 2
        /\ slab_rebalance_signal = 0
    BY DEF Reassign
  <2>3. slab_rebal \in Cursor
        /\ ~slab_rebal.done /\ moving = "none"
    BY <2>2 DEF TypeInv, RebalInv
  <2>4. /\ slab_rebal' \in Cursor
        /\ slab_rebal'.s_clsid = src /\ slab_rebal'.d_clsid = dst /\ ~slab_rebal'.done
    BY <2>1, <2>2, <2>3 DEF Cursor
  <2> QED
    BY <1>1, <2>2, <2>3, <2>4 DEF RebalInv
<1> QED
  BY <1>2, <1>3, <1>4, <1>5 DEF TypeInv

LEMMA RebalanceStartTypes ==
  ASSUME TypeInv, RebalanceStart
  PROVE  TypeInv'
<1>1. op' = op /\ UNCHANGED memvars /\ item_locks' = item_locks /\ cache_lock' = cache_lock
      /\ raced' = raced /\ moving' = moving /\ slab_list' = slab_list
  BY DEF RebalanceStart, memvars
<1>2. OpInv' /\ CacheInv'
  BY <1>1 DEF TypeInv, OpInv, CacheInv
<1>3. MemoryInv'
  BY <1>1 DEF TypeInv, MemoryInv, memvars
<1>4. PagesInv'
  BY <1>1 DEF TypeInv, PagesInv, PageSet
<1>5. RebalInv'
  <2>1. slab_rebal \in Cursor
        /\ slab_rebalance_signal = 1 /\ ~slab_rebal.done /\ moving = "none"
        /\ slab_rebal.s_clsid \in Classes /\ slab_rebal.d_clsid \in Classes
        /\ slab_rebal.s_clsid # slab_rebal.d_clsid
        /\ Len(slab_list[slab_rebal.s_clsid]) >= 2
    BY DEF RebalanceStart, TypeInv, RebalInv
  <2>2. CASE /\ slab_rebalance_signal' = 2
             /\ slab_rebal' = [slab_rebal EXCEPT !.pos = 1, !.done = FALSE]
    <3>1. /\ slab_rebal' \in Cursor
          /\ slab_rebal'.s_clsid = slab_rebal.s_clsid /\ slab_rebal'.d_clsid = slab_rebal.d_clsid
          /\ slab_rebal'.pos = 1 /\ ~slab_rebal'.done
      BY <2>1, <2>2 DEF Cursor
    <3>2. 1 \in 1..PerSlab[slab_rebal.s_clsid]
      BY <2>1, ClassFacts
    <3> QED
      BY <1>1, <2>1, <2>2, <3>1, <3>2 DEF RebalInv
  <2>3. CASE slab_rebalance_signal' = 0 /\ slab_rebal' = slab_rebal
    BY <1>1, <2>1, <2>3 DEF RebalInv
  <2> QED
    BY <2>2, <2>3 DEF RebalanceStart
<1> QED
  BY <1>2, <1>3, <1>4, <1>5 DEF TypeInv

\* On to the next chunk, to the top of the page again, or past its end.
LEMMA AdvanceFacts ==
  ASSUME TypeInv, slab_rebalance_signal = 2, ~slab_rebal.done, NEW busy \in {0, 1},
         Advance(busy)
  PROVE  /\ slab_rebal' \in Cursor
         /\ slab_rebal'.s_clsid = slab_rebal.s_clsid /\ slab_rebal'.d_clsid = slab_rebal.d_clsid
         /\ slab_rebal'.done => /\ slab_rebal'.pos = PerSlab[slab_rebal.s_clsid] + 1
                                /\ slab_rebal'.busy_items = 0
         /\ ~slab_rebal'.done => slab_rebal'.pos \in 1..PerSlab[slab_rebal.s_clsid]
         /\ slab_rebal'.pos = 1
            \/ (/\ slab_rebal'.pos = slab_rebal.pos + 1
                /\ slab_rebal'.busy_items = 0 => slab_rebal.busy_items = 0 /\ busy = 0)
<1>1. slab_rebal \in Cursor
  BY DEF TypeInv, RebalInv
<1>2. PICK n, r : n = PerSlab[slab_rebal.s_clsid] /\ r = slab_rebal
  OBVIOUS
<1>3. n \in Nat \ {0} /\ r.pos \in 1..n /\ r \in Cursor /\ r.busy_items \in Nat /\ ~r.done
  BY <1>1, <1>2, MovingFacts, PosFacts, ClassFacts DEF Cursor
<1>4. PICK b : b = r.busy_items + busy
  OBVIOUS
<1>5. b \in Nat /\ (b = 0 => r.busy_items = 0 /\ busy = 0)
  BY <1>3, <1>4
<1>6. PICK q, p : q = slab_rebal' /\ p = r.pos + 1
  OBVIOUS
<1>7. p \in Nat
  BY <1>3, <1>6
<1>8. /\ q \in Cursor /\ q.s_clsid = r.s_clsid /\ q.d_clsid = r.d_clsid
      /\ q.done => q.pos = n + 1 /\ q.busy_items = 0
      /\ ~q.done => q.pos \in 1..n
      /\ q.pos = 1 \/ (q.pos = r.pos + 1 /\ (q.busy_items = 0 => r.busy_items = 0 /\ busy = 0))
  <2>1. CASE r.pos < n
    <3>1. q = [r EXCEPT !.pos = p, !.busy_items = b]
      BY <1>2, <1>4, <1>6, <2>1 DEF Advance
    <3>2. q \in Cursor /\ q.s_clsid = r.s_clsid /\ q.d_clsid = r.d_clsid
          /\ q.pos = p /\ q.busy_items = b /\ q.done = r.done
      BY <1>3, <1>5, <1>7, <3>1 DEF Cursor
    <3>3. p \in 1..n
      BY <1>3, <1>6, <2>1
    <3> QED
      BY <1>3, <1>5, <1>6, <3>2, <3>3
  <2>2. CASE ~(r.pos < n) /\ b > 0
    <3>1. q = [r EXCEPT !.pos = 1, !.busy_items = 0]
      BY <1>2, <1>4, <1>6, <2>2 DEF Advance
    <3>2. q \in Cursor /\ q.s_clsid = r.s_clsid /\ q.d_clsid = r.d_clsid
          /\ q.pos = 1 /\ q.done = r.done
      BY <1>3, <3>1 DEF Cursor
    <3>3. 1 \in 1..n
      BY <1>3
    <3> QED
      BY <1>3, <3>2, <3>3
  <2>3. CASE ~(r.pos < n) /\ ~(b > 0)
    <3>1. q = [r EXCEPT !.pos = p, !.done = TRUE]
      BY <1>2, <1>4, <1>6, <2>3 DEF Advance
    <3>2. q \in Cursor /\ q.s_clsid = r.s_clsid /\ q.d_clsid = r.d_clsid
          /\ q.pos = p /\ q.done = TRUE /\ q.busy_items = r.busy_items
      BY <1>3, <1>7, <3>1 DEF Cursor
    <3>3. p = n + 1 /\ r.busy_items = 0 /\ busy = 0
      BY <1>3, <1>5, <1>6, <2>3
    <3> QED
      BY <1>6, <3>2, <3>3
  <2> QED
    BY <2>1, <2>2, <2>3
<1> QED
  BY <1>2, <1>6, <1>8

\* The mover takes cache_lock, or gives it back.
LEMMA MoverCache ==
  ASSUME TypeInv, op' = op, item_locks' = item_locks, raced' = raced,
         \/ cache_lock = None /\ cache_lock' = Mover /\ moving' \in {"DONE", "BUSY"}
         \/ cache_lock = Mover /\ cache_lock' = None /\ moving' = "none"
         \/ cache_lock' = cache_lock /\ moving' = moving
  PROVE  OpInv' /\ CacheInv'
<1>1. Mover \notin Workers /\ Mover # None /\ None \notin Workers
  BY SlabMoverAssumption
<1>2. OpInv'
  BY DEF TypeInv, OpInv
<1>3. /\ \A w \in Workers : cache_lock = w <=> op[w] # Idle /\ op[w].at = "search"
      /\ moving \in {"none", "DONE", "BUSY"} /\ (cache_lock = Mover <=> moving # "none")
      /\ cache_lock \in Workers \cup {Mover, None}
  BY DEF TypeInv, CacheInv
<1>4. \A w \in Workers : cache_lock' = w <=> op'[w] # Idle /\ op'[w].at = "search"
  BY <1>1, <1>3
<1>5. /\ moving' \in {"none", "DONE", "BUSY"} /\ (cache_lock' = Mover <=> moving' # "none")
      /\ cache_lock' \in Workers \cup {Mover, None}
  BY <1>1, <1>3
<1> QED
  BY <1>2, <1>4, <1>5, LocksKept DEF CacheInv

LEMMA MovePassTypes ==
  ASSUME TypeInv, MovePass
  PROVE  TypeInv'
<1>1. op' = op /\ UNCHANGED memvars /\ item_locks' = item_locks /\ cache_lock' = cache_lock
      /\ raced' = raced /\ moving' = moving /\ slab_list' = slab_list
      /\ slab_rebalance_signal' = slab_rebalance_signal
      /\ slab_rebalance_signal = 2 /\ ~slab_rebal.done /\ moving = "none"
  BY DEF MovePass, memvars, Moves
<1>2. OpInv' /\ CacheInv'
  BY <1>1, MoverCache
<1>3. MemoryInv'
  BY <1>1 DEF TypeInv, MemoryInv, memvars
<1>4. PagesInv'
  BY <1>1 DEF TypeInv, PagesInv, PageSet
<1>5. PICK busy \in {0, 1} : Advance(busy)
  BY DEF MovePass
<1>6. RebalInv'
  BY <1>1, <1>5, AdvanceFacts DEF TypeInv, RebalInv
<1> QED
  BY <1>2, <1>3, <1>4, <1>6 DEF TypeInv

\* What the mover does to the chunk it is at.
MoveFree ==
    /\ item[Pos].refcount = 0 /\ "SLABBED" \in item[Pos].flags
    /\ moving' = "DONE"
    /\ slots' = [slots EXCEPT ![slab_rebal.s_clsid] = RemoveFirst(@, Pos)]
    /\ item' = [item EXCEPT ![Pos].refcount = 1]
    /\ UNCHANGED lru
MoveLinked ==
    /\ item[Pos].refcount = 1 /\ Linked(Pos)
    /\ moving' = "DONE"
    /\ item' = [item EXCEPT ![Pos].flags = @ \ {"LINKED"}]
    /\ lru' = [c \in Classes |-> RemoveFirst(lru[c], Pos)]
    /\ UNCHANGED slots
MoveBusy ==
    /\ ~(item[Pos].refcount = 0 /\ "SLABBED" \in item[Pos].flags)
    /\ ~(item[Pos].refcount = 1 /\ Linked(Pos))
    /\ moving' = "BUSY"
    /\ item' = [item EXCEPT ![Pos].refcount = @ + 1]
    /\ UNCHANGED <<slots, lru>>

\* The free list without the chunk.
LEMMA OffSlots ==
  ASSUME TypeInv, NEW s \in Classes, NEW h,
         slots' = [slots EXCEPT ![s] = RemoveFirst(@, h)]
  PROVE  /\ slots' \in [Classes -> Seq(Chunks)]
         /\ ListInv => \A c \in Classes :
                          /\ IsInjective(slots'[c])
                          /\ \A g : Contains(slots'[c], g)
                                    <=> Contains(slots[c], g) /\ (c # s \/ g # h)
<1>1. slots \in [Classes -> Seq(Chunks)]
  BY DEF TypeInv, MemoryInv
<1>2. slots'[s] = RemoveFirst(slots[s], h) /\ \A c \in Classes : c # s => slots'[c] = slots[c]
  BY <1>1
<1>3. RemoveFirst(slots[s], h) \in Seq(Chunks)
  BY <1>1, RemoveFirstFacts
<1>4. slots' \in [Classes -> Seq(Chunks)]
  BY <1>1, <1>3
<1>5. ASSUME ListInv, NEW c \in Classes
      PROVE  /\ IsInjective(slots'[c])
             /\ \A g : Contains(slots'[c], g) <=> Contains(slots[c], g) /\ (c # s \/ g # h)
  <2>1. IsInjective(slots[c])
    BY <1>5 DEF ListInv
  <2>2. CASE c # s
    BY <1>2, <2>1, <2>2
  <2>3. CASE c = s
    <3>1. slots[c] \in Seq(Chunks)
      BY <1>1
    <3>2. /\ IsInjective(RemoveFirst(slots[c], h))
          /\ \A g : Contains(RemoveFirst(slots[c], h), g) <=> Contains(slots[c], g) /\ g # h
      BY <2>1, <3>1, RemoveFirstFacts
    <3> QED
      BY <1>2, <2>3, <3>2
  <2> QED
    BY <2>2, <2>3
<1> QED
  BY <1>4, <1>5

\* A chunk whose link has been taken away.
LEMMA UnflagSet ==
  ASSUME TypeInv, NEW h \in Chunks, item' = [item EXCEPT ![h].flags = @ \ {"LINKED"}]
  PROVE  /\ item' \in [Chunks -> Item]
         /\ \A g \in Chunks \ {h} : item'[g] = item[g]
         /\ item'[h].flags = item[h].flags \ {"LINKED"} /\ item'[h].refcount = item[h].refcount
         /\ item'[h].slabs_clsid = item[h].slabs_clsid /\ item'[h].key = item[h].key
<1>1. item[h] \in Item
  BY DEF TypeInv, MemoryInv
<1>2. PICK f : f = item[h].flags \ {"LINKED"}
  OBVIOUS
<1>3. f \in Flags
  BY <1>1, <1>2, ItemFields DEF Flags
<1>4. PICK i : i = [item[h] EXCEPT !.flags = f]
  OBVIOUS
<1>5. i \in Item
  BY <1>1, <1>3, <1>4 DEF Item
<1>6. i.flags = f /\ i.refcount = item[h].refcount /\ i.slabs_clsid = item[h].slabs_clsid
      /\ i.key = item[h].key
  BY <1>1, <1>4 DEF Item
<1>7. item' = [item EXCEPT ![h] = i]
  BY <1>2, <1>4 DEF TypeInv, MemoryInv
<1>8. /\ item' \in [Chunks -> Item] /\ item'[h] = i
      /\ \A g \in Chunks \ {h} : item'[g] = item[g]
  BY <1>5, <1>7, ItemSet DEF TypeInv
<1> QED
  BY <1>2, <1>6, <1>8

LEMMA MoveItemTypes ==
  ASSUME TypeInv, MoveItem
  PROVE  /\ TypeInv' /\ Pos \in Chunks /\ item[Pos].slabs_clsid # 255
         /\ moving = "none" /\ slab_rebalance_signal = 2 /\ ~slab_rebal.done
         /\ MoveFree \/ MoveLinked \/ MoveBusy
<1>1. op' = op /\ item_locks' = item_locks /\ cache_lock = None /\ cache_lock' = Mover
      /\ raced' = raced /\ slab_list' = slab_list /\ slab_rebal' = slab_rebal
      /\ slab_rebalance_signal' = slab_rebalance_signal
      /\ slab_rebalance_signal = 2 /\ ~slab_rebal.done /\ moving = "none"
      /\ item[Pos].slabs_clsid # 255
  BY DEF MoveItem, Moves
<1>2. MoveFree \/ MoveLinked \/ MoveBusy
  BY DEF MoveItem, MoveFree, MoveLinked, MoveBusy
<1>3. moving' \in {"DONE", "BUSY"}
  BY <1>2 DEF MoveFree, MoveLinked, MoveBusy
<1>4. OpInv' /\ CacheInv'
  BY <1>1, <1>3, MoverCache
<1>5. PagesInv'
  BY <1>1 DEF TypeInv, PagesInv, PageSet
<1>6. RebalInv'
  BY <1>1, <1>3 DEF TypeInv, RebalInv
<1>7. Pos \in Chunks /\ slab_rebal.s_clsid \in Classes
  BY <1>1, PosFacts, MovingFacts
<1>8. PICK h : h = Pos
  OBVIOUS
<1>9. item[h] \in Item
  BY <1>7, <1>8 DEF TypeInv, MemoryInv
<1>10. MemoryInv'
  <2>1. CASE MoveFree
    <3>1. item' = [item EXCEPT ![h].refcount = 1] /\ lru' = lru
          /\ slots' = [slots EXCEPT ![slab_rebal.s_clsid] = RemoveFirst(@, h)]
      BY <1>8, <2>1 DEF MoveFree
    <3>2. item' \in [Chunks -> Item]
      <4>1. MemoryInv /\ h \in Chunks /\ 1 \in Int
        BY <1>7, <1>8 DEF TypeInv
      <4>2. item' = [item EXCEPT ![h].refcount = 1]
        BY <3>1
      <4> QED
        BY <4>1, <4>2, RefSet
    <3>3. slots' \in [Classes -> Seq(Chunks)]
      BY <1>7, <3>1, OffSlots
    <3> QED
      BY <3>1, <3>2, <3>3 DEF TypeInv, MemoryInv
  <2>2. CASE MoveLinked
    <3>1. item' = [item EXCEPT ![h].flags = @ \ {"LINKED"}] /\ slots' = slots
          /\ lru' = [c \in Classes |-> RemoveFirst(lru[c], h)]
      BY <1>8, <2>2 DEF MoveLinked
    <3>2. item' \in [Chunks -> Item]
      BY <1>7, <1>8, <3>1, UnflagSet
    <3>3. lru' \in [Classes -> Seq(Chunks)]
      BY <3>1, OffLists
    <3> QED
      BY <3>1, <3>2, <3>3 DEF TypeInv, MemoryInv
  <2>3. CASE MoveBusy
    <3>1. item' = [item EXCEPT ![h].refcount = item[h].refcount + 1]
          /\ slots' = slots /\ lru' = lru
      BY <1>8, <2>3 DEF MoveBusy
    <3>2. item[h].refcount + 1 \in Int
      BY <1>9, ItemFields
    <3>3. item' \in [Chunks -> Item]
      BY <1>7, <1>8, <3>1, <3>2, RefSet DEF TypeInv
    <3> QED
      BY <3>1, <3>3 DEF TypeInv, MemoryInv
  <2> QED
    BY <1>2, <2>1, <2>2, <2>3
<1> QED
  BY <1>1, <1>2, <1>4, <1>5, <1>6, <1>7, <1>10 DEF TypeInv

LEMMA MoveEndTypes ==
  ASSUME TypeInv, MoveEnd
  PROVE  /\ TypeInv' /\ Pos \in Chunks /\ slab_rebalance_signal = 2 /\ ~slab_rebal.done
         /\ moving \in {"DONE", "BUSY"}
<1>1. op' = op /\ item_locks' = item_locks /\ cache_lock' = None /\ moving' = "none"
      /\ raced' = raced /\ slab_list' = slab_list /\ slots' = slots /\ lru' = lru
      /\ slab_rebalance_signal' = slab_rebalance_signal /\ moving # "none"
  BY DEF MoveEnd
<1>2. slab_rebalance_signal = 2 /\ ~slab_rebal.done /\ moving \in {"DONE", "BUSY"}
      /\ cache_lock = Mover
  BY <1>1 DEF TypeInv, RebalInv, CacheInv
<1>3. OpInv' /\ CacheInv'
  BY <1>1, <1>2, MoverCache
<1>4. PagesInv'
  BY <1>1 DEF TypeInv, PagesInv, PageSet
<1>5. Pos \in Chunks
  BY <1>2, PosFacts
<1>6. PICK busy \in {0, 1} : Advance(busy)
  BY DEF MoveEnd
<1>7. RebalInv'
  BY <1>1, <1>2, <1>6, AdvanceFacts DEF TypeInv, RebalInv
<1>8. PICK h : h = Pos
  OBVIOUS
<1>9. item[h] \in Item /\ item[h].refcount - 1 \in Int
  <2>1. item[h] \in Item
    BY <1>5, <1>8 DEF TypeInv, MemoryInv
  <2> QED
    BY <2>1, ItemFields
<1>10. item' \in [Chunks -> Item]
  <2>1. CASE moving = "DONE"
    <3>1. PICK i : i = [Blank EXCEPT !.slabs_clsid = 255]
      OBVIOUS
    <3>2. {} \in Flags /\ 255 \in ClassIds
      BY DEF Flags, ClassIds
    <3>3. i \in Item
      BY <3>1, <3>2 DEF Blank, Item
    <3>4. item' = [item EXCEPT ![h] = i]
      BY <1>8, <2>1, <3>1 DEF MoveEnd
    <3> QED
      BY <1>5, <1>8, <3>3, <3>4, ItemSet DEF TypeInv
  <2>2. CASE moving # "DONE"
    <3>1. item' = [item EXCEPT ![h].refcount = item[h].refcount - 1]
      BY <1>8, <2>2 DEF MoveEnd
    <3>2. PICK n : n = item[h].refcount - 1
      OBVIOUS
    <3>3. MemoryInv /\ h \in Chunks /\ n \in Int
      BY <1>5, <1>8, <1>9, <3>2 DEF TypeInv
    <3>4. item' = [item EXCEPT ![h].refcount = n]
      BY <3>1, <3>2
    <3> QED
      BY <3>3, <3>4, RefSet
  <2> QED
    BY <2>1, <2>2
<1>11. MemoryInv'
  BY <1>1, <1>10 DEF TypeInv, MemoryInv
<1> QED
  BY <1>2, <1>3, <1>4, <1>5, <1>7, <1>11 DEF TypeInv

\* The page list of the class that loses its first page: its last takes the place.
LEMMA SwapFacts ==
  ASSUME NEW S, NEW s \in Seq(S), Len(s) >= 2
  PROVE  /\ Front([s EXCEPT ![1] = Last(s)]) \in Seq(S)
         /\ Front([s EXCEPT ![1] = Last(s)]) # <<>>
         /\ IsInjective(s) =>
               /\ IsInjective(Front([s EXCEPT ![1] = Last(s)]))
               /\ \A g : Contains(Front([s EXCEPT ![1] = Last(s)]), g)
                         <=> Contains(s, g) /\ g # s[1]
<1>1. PICK n : n = Len(s)
  OBVIOUS
<1>2. n \in Nat /\ n >= 2 /\ DOMAIN s = 1..n /\ \A i \in 1..n : s[i] \in S
  BY <1>1
<1>3. PICK t : t = [s EXCEPT ![1] = Last(s)]
  OBVIOUS
<1>4. Last(s) = s[n] /\ s[n] \in S
  BY <1>1, <1>2 DEF Last
<1>5. /\ t \in Seq(S) /\ Len(t) = n /\ t[1] = s[n]
      /\ \A i \in 2..n : t[i] = s[i]
  BY <1>1, <1>2, <1>3, <1>4
<1>6. PICK r : r = Front(t)
  OBVIOUS
<1>7. /\ r \in Seq(S) /\ Len(r) = n - 1
      /\ \A i \in 1..(n - 1) : r[i] = t[i]
  BY <1>2, <1>5, <1>6 DEF Front
<1>8. /\ DOMAIN r = 1..(n - 1) /\ r # <<>> /\ r[1] = s[n]
      /\ \A i \in 2..(n - 1) : r[i] = s[i]
  BY <1>2, <1>5, <1>7
<1>9. ASSUME IsInjective(s)
      PROVE  IsInjective(r) /\ \A g : Contains(r, g) <=> Contains(s, g) /\ g # s[1]
  <2>1. \A i, j \in 1..n : s[i] = s[j] => i = j
    BY <1>2, <1>9 DEF IsInjective
  <2> DEFINE from(i) == IF i = 1 THEN n ELSE i
  <2>2. \A i \in 1..(n - 1) : from(i) \in 2..n /\ r[i] = s[from(i)]
    BY <1>2, <1>8
  <2>3. \A i, j \in 1..(n - 1) : from(i) = from(j) => i = j
    BY <1>2
  <2>4. \A k \in 2..n : \E i \in 1..(n - 1) : from(i) = k
    <3>1. ASSUME NEW k \in 2..n
          PROVE  \E i \in 1..(n - 1) : from(i) = k
      <4>1. CASE k = n
        <5>1. 1 \in 1..(n - 1) /\ from(1) = k
          BY <1>2, <4>1
        <5> QED
          BY <5>1
      <4>2. CASE k # n
        <5>1. k \in 1..(n - 1) /\ from(k) = k
          BY <1>2, <4>2
        <5> QED
          BY <5>1
      <4> QED
        BY <4>1, <4>2
    <3> QED
      BY <3>1
  <2> HIDE DEF from
  <2>5. 2..n \subseteq 1..n /\ 1 \in 1..n /\ 1 \notin 2..n
        /\ \A k \in 1..n : k = 1 \/ k \in 2..n
    BY <1>2
  <2>6. IsInjective(r)
    BY <1>8, <2>1, <2>2, <2>3, <2>5 DEF IsInjective
  <2>7. Len(r) = n - 1
    BY <1>7
  <2>8. ASSUME NEW g
        PROVE  Contains(r, g) <=> Contains(s, g) /\ g # s[1]
    <3>1. ASSUME Contains(r, g)
          PROVE  Contains(s, g) /\ g # s[1]
      <4>1. PICK i \in 1..(n - 1) : r[i] = g
        BY <2>7, <3>1 DEF Contains
      <4>2. from(i) \in 1..n /\ s[from(i)] = g /\ from(i) # 1
        BY <2>2, <2>5, <4>1
      <4> QED
        BY <1>1, <2>1, <2>5, <4>2 DEF Contains
    <3>2. ASSUME Contains(s, g), g # s[1]
          PROVE  Contains(r, g)
      <4>1. PICK k \in 1..n : s[k] = g
        BY <1>1, <3>2 DEF Contains
      <4>2. k \in 2..n
        BY <2>5, <3>2, <4>1
      <4>3. PICK i \in 1..(n - 1) : from(i) = k
        BY <2>4, <4>2
      <4>4. r[i] = g
        BY <2>2, <4>1, <4>3
      <4> QED
        BY <2>7, <4>4 DEF Contains
    <3> QED
      BY <3>1, <3>2
  <2> QED
    BY <2>6, <2>8
<1> QED
  BY <1>3, <1>6, <1>7, <1>8, <1>9

\* The page goes from the one class to the other.
LEMMA MovedPages ==
  ASSUME TypeInv, slab_rebalance_signal = 2,
         slab_list' = [slab_list EXCEPT
                          ![slab_rebal.s_clsid] = Front([@ EXCEPT ![1] =
                                                    Last(slab_list[slab_rebal.s_clsid])]),
                          ![slab_rebal.d_clsid] = Append(@, MovingPage)]
  PROVE  /\ PagesInv'
         /\ \A c \in Classes : \A p :
               Contains(slab_list'[c], p)
               <=> \/ Contains(slab_list[c], p) /\ p # MovingPage
                   \/ c = slab_rebal.d_clsid /\ p = MovingPage
<1>1. PICK s, d, p : s = slab_rebal.s_clsid /\ d = slab_rebal.d_clsid /\ p = MovingPage
  OBVIOUS
<1>2. s \in Classes /\ d \in Classes /\ s # d /\ p \in Pages /\ Contains(slab_list[s], p)
      /\ Len(slab_list[s]) >= 2 /\ p = slab_list[s][1]
  BY <1>1, MovingFacts DEF MovingPage
<1>3. /\ slab_list \in [Classes -> Seq(Pages)]
      /\ \A c \in Classes : IsInjective(slab_list[c])
      /\ \A c, e \in Classes : c # e => ToSet(slab_list[c]) \cap ToSet(slab_list[e]) = {}
  BY DEF TypeInv, PagesInv
<1>4. PICK front : front = Front([slab_list[s] EXCEPT ![1] = Last(slab_list[s])])
  OBVIOUS
<1>5. PICK app : app = Append(slab_list[d], p)
  OBVIOUS
<1>6. slab_list' = [slab_list EXCEPT ![s] = front, ![d] = app]
  BY <1>1, <1>4, <1>5
<1>7. slab_list'[s] = front /\ slab_list'[d] = app
      /\ \A c \in Classes : c # s /\ c # d => slab_list'[c] = slab_list[c]
  BY <1>2, <1>3, <1>6
<1>8. /\ front \in Seq(Pages) /\ front # <<>> /\ IsInjective(front)
      /\ \A g : Contains(front, g) <=> Contains(slab_list[s], g) /\ g # p
  BY <1>2, <1>3, <1>4, SwapFacts
<1>9. /\ \A c \in Classes : \A g : g \in ToSet(slab_list[c]) <=> Contains(slab_list[c], g)
  BY <1>3, ToSetFacts
<1>10. \A c \in Classes : c # s => ~Contains(slab_list[c], p)
  BY <1>2, <1>3, <1>9
<1>11. /\ app \in Seq(Pages) /\ app # <<>> /\ IsInjective(app)
       /\ \A g : Contains(app, g) <=> Contains(slab_list[d], g) \/ g = p
  BY <1>2, <1>3, <1>5, <1>10, AppendFacts
<1>12. ASSUME NEW c \in Classes, NEW g
       PROVE  Contains(slab_list'[c], g)
              <=> (Contains(slab_list[c], g) /\ g # p) \/ (c = d /\ g = p)
  BY <1>2, <1>7, <1>8, <1>10, <1>11
<1>13. slab_list' \in [Classes -> Seq(Pages)]
  BY <1>3, <1>6, <1>8, <1>11
<1>14. \A c \in Classes : IsInjective(slab_list'[c])
  BY <1>3, <1>7, <1>8, <1>11
<1>15. \A c \in Classes : \A g : g \in ToSet(slab_list'[c]) <=> Contains(slab_list'[c], g)
  BY <1>13, ToSetFacts
<1>16. ASSUME NEW c \in Classes, NEW e \in Classes, c # e, NEW g,
              g \in ToSet(slab_list'[c]), g \in ToSet(slab_list'[e])
       PROVE  FALSE
  <2>1. /\ (Contains(slab_list[c], g) /\ g # p) \/ (c = d /\ g = p)
        /\ (Contains(slab_list[e], g) /\ g # p) \/ (e = d /\ g = p)
    BY <1>12, <1>15, <1>16
  <2>2. ~(Contains(slab_list[c], g) /\ Contains(slab_list[e], g))
    BY <1>3, <1>9, <1>16
  <2> QED
    BY <1>16, <2>1, <2>2
<1>17. \A c, e \in Classes : c # e => ToSet(slab_list'[c]) \cap ToSet(slab_list'[e]) = {}
  BY <1>16
<1>18. PageSet' = PageSet
  <2>1. \A g : g \in PageSet <=> \E c \in Classes : Contains(slab_list[c], g)
    BY <1>9 DEF PageSet
  <2>2. \A g : g \in PageSet' <=> \E c \in Classes : Contains(slab_list'[c], g)
    BY <1>15 DEF PageSet
  <2>3. ASSUME NEW g
        PROVE  g \in PageSet' <=> g \in PageSet
    <3>1. CASE g = p
      BY <1>2, <1>12, <2>1, <2>2, <3>1
    <3>2. CASE g # p
      BY <1>12, <2>1, <2>2, <3>2
    <3> QED
      BY <3>1, <3>2
  <2> QED
    BY <2>3
<1>19. PICK n \in Nat : PageSet = 1..n /\ n <= MemLimit + Cardinality(Filled(slab_list))
  BY DEF TypeInv, PagesInv, Filled
<1>20. n <= MemLimit + Cardinality(Filled(slab_list'))
  <2>1. Filled(slab_list) \subseteq Filled(slab_list')
    BY <1>7, <1>8, <1>11 DEF Filled
  <2>2. Cardinality(Filled(slab_list)) <= Cardinality(Filled(slab_list'))
    BY <2>1, FilledMore
  <2>3. Cardinality(Filled(slab_list)) \in Nat /\ Cardinality(Filled(slab_list')) \in Nat
        /\ MemLimit \in Nat
    BY FilledFacts, SlabMoverAssumption
  <2> QED
    BY <1>19, <2>2, <2>3
<1>21. PagesInv'
  BY <1>13, <1>14, <1>17, <1>18, <1>19, <1>20 DEF PagesInv, Filled
<1> QED
  BY <1>1, <1>12, <1>21

\* What becomes of the chunks of page p, new, and where they go.
Finish(s, d, p, new) ==
    /\ s = slab_rebal.s_clsid /\ d = slab_rebal.d_clsid /\ p = MovingPage /\ s # d
    /\ slab_rebalance_signal = 2 /\ slab_rebal.done /\ moving = "none"
    /\ Contains(slab_list[s], p)
    /\ new = Reverse(PageChunks(p, d)) /\ IsInjective(new)
    /\ \A h : Contains(new, h) <=> Contains(PageChunks(p, d), h)
    /\ slots' = [slots EXCEPT ![d] = new \o slots[d]]
    /\ item' = [h \in Chunks |-> IF Contains(new, h) THEN Slabbed(Blank)
                                 ELSE IF h[1] = p THEN Blank ELSE item[h]]
    /\ slab_list' = [slab_list EXCEPT ![s] = Front([@ EXCEPT ![1] = Last(slab_list[s])]),
                                      ![d] = Append(@, p)]
    /\ lru' = lru /\ op' = op /\ item_locks' = item_locks /\ cache_lock' = cache_lock
    /\ moving' = moving /\ raced' = raced
    /\ slab_rebal' = NotMoving /\ slab_rebalance_signal' = 0

LEMMA FinishFacts ==
  ASSUME TypeInv, RebalanceFinish
  PROVE  \E s \in Classes, d \in Classes, p \in Pages, new \in Seq(Chunks) : Finish(s, d, p, new)
<1>1. slab_rebalance_signal = 2 /\ slab_rebal.done /\ moving = "none"
  BY DEF RebalanceFinish, TypeInv, RebalInv
<1>2. PICK s, d, p : s = slab_rebal.s_clsid /\ d = slab_rebal.d_clsid /\ p = MovingPage
  OBVIOUS
<1>3. s \in Classes /\ d \in Classes /\ s # d /\ p \in Pages /\ Contains(slab_list[s], p)
  BY <1>1, <1>2, MovingFacts
<1>4. PICK page : page = PageChunks(p, d)
  OBVIOUS
<1>5. page \in Seq(Chunks) /\ IsInjective(page)
  BY <1>3, <1>4, PageFacts
<1>6. PICK new : new = Reverse(page)
  OBVIOUS
<1>7. /\ new \in Seq(Chunks) /\ IsInjective(new)
      /\ \A h : Contains(new, h) <=> Contains(page, h)
  BY <1>5, <1>6, ReverseFacts
<1>8. slots' = [slots EXCEPT ![d] = new \o slots[d]]
  BY <1>2, <1>4, <1>6 DEF RebalanceFinish
<1>9. \A h : h \in ToSet(page) <=> Contains(new, h)
  BY <1>5, <1>7, ToSetFacts
<1>10. item' = [h \in Chunks |-> IF h \in ToSet(page) THEN Slabbed(Blank)
                                 ELSE IF h[1] = p THEN Blank ELSE item[h]]
  BY <1>2, <1>4 DEF RebalanceFinish
<1>11. item' = [h \in Chunks |-> IF Contains(new, h) THEN Slabbed(Blank)
                                 ELSE IF h[1] = p THEN Blank ELSE item[h]]
  BY <1>9, <1>10
<1>12. slab_list' = [slab_list EXCEPT ![s] = Front([@ EXCEPT ![1] = Last(slab_list[s])]),
                                      ![d] = Append(@, p)]
  BY <1>2 DEF RebalanceFinish
<1>13. /\ lru' = lru /\ op' = op /\ item_locks' = item_locks /\ cache_lock' = cache_lock
       /\ moving' = moving /\ raced' = raced
       /\ slab_rebal' = NotMoving /\ slab_rebalance_signal' = 0
  BY DEF RebalanceFinish
<1>14. Finish(s, d, p, new)
  BY <1>1, <1>2, <1>3, <1>4, <1>6, <1>7, <1>8, <1>11, <1>12, <1>13 DEF Finish
<1> QED
  BY <1>3, <1>7, <1>14

LEMMA BlankFacts ==
  /\ Blank \in Item /\ Slabbed(Blank) \in Item
  /\ Blank.flags = {} /\ Blank.refcount = 0 /\ Blank.slabs_clsid = 0 /\ Blank.key = None
  /\ "SLABBED" \in Slabbed(Blank).flags /\ "LINKED" \notin Slabbed(Blank).flags
  /\ Slabbed(Blank).refcount = 0 /\ Slabbed(Blank).slabs_clsid = 0
<1>1. {} \in Flags /\ 0 \in ClassIds
  BY DEF Flags, ClassIds
<1>2. Blank \in Item /\ Blank.flags = {} /\ Blank.refcount = 0 /\ Blank.slabs_clsid = 0
      /\ Blank.key = None
  BY <1>1 DEF Blank, Item
<1> QED
  BY <1>2, SlabbedFacts

LEMMA RebalanceFinishTypes ==
  ASSUME TypeInv, RebalanceFinish
  PROVE  TypeInv'
<1>0. PICK s \in Classes, d \in Classes, p \in Pages, new \in Seq(Chunks) : Finish(s, d, p, new)
  BY FinishFacts
<1>1. /\ s = slab_rebal.s_clsid /\ d = slab_rebal.d_clsid /\ p = MovingPage /\ s # d
      /\ slab_rebalance_signal = 2 /\ slab_rebal.done /\ moving = "none"
      /\ slots' = [slots EXCEPT ![d] = new \o slots[d]]
      /\ item' = [h \in Chunks |-> IF Contains(new, h) THEN Slabbed(Blank)
                                   ELSE IF h[1] = p THEN Blank ELSE item[h]]
      /\ slab_list' = [slab_list EXCEPT ![s] = Front([@ EXCEPT ![1] = Last(slab_list[s])]),
                                        ![d] = Append(@, p)]
      /\ lru' = lru /\ op' = op /\ item_locks' = item_locks /\ cache_lock' = cache_lock
      /\ moving' = moving /\ raced' = raced
      /\ slab_rebal' = NotMoving /\ slab_rebalance_signal' = 0
  BY <1>0 DEF Finish
<1>2. OpInv' /\ CacheInv'
  BY <1>1, MoverCache
<1>3. slots' \in [Classes -> Seq(Chunks)]
  <2>1. slots \in [Classes -> Seq(Chunks)]
    BY DEF TypeInv, MemoryInv
  <2>2. new \o slots[d] \in Seq(Chunks)
    BY <2>1
  <2> QED
    BY <1>1, <2>1, <2>2
<1>4. item' \in [Chunks -> Item]
  <2>1. \A h \in Chunks : item[h] \in Item
    BY DEF TypeInv, MemoryInv
  <2>2. \A h \in Chunks : (IF Contains(new, h) THEN Slabbed(Blank)
                           ELSE IF h[1] = p THEN Blank ELSE item[h]) \in Item
    BY <2>1, BlankFacts
  <2> QED
    BY <1>1, <2>2
<1>5. MemoryInv'
  BY <1>1, <1>3, <1>4 DEF TypeInv, MemoryInv
<1>6. PagesInv'
  BY <1>1, MovedPages
<1>7. RebalInv'
  <2>1. NotMoving \in Cursor /\ ~NotMoving.done
    BY DEF NotMoving, Cursor
  <2> QED
    BY <1>1, <2>1 DEF RebalInv
<1> QED
  BY <1>2, <1>5, <1>6, <1>7 DEF TypeInv

\* Every step of every thread keeps the types.
LEMMA TypesStep ==
  ASSUME TypeInv, [Next]_vars
  PROVE  TypeInv'
<1>1. CASE UNCHANGED vars
  <2>1. OpInv' /\ CacheInv'
    BY <1>1, MoverCache DEF vars, movevars
  <2>2. MemoryInv'
    BY <1>1 DEF vars, memvars, TypeInv, MemoryInv
  <2> QED
    BY <1>1, <2>1, <2>2, TypesKept DEF vars, memvars, movevars
<1>2. ASSUME NEW w \in Workers, NEW do \in {"set", "append", "get", "delete"}, NEW k \in Keys,
             NEW c \in UsedClasses, Begin(w, do, k, c)
      PROVE  TypeInv'
  BY <1>2, BeginTypes, QuietTypes DEF Begin
<1>3. ASSUME NEW w \in Workers, ClientGoesOn(w)
      PROVE  TypeInv'
  BY <1>3, ClientGoesOnTypes
<1>4. ASSUME NEW w \in Workers, Worker(w)
      PROVE  TypeInv'
  <2>1. CASE AllocStart(w)
    BY <2>1, AllocStartTypes, QuietTypes DEF AllocStart
  <2>2. CASE SkipLocked(w)
    BY <2>2, SkipLockedTypes, QuietTypes DEF SkipLocked
  <2>3. CASE SkipBusy(w)
    BY <2>3, SkipBusyTypes, QuietTypes DEF SkipBusy
  <2>4. CASE Found(w)
    BY <2>4, FoundTypes
  <2>5. CASE Exhausted(w)
    BY <2>5, ExhaustedTypes
  <2>6. CASE InitItem(w)
    BY <2>6, InitItemTypes
  <2>7. CASE ItemLock(w)
    BY <2>7, ItemLockTypes
  <2>8. CASE DoItemGet(w)
    BY <2>8, DoItemGetTypes
  <2>9. CASE Unlink(w)
    BY <2>9, UnlinkTypes
  <2>10. CASE Link(w)
    BY <2>10, LinkTypes
  <2>11. CASE Drop(w)
    BY <2>11, DropTypes
  <2>12. CASE ItemRemove(w)
    BY <2>12, ItemRemoveTypes
  <2>13. CASE Unlock(w)
    BY <2>13, UnlockTypes
  <2>14. CASE FreeItem(w)
    BY <2>14, FreeItemTypes
  <2> QED
    BY <1>4, <2>1, <2>2, <2>3, <2>4, <2>5, <2>6, <2>7, <2>8, <2>9, <2>10, <2>11, <2>12, <2>13,
       <2>14 DEF Worker
<1>5. ASSUME NEW src \in Classes, NEW dst \in Classes, Reassign(src, dst)
      PROVE  TypeInv'
  BY <1>5, ReassignTypes
<1>6. CASE Rebalancer
  BY <1>6, RebalanceStartTypes, MovePassTypes, MoveItemTypes, MoveEndTypes, RebalanceFinishTypes
     DEF Rebalancer
<1> QED
  BY <1>1, <1>2, <1>3, <1>4, <1>5, <1>6 DEF Next, Step

-----------------------------------------------------------------------------
(***************************************************************************)
(* The beginning.                                                          *)
(***************************************************************************)
\* Each stored key has its chunk, on the list of its class.
LEMMA InitFacts ==
  ASSUME Init
  PROVE  /\ MemoryInv
         /\ \A c \in Classes : IsInjective(lru[c])
         /\ \A h \in Chunks : \A c \in Classes : Contains(lru[c], h) =>
               /\ item[h].flags = {"LINKED"} /\ item[h].refcount = 1
               /\ item[h].slabs_clsid = c /\ h \in ChunksIn(InitialLists[c], c)
               /\ \A d \in Classes : ~Contains(slots[d], h)
         /\ \A h \in Chunks : (\A c \in Classes : ~Contains(lru[c], h)) =>
               /\ item[h].refcount = 0 /\ item[h].slabs_clsid = 0
               /\ "LINKED" \notin item[h].flags
               /\ \A c \in Classes : Contains(slots[c], h) => "SLABBED" \in item[h].flags
<1>1. PICK chunk \in [StoredKeys -> StoredChunks] :
          /\ IsInjective(chunk)
          /\ \A c \in Classes : \A k \in ToSet(InitialItems[c]) :
                chunk[k] \in ChunksIn(InitialLists[c], c)
          /\ lru = [c \in Classes |-> [i \in DOMAIN InitialItems[c] |-> chunk[InitialItems[c][i]]]]
          /\ item = [h \in Chunks |->
                        IF \E k \in StoredKeys : chunk[k] = h
                        THEN [flags |-> {"LINKED"}, refcount |-> 1,
                              slabs_clsid |-> CHOOSE c \in Classes : Contains(lru[c], h),
                              key |-> CHOOSE k \in StoredKeys : chunk[k] = h]
                        ELSE IF \E c \in Classes : Contains(slots[c], h)
                        THEN Slabbed(Blank) ELSE Blank]
  BY DEF Init
<1>2. \A c \in Classes : InitialItems[c] \in Seq(Keys)
  BY SlabMoverAssumption
<1>3. StoredChunks \subseteq Chunks
  BY SlabMoverAssumption
<1>4. \A c \in Classes : \A i \in 1..Len(InitialItems[c]) :
         InitialItems[c][i] \in StoredKeys /\ InitialItems[c][i] \in ToSet(InitialItems[c])
  <2>1. ASSUME NEW c \in Classes, NEW i \in 1..Len(InitialItems[c])
        PROVE  InitialItems[c][i] \in ToSet(InitialItems[c])
    BY <1>2, <2>1 DEF ToSet
  <2> QED
    BY <2>1 DEF StoredKeys
<1>5. StoredKeys \subseteq Keys /\ \A k \in StoredKeys : \E c \in Classes :
         \E i \in 1..Len(InitialItems[c]) : k = InitialItems[c][i]
  <2>1. \A c \in Classes : \A k : k \in ToSet(InitialItems[c]) <=> Contains(InitialItems[c], k)
    BY <1>2, ToSetFacts
  <2>2. \A c \in Classes : ToSet(InitialItems[c]) \subseteq Keys
    BY <1>2, ToSetFacts
  <2>3. StoredKeys \subseteq Keys
    BY <2>2 DEF StoredKeys
  <2>4. ASSUME NEW k \in StoredKeys
        PROVE  \E c \in Classes : \E i \in 1..Len(InitialItems[c]) : k = InitialItems[c][i]
    <3>1. PICK c \in Classes : Contains(InitialItems[c], k)
      BY <2>1, <2>4 DEF StoredKeys
    <3> QED
      BY <3>1 DEF Contains
  <2> QED
    BY <2>3, <2>4
<1>6. ASSUME NEW c \in Classes
      PROVE  /\ lru[c] \in Seq(Chunks) /\ Len(lru[c]) = Len(InitialItems[c])
             /\ \A i \in 1..Len(InitialItems[c]) : lru[c][i] = chunk[InitialItems[c][i]]
             /\ IsInjective(lru[c])
  <2>1. PICK n : n = Len(InitialItems[c])
    OBVIOUS
  <2>2. n \in Nat /\ DOMAIN InitialItems[c] = 1..n
    BY <1>2, <2>1
  <2>3. PICK l : l = [i \in 1..n |-> chunk[InitialItems[c][i]]]
    OBVIOUS
  <2>4. \A i \in 1..n : chunk[InitialItems[c][i]] \in Chunks
    BY <1>1, <1>3, <1>4, <2>1
  <2>5. l \in Seq(Chunks) /\ Len(l) = n /\ \A i \in 1..n : l[i] = chunk[InitialItems[c][i]]
    <3>1. l \in [1..n -> Chunks]
      BY <2>3, <2>4
    <3> QED
      BY <2>2, <2>3, <3>1
  <2>6. lru[c] = l
    BY <1>1, <2>2, <2>3
  <2>7. ASSUME NEW i \in 1..n, NEW j \in 1..n, l[i] = l[j]
        PROVE  i = j
    <3>1. chunk[InitialItems[c][i]] = chunk[InitialItems[c][j]]
      BY <2>5, <2>7
    <3>2. InitialItems[c][i] \in StoredKeys /\ InitialItems[c][j] \in StoredKeys
      BY <1>4, <2>1
    <3>3. InitialItems[c][i] = InitialItems[c][j]
      BY <1>1, <3>1, <3>2 DEF IsInjective
    <3> QED
      BY <2>2, <3>3, InitialMemoryAssumption
  <2>8. DOMAIN l = 1..n
    BY <2>3
  <2>9. IsInjective(l)
    BY <2>7, <2>8 DEF IsInjective
  <2> QED
    BY <2>1, <2>5, <2>6, <2>9
<1>7. ASSUME NEW c \in Classes, NEW h, Contains(lru[c], h)
      PROVE  /\ \E k \in StoredKeys : chunk[k] = h /\ k \in ToSet(InitialItems[c])
             /\ h \in StoredChunks /\ h \in ChunksIn(InitialLists[c], c)
             /\ \A d \in Classes : Contains(lru[d], h) => d = c
  <2>1. PICK i \in 1..Len(InitialItems[c]) : h = chunk[InitialItems[c][i]]
    BY <1>6, <1>7 DEF Contains
  <2>2. PICK k : k = InitialItems[c][i]
    OBVIOUS
  <2>3. k \in StoredKeys /\ k \in ToSet(InitialItems[c]) /\ h = chunk[k]
    BY <1>4, <2>1, <2>2
  <2>4. h \in StoredChunks /\ h \in ChunksIn(InitialLists[c], c)
    BY <1>1, <2>3
  <2>5. ASSUME NEW d \in Classes, Contains(lru[d], h)
        PROVE  d = c
    <3>1. PICK j \in 1..Len(InitialItems[d]) : h = chunk[InitialItems[d][j]]
      BY <1>6, <2>5 DEF Contains
    <3>2. InitialItems[d][j] \in StoredKeys
      BY <1>4
    <3>3. InitialItems[d][j] = InitialItems[c][i]
      BY <1>1, <2>1, <2>2, <2>3, <3>1, <3>2 DEF IsInjective
    <3>4. j \in DOMAIN InitialItems[d] /\ i \in DOMAIN InitialItems[c]
      BY <1>2
    <3> QED
      BY <3>3, <3>4, InitialMemoryAssumption
  <2> QED
    BY <2>3, <2>4, <2>5
<1>8. ASSUME NEW k \in StoredKeys
      PROVE  \E c \in Classes : Contains(lru[c], chunk[k])
  <2>1. PICK c \in Classes : \E i \in 1..Len(InitialItems[c]) : k = InitialItems[c][i]
    BY <1>5
  <2>2. PICK i \in 1..Len(InitialItems[c]) : k = InitialItems[c][i]
    BY <2>1
  <2>3. i \in 1..Len(lru[c]) /\ lru[c][i] = chunk[k]
    BY <1>6, <2>2
  <2> QED
    BY <2>3 DEF Contains
<1>9. slots \in [Classes -> Seq(Chunks)] /\ slots = InitialSlots
  BY SlabMoverAssumption DEF Init
<1>10. lru \in [Classes -> Seq(Chunks)]
  <2>1. lru = [c \in Classes |-> lru[c]]
    BY <1>1
  <2> QED
    BY <1>6, <2>1
<1>11. \A c \in Classes : \A h : Contains(slots[c], h) => h \notin StoredChunks
  <2>1. \A c \in Classes : \A h : h \in ToSet(slots[c]) <=> Contains(slots[c], h)
    BY <1>9, ToSetFacts
  <2> QED
    BY <1>9, <2>1, InitialMemoryAssumption
<1>12. ASSUME NEW h \in Chunks, NEW c \in Classes, Contains(lru[c], h)
       PROVE  /\ item[h].flags = {"LINKED"} /\ item[h].refcount = 1
              /\ item[h].slabs_clsid = c /\ item[h] \in Item
  <2>1. \E k \in StoredKeys : chunk[k] = h
    BY <1>7, <1>12
  <2>2. PICK cls, key : /\ cls = CHOOSE d \in Classes : Contains(lru[d], h)
                        /\ key = CHOOSE k \in StoredKeys : chunk[k] = h
    OBVIOUS
  <2>3. cls = c
    BY <1>7, <1>12, <2>2
  <2>4. key \in Keys \cup {None}
    BY <1>5, <2>1, <2>2
  <2>5. item[h] = [flags |-> {"LINKED"}, refcount |-> 1, slabs_clsid |-> cls, key |-> key]
    BY <1>1, <2>1, <2>2
  <2>6. {"LINKED"} \in Flags /\ c \in ClassIds
    BY DEF Flags, ClassIds
  <2> QED
    BY <2>3, <2>4, <2>5, <2>6 DEF Item
<1>13. ASSUME NEW h \in Chunks, \A c \in Classes : ~Contains(lru[c], h)
       PROVE  /\ item[h].refcount = 0 /\ item[h].slabs_clsid = 0
              /\ "LINKED" \notin item[h].flags /\ item[h] \in Item
              /\ \A c \in Classes : Contains(slots[c], h) => "SLABBED" \in item[h].flags
  <2>1. ~\E k \in StoredKeys : chunk[k] = h
    BY <1>8, <1>13
  <2>2. item[h] = IF \E c \in Classes : Contains(slots[c], h) THEN Slabbed(Blank) ELSE Blank
    BY <1>1, <2>1
  <2> QED
    BY <2>2, BlankFacts
<1>14. item \in [Chunks -> Item]
  <2>1. item = [h \in Chunks |-> item[h]]
    BY <1>1
  <2>2. \A h \in Chunks : item[h] \in Item
    BY <1>12, <1>13
  <2> QED
    BY <2>1, <2>2
<1>15. MemoryInv
  BY <1>9, <1>10, <1>14 DEF MemoryInv
<1>16. ASSUME NEW h \in Chunks, NEW c \in Classes, Contains(lru[c], h)
       PROVE  /\ item[h].flags = {"LINKED"} /\ item[h].refcount = 1
              /\ item[h].slabs_clsid = c /\ h \in ChunksIn(InitialLists[c], c)
              /\ \A d \in Classes : ~Contains(slots[d], h)
  BY <1>7, <1>11, <1>12, <1>16
<1> QED
  BY <1>6, <1>13, <1>15, <1>16

LEMMA InitTypes ==
  ASSUME Init
  PROVE  TypeInv
<1>1. OpInv
  <2>1. op = [w \in Workers |-> Idle]
    BY DEF Init
  <2> QED
    BY <2>1 DEF OpInv
<1>2. CacheInv
  <2>1. /\ item_locks = [k \in Keys |-> None] /\ cache_lock = None /\ moving = "none"
        /\ raced = {} /\ op = [w \in Workers |-> Idle]
    BY DEF Init
  <2> QED
    BY <2>1, SlabMoverAssumption DEF CacheInv
<1>3. PagesInv
  <2>1. slab_list = InitialLists
    BY DEF Init
  <2>2. slab_list \in [Classes -> Seq(Pages)]
    BY <2>1, SlabMoverAssumption
  <2>3. /\ \A c \in Classes : IsInjective(slab_list[c])
        /\ \A c, d \in Classes : c # d => ToSet(slab_list[c]) \cap ToSet(slab_list[d]) = {}
    BY <2>1, InitialMemoryAssumption
  <2>4. PICK n \in 0..(MemLimit + Cardinality(Filled(slab_list))) : PageSet = 1..n
    <3>1. PageSet = UNION {ToSet(InitialLists[c]) : c \in Classes}
      BY <2>1 DEF PageSet
    <3>2. Filled(slab_list) = {c \in Classes : InitialLists[c] # <<>>}
      BY <2>1 DEF Filled
    <3>3. PICK n \in 0..(MemLimit + Cardinality({c \in Classes : InitialLists[c] # <<>>})) :
                UNION {ToSet(InitialLists[c]) : c \in Classes} = 1..n
      BY InitialMemoryAssumption
    <3> QED
      BY <3>1, <3>2, <3>3
  <2>5. n \in Nat /\ n <= MemLimit + Cardinality(Filled(slab_list))
    <3>1. MemLimit \in Nat /\ Cardinality(Filled(slab_list)) \in Nat
      BY FilledFacts, SlabMoverAssumption
    <3> QED
      BY <3>1
  <2> QED
    BY <2>2, <2>3, <2>4, <2>5 DEF PagesInv, Filled
<1>4. RebalInv
  <2>1. slab_rebalance_signal = 0 /\ slab_rebal = NotMoving /\ moving = "none"
    BY DEF Init
  <2>2. NotMoving \in Cursor /\ ~NotMoving.done
    BY DEF NotMoving, Cursor
  <2> QED
    BY <2>1, <2>2 DEF RebalInv
<1> QED
  BY <1>1, <1>2, <1>3, <1>4, InitFacts DEF TypeInv

-----------------------------------------------------------------------------
(***************************************************************************)
(* Item locks.                                                             *)
(***************************************************************************)
\* A worker's command has changed; the lock of a key that another worker works
\* on, and of its own if it goes on with it, has not.
LEMMA LockStep ==
  ASSUME TypeInv, LockHeldUnlessStaleUnlock, NEW w \in Workers, NEW o,
         op' = [op EXCEPT ![w] = o], raced \subseteq raced',
         InItemLock(w)' => item_locks'[op'[w].key] = w \/ "unlock" \in raced',
         \A v \in Workers \ {w} : InItemLock(v) /\ item_locks[op[v].key] = v =>
               item_locks'[op[v].key] = v \/ "unlock" \in raced'
  PROVE  LockHeldUnlessStaleUnlock'
<1>1. ASSUME NEW v \in Workers, v # w, InItemLock(v)'
      PROVE  item_locks'[op'[v].key] = v \/ "unlock" \in raced'
  <2>1. op'[v] = op[v]
    BY <1>1 DEF TypeInv, OpInv
  <2>2. InItemLock(v)
    BY <1>1, <2>1 DEF InItemLock, InAppend
  <2>3. item_locks[op[v].key] = v \/ "unlock" \in raced
    BY <2>2 DEF LockHeldUnlessStaleUnlock
  <2> QED
    BY <1>1, <2>1, <2>2, <2>3
<1> QED
  BY <1>1 DEF LockHeldUnlessStaleUnlock

\* The locks have not changed.
LEMMA LockKept ==
  ASSUME TypeInv, LockHeldUnlessStaleUnlock, NEW w \in Workers, NEW o,
         op' = [op EXCEPT ![w] = o], item_locks' = item_locks, raced \subseteq raced',
         InItemLock(w)' => InItemLock(w) /\ o.key = op[w].key
  PROVE  LockHeldUnlessStaleUnlock'
<1>1. op'[w] = o
  BY DEF TypeInv, OpInv
<1>2. InItemLock(w)' => item_locks'[op'[w].key] = w \/ "unlock" \in raced'
  BY <1>1 DEF LockHeldUnlessStaleUnlock
<1> QED
  BY <1>2, LockStep

\* A worker has given its lock back.
LEMMA LockReturned ==
  ASSUME TypeInv, LockHeldUnlessStaleUnlock, NEW w \in Workers, NEW o,
         op' = [op EXCEPT ![w] = o], InItemLock(w), op[w].key \in Keys,
         item_locks' = [item_locks EXCEPT ![op[w].key] = None], raced \subseteq raced',
         ~InItemLock(w)'
  PROVE  LockHeldUnlessStaleUnlock'
<1>1. item_locks[op[w].key] = w \/ "unlock" \in raced
  BY DEF LockHeldUnlessStaleUnlock
<1>2. ASSUME NEW v \in Workers \ {w}, InItemLock(v), item_locks[op[v].key] = v
      PROVE  item_locks'[op[v].key] = v \/ "unlock" \in raced'
  <2>1. op[v].key \in Keys
    BY <1>2, AtFacts DEF InItemLock, Command
  <2>2. CASE op[v].key = op[w].key
    BY <1>1, <1>2, <2>2
  <2>3. CASE op[v].key # op[w].key
    BY <1>2, <2>1, <2>3, LocksKept
  <2> QED
    BY <2>2, <2>3
<1> QED
  BY <1>2, LockStep

\* The mover leaves the commands and the locks alone.
LEMMA LockAside ==
  ASSUME LockHeldUnlessStaleUnlock, op' = op, item_locks' = item_locks, raced' = raced
  PROVE  LockHeldUnlessStaleUnlock'
BY DEF LockHeldUnlessStaleUnlock, InItemLock, InAppend

\* A search goes on, and may have unlocked.
LEMMA LockSearch ==
  ASSUME TypeInv, LockHeldUnlessStaleUnlock, NEW w \in Workers, Searching(w), UnlockHold(w),
         NEW o, op' = [op EXCEPT ![w] = o],
         InItemLock(w)' => InItemLock(w) /\ o.key = op[w].key
  PROVE  LockHeldUnlessStaleUnlock'
<1>1. /\ raced \subseteq raced'
      /\ \A k \in Keys : item_locks[k] # item_locks'[k] => "unlock" \in raced'
  BY UnlockHoldTypes
<1>2. op'[w] = o
  BY DEF TypeInv, OpInv
<1>3. ASSUME NEW v \in Workers, InItemLock(v), item_locks[op[v].key] = v
      PROVE  item_locks'[op[v].key] = v \/ "unlock" \in raced'
  <2>1. op[v].key \in Keys
    BY <1>3, AtFacts DEF InItemLock, Command
  <2> QED
    BY <1>1, <1>3, <2>1
<1>4. InItemLock(w)' => item_locks'[op'[w].key] = w \/ "unlock" \in raced'
  BY <1>1, <1>2, <1>3 DEF LockHeldUnlessStaleUnlock
<1> QED
  BY <1>1, <1>3, <1>4, LockStep

LEMMA LocksNext ==
  ASSUME TypeInv, LockHeldUnlessStaleUnlock, [Next]_vars
  PROVE  LockHeldUnlessStaleUnlock'
<1>1. CASE UNCHANGED vars
  BY <1>1, LockAside DEF vars
<1>2. ASSUME NEW w \in Workers, NEW do \in {"set", "append", "get", "delete"}, NEW k \in Keys,
             NEW c \in UsedClasses, Begin(w, do, k, c)
      PROVE  LockHeldUnlessStaleUnlock'
  <2>1. PICK o : o = [do |-> do, key |-> k, cls |-> c,
                      at |-> IF do \in {"set", "append"} THEN "alloc" ELSE "lock",
                      it |-> None, old |-> None, new |-> None, free |-> None,
                      search |-> None, tries |-> 0, hold |-> None]
    OBVIOUS
  <2>2. op' = [op EXCEPT ![w] = o] /\ item_locks' = item_locks /\ raced' = raced
    BY <1>2, <2>1 DEF Begin
  <2>3. op'[w] = o
    BY <2>2 DEF TypeInv, OpInv
  <2>4. ~InItemLock(w)'
    BY <2>1, <2>3 DEF InItemLock, InAppend
  <2> QED
    BY <2>2, <2>4, LockKept
<1>3. ASSUME NEW w \in Workers, op' = [op EXCEPT ![w] = Idle], InItemLock(w),
             item_locks' = [item_locks EXCEPT ![op[w].key] = None], raced' = raced
      PROVE  LockHeldUnlessStaleUnlock'
  <2>1. ~InItemLock(w)'
    BY <1>3 DEF InItemLock, TypeInv, OpInv
  <2>2. op[w].key \in Keys
    BY <1>3, AtFacts DEF InItemLock, Command
  <2> QED
    BY <1>3, <2>1, <2>2, LockReturned
<1>4. ASSUME NEW w \in Workers, ClientGoesOn(w)
      PROVE  LockHeldUnlessStaleUnlock'
  <2>1. PICK next \in {"store", "remove"} : op' = [op EXCEPT ![w].at = next]
    BY <1>4 DEF ClientGoesOn
  <2>2. op[w] \in Command /\ op[w] # Idle
    BY <1>4, AtFacts DEF ClientGoesOn, At
  <2>3. PICK o : o = [op[w] EXCEPT !.at = next]
    OBVIOUS
  <2>4. op' = [op EXCEPT ![w] = o] /\ op'[w] = o /\ o.at = next
    BY <2>1, <2>2, <2>3 DEF TypeInv, OpInv, Command
  <2>5. ~InItemLock(w)'
    BY <2>4 DEF InItemLock, InAppend
  <2> QED
    BY <1>4, <2>4, <2>5, LockKept DEF ClientGoesOn
<1>5. ASSUME NEW w \in Workers, Worker(w)
      PROVE  LockHeldUnlessStaleUnlock'
  <2>1. CASE AllocStart(w)
    <3>1. op[w] \in Command /\ op[w] # Idle /\ op[w].at = "alloc"
      BY <2>1, AtFacts DEF AllocStart, At
    <3>2. PICK h : op' = [op EXCEPT ![w].at = "search", ![w].tries = MaxTries, ![w].search = h]
      BY <2>1 DEF AllocStart
    <3>3. PICK o : o = [op[w] EXCEPT !.at = "search", !.tries = MaxTries, !.search = h]
      OBVIOUS
    <3>4. op' = [op EXCEPT ![w] = o] /\ op'[w] = o
      BY <3>2, <3>3 DEF TypeInv, OpInv
    <3>5. o.old = op[w].old /\ o.key = op[w].key /\ o.at = "search"
      BY <3>1, <3>3 DEF Command
    <3>6. InItemLock(w)' => InItemLock(w)
      BY <3>1, <3>4, <3>5 DEF InItemLock, InAppend
    <3> QED
      BY <2>1, <3>4, <3>5, <3>6, LockKept DEF AllocStart
  <2>2. ASSUME NEW hold, Searching(w), SearchOn(w, hold)
        PROVE  \E o : /\ op' = [op EXCEPT ![w] = o] /\ o.key = op[w].key
                      /\ (InItemLock(w)' => InItemLock(w))
    <3>1. op[w] \in Command /\ op[w] # Idle /\ op[w].at = "search"
      BY <2>2, AtFacts DEF Searching, At
    <3>2. PICK p : op' = [op EXCEPT ![w].search = p, ![w].tries = @ - 1, ![w].hold = hold]
      BY <2>2 DEF SearchOn
    <3>3. PICK o : o = [op[w] EXCEPT !.search = p, !.tries = op[w].tries - 1, !.hold = hold]
      OBVIOUS
    <3>4. op' = [op EXCEPT ![w] = o] /\ op'[w] = o
      BY <3>2, <3>3 DEF TypeInv, OpInv
    <3>5. o.old = op[w].old /\ o.key = op[w].key /\ o.at = "search"
      BY <3>1, <3>3 DEF Command
    <3>6. InItemLock(w)' => InItemLock(w)
      BY <3>1, <3>4, <3>5 DEF InItemLock, InAppend
    <3> QED
      BY <3>4, <3>5, <3>6
  <2>3. CASE SkipLocked(w)
    <3>1. Searching(w) /\ SearchOn(w, None) /\ item_locks' = item_locks /\ raced' = raced
      BY <2>3 DEF SkipLocked
    <3> QED
      BY <2>2, <3>1, LockKept
  <2>4. CASE SkipBusy(w)
    <3>1. Searching(w) /\ SearchOn(w, HoldLock(w)) /\ UnlockHold(w)
      BY <2>4 DEF SkipBusy
    <3> QED
      BY <2>2, <3>1, LockSearch
  <2>5. ASSUME NEW h, At(w, "search"), Take(w, h)
        PROVE  \E o : /\ op' = [op EXCEPT ![w] = o] /\ o.key = op[w].key
                      /\ (InItemLock(w)' => InItemLock(w))
    <3>1. op[w] \in Command /\ op[w] # Idle /\ op[w].at = "search"
      BY <2>5, AtFacts DEF At
    <3>2. PICK o : o = [op[w] EXCEPT !.at = "init", !.search = None, !.tries = 0, !.hold = None,
                                     !.it = IF op[w].old # None THEN op[w].it ELSE h,
                                     !.new = IF op[w].old # None THEN h ELSE op[w].new]
      OBVIOUS
    <3>3. op' = [op EXCEPT ![w] = o] /\ op'[w] = o
      BY <2>5, <3>2 DEF TypeInv, OpInv, Take, InAppend
    <3>4. o.old = op[w].old /\ o.key = op[w].key /\ o.at = "init"
      BY <3>1, <3>2 DEF Command
    <3>5. InItemLock(w)' => InItemLock(w)
      BY <3>1, <3>3, <3>4 DEF InItemLock, InAppend
    <3> QED
      BY <3>3, <3>4, <3>5
  <2>6. CASE Found(w)
    <3>1. Searching(w) /\ UnlockHold(w) /\ At(w, "search")
      BY <2>6 DEF Found, Searching
    <3>2. \E h : Take(w, h)
      BY <2>6 DEF Found, SlabsAlloc
    <3> QED
      BY <2>5, <3>1, <3>2, LockSearch
  <2>7. CASE Exhausted(w)
    <3>1. At(w, "search") /\ item_locks' = item_locks /\ raced' = raced
      BY <2>7 DEF Exhausted
    <3>2. CASE SlabsAlloc(w)
      <4>1. \E h : Take(w, h)
        BY <3>2 DEF SlabsAlloc
      <4> QED
        BY <2>5, <3>1, <4>1, LockKept
    <3>3. CASE ~SlabsAlloc(w)
      <4>1. op[w] \in Command /\ op[w] # Idle /\ op[w].at = "search"
        BY <3>1, AtFacts DEF At
      <4>2. PICK d \in Refused(w) : op' = [op EXCEPT ![w] = d]
        BY <2>7, <3>3 DEF Exhausted
      <4>3. op'[w] = d
        BY <4>2 DEF TypeInv, OpInv
      <4>4. CASE op[w].old # None
        <5>1. d.key = op[w].key
          BY <3>1, <4>4, RefusedFacts
        <5>2. InItemLock(w)
          BY <4>1, <4>4 DEF InItemLock, InAppend
        <5> QED
          BY <3>1, <4>2, <5>1, <5>2, LockKept
      <4>5. CASE op[w].old = None
        <5>1. d = Idle \/ d.at = "lock"
          BY <3>1, <4>5, RefusedFacts
        <5>2. ~InItemLock(w)'
          BY <4>3, <5>1 DEF InItemLock
        <5> QED
          BY <3>1, <4>2, <5>2, LockKept
      <4> QED
        BY <4>4, <4>5
    <3> QED
      BY <3>2, <3>3
  <2>8. CASE InitItem(w)
    <3>1. op[w] \in Command /\ op[w] # Idle /\ op[w].at = "init"
      BY <2>8, AtFacts DEF InitItem, At
    <3>2. PICK o : o = [op[w] EXCEPT !.at = IF op[w].old # None THEN "unlink" ELSE "reading"]
      OBVIOUS
    <3>3. op' = [op EXCEPT ![w] = o] /\ op'[w] = o
      BY <2>8, <3>2 DEF InitItem, InAppend, TypeInv, OpInv
    <3>4. o.key = op[w].key /\ o.at = IF op[w].old # None THEN "unlink" ELSE "reading"
      BY <3>1, <3>2 DEF Command
    <3>5. InItemLock(w)' => InItemLock(w)
      BY <3>1, <3>3, <3>4 DEF InItemLock, InAppend
    <3> QED
      BY <2>8, <3>3, <3>4, <3>5, LockKept DEF InitItem
  <2>9. CASE ItemLock(w)
    <3>1. op[w] \in Command /\ op[w] # Idle
      BY <2>9, AtFacts DEF ItemLock, At
    <3>2. PICK o : o = [op[w] EXCEPT !.at = IF op[w].at = "remove" THEN "removing" ELSE "get"]
      OBVIOUS
    <3>3. op' = [op EXCEPT ![w] = o] /\ op'[w] = o
      BY <2>9, <3>2 DEF ItemLock, TypeInv, OpInv
    <3>4. o.key = op[w].key /\ op[w].key \in Keys
      BY <3>1, <3>2 DEF Command
    <3>5. item_locks[op[w].key] = None /\ item_locks' = [item_locks EXCEPT ![op[w].key] = w]
          /\ raced' = raced
      BY <2>9 DEF ItemLock
    <3>6. item_locks'[op'[w].key] = w
      BY <3>3, <3>4, <3>5, LocksKept
    <3>7. ASSUME NEW v \in Workers \ {w}, InItemLock(v), item_locks[op[v].key] = v
          PROVE  item_locks'[op[v].key] = v \/ "unlock" \in raced'
      <4>1. op[v].key # op[w].key
        BY <3>5, <3>7, SlabMoverAssumption
      <4> QED
        BY <3>5, <3>7, <4>1, LocksKept
    <3> QED
      BY <3>3, <3>5, <3>6, <3>7, LockStep
  <2>10. ASSUME NEW o, op' = [op EXCEPT ![w] = o], item_locks' = item_locks,
                raced \subseteq raced', o.key = op[w].key, InItemLock(w)
         PROVE  LockHeldUnlessStaleUnlock'
    BY <2>10, LockKept
  <2>11. ASSUME NEW o, op' = [op EXCEPT ![w] = o], InItemLock(w), raced \subseteq raced',
                item_locks' = [item_locks EXCEPT ![op[w].key] = None],
                o # Idle => o.at \in {"writing", "delete", "remove"}
         PROVE  LockHeldUnlessStaleUnlock'
    <3>1. op'[w] = o
      BY <2>11 DEF TypeInv, OpInv
    <3>2. ~InItemLock(w)'
      BY <2>11, <3>1 DEF InItemLock
    <3>3. op[w].key \in Keys
      BY <2>11, AtFacts DEF InItemLock, Command
    <3> QED
      BY <2>11, <3>2, <3>3, LockReturned
  <2>12. CASE DoItemGet(w)
    <3>1. op[w] \in Command /\ op[w] # Idle /\ At(w, "get") /\ InItemLock(w)
      BY <2>12, AtFacts DEF DoItemGet, At, InItemLock
    <3>2. raced \subseteq raced'
      BY <2>12 DEF DoItemGet
    <3>3. ASSUME NEW freed \in MaybeChunk, GetNothing(w, freed)
          PROVE  LockHeldUnlessStaleUnlock'
      <4>1. CASE op[w].do \in {"get", "delete"} /\ freed = None
        <5>1. op' = [op EXCEPT ![w] = Idle]
              /\ item_locks' = [item_locks EXCEPT ![op[w].key] = None]
          BY <3>3, <4>1 DEF GetNothing, End, ItemUnlock
        <5> QED
          BY <2>11, <3>1, <3>2, <5>1
      <4>2. CASE op[w].do \in {"get", "delete"} /\ freed # None
        <5>1. PICK o : o = [op[w] EXCEPT !.it = None, !.free = freed, !.at = "unlock"]
          OBVIOUS
        <5>2. op' = [op EXCEPT ![w] = o] /\ item_locks' = item_locks
          BY <3>3, <4>2, <5>1 DEF GetNothing, End, TypeInv, OpInv
        <5>3. o.key = op[w].key
          BY <3>1, <5>1 DEF Command
        <5> QED
          BY <2>10, <3>1, <3>2, <5>2, <5>3
      <4>3. CASE op[w].do \notin {"get", "delete"}
        <5>1. PICK o : o = [op[w] EXCEPT !.free = freed,
                                         !.at = IF op[w].do = "set" THEN "link" ELSE "drop"]
          OBVIOUS
        <5>2. op' = [op EXCEPT ![w] = o] /\ item_locks' = item_locks
          BY <3>3, <4>3, <5>1 DEF GetNothing, TypeInv, OpInv
        <5>3. o.key = op[w].key
          BY <3>1, <5>1 DEF Command
        <5> QED
          BY <2>10, <3>1, <3>2, <5>2, <5>3
      <4> QED
        BY <4>1, <4>2, <4>3
    <3>4. ASSUME NEW h \in Chunks, GetFound(w, h)
          PROVE  LockHeldUnlessStaleUnlock'
      <4>1. CASE op[w].do \in {"get", "delete"}
        <5>1. PICK o : o = [op[w] EXCEPT !.it = h,
                                         !.at = IF op[w].do = "get" THEN "writing" ELSE "delete"]
          OBVIOUS
        <5>2. op' = [op EXCEPT ![w] = o]
              /\ item_locks' = [item_locks EXCEPT ![op[w].key] = None]
          BY <3>4, <4>1, <5>1 DEF GetFound, ItemUnlock, TypeInv, OpInv
        <5>3. o.at \in {"writing", "delete"}
          BY <3>1, <5>1 DEF Command
        <5> QED
          BY <2>11, <3>1, <3>2, <5>2, <5>3
      <4>2. CASE op[w].do \notin {"get", "delete"}
        <5>1. PICK o : o = [op[w] EXCEPT !.old = h,
                                         !.at = IF op[w].do = "set" THEN "unlink" ELSE "alloc"]
          OBVIOUS
        <5>2. op' = [op EXCEPT ![w] = o] /\ item_locks' = item_locks
          BY <3>4, <4>2, <5>1 DEF GetFound, TypeInv, OpInv
        <5>3. o.key = op[w].key
          BY <3>1, <5>1 DEF Command
        <5> QED
          BY <2>10, <3>1, <3>2, <5>2, <5>3
      <4> QED
        BY <4>1, <4>2
    <3>5. \A h \in Chunks : Dropped(h) \in MaybeChunk
      BY DEF Dropped, MaybeChunk
    <3>6. None \in MaybeChunk
      BY DEF MaybeChunk
    <3> QED
      BY <2>12, <3>3, <3>4, <3>5, <3>6 DEF DoItemGet
  <2>13. CASE Unlink(w)
    <3>1. op[w] \in Command /\ op[w] # Idle
      BY <2>13, AtFacts DEF Unlink, At
    <3>2. item_locks' = item_locks /\ raced' = raced
      BY <2>13 DEF Unlink
    <3>3. CASE op' = [op EXCEPT ![w].at = "link"] /\ At(w, "unlink")
      <4>1. PICK o : o = [op[w] EXCEPT !.at = "link"]
        OBVIOUS
      <4>2. op' = [op EXCEPT ![w] = o] /\ o.key = op[w].key
        BY <3>1, <3>3, <4>1 DEF TypeInv, OpInv, Command
      <4>3. InItemLock(w)
        BY <3>3 DEF At, InItemLock
      <4> QED
        BY <2>10, <3>2, <4>2, <4>3
    <3>4. CASE op' = [op EXCEPT ![w].at = "remove"]
      <4>1. PICK o : o = [op[w] EXCEPT !.at = "remove"]
        OBVIOUS
      <4>2. op' = [op EXCEPT ![w] = o] /\ op'[w] = o /\ o.at = "remove"
        BY <3>1, <3>4, <4>1 DEF TypeInv, OpInv, Command
      <4>3. ~InItemLock(w)'
        BY <4>2 DEF InItemLock
      <4> QED
        BY <3>2, <4>2, <4>3, LockKept
    <3> QED
      BY <2>13, <3>3, <3>4 DEF Unlink
  <2>14. CASE Link(w)
    <3>1. op[w] \in Command /\ op[w] # Idle /\ InItemLock(w)
      BY <2>14, AtFacts DEF Link, At, InItemLock
    <3>2. PICK o : o = [op[w] EXCEPT !.at = "drop"]
      OBVIOUS
    <3>3. op' = [op EXCEPT ![w] = o] /\ o.key = op[w].key
      BY <2>14, <3>1, <3>2 DEF Link, TypeInv, OpInv, Command
    <3> QED
      BY <2>10, <2>14, <3>1, <3>3 DEF Link
  <2>15. CASE Drop(w)
    <3>1. op[w] \in Command /\ op[w] # Idle /\ InItemLock(w)
      BY <2>15, AtFacts DEF Drop, At, InItemLock
    <3>2. raced' = raced
      BY <2>15 DEF Drop
    <3>3. PICK o \in Command :
            /\ op' = [op EXCEPT ![w] = o] /\ o # Idle /\ Shape(o) /\ o.at # "search"
            /\ item_locks' \in [Keys -> Workers \cup {None}]
            /\ DropTo(w, o)
      BY <2>15, DropFacts
    <3>4. \/ item_locks' = item_locks /\ o.key = op[w].key
          \/ item_locks' = [item_locks EXCEPT ![op[w].key] = None] /\ o.at = "remove"
      BY <3>1, <3>3 DEF DropTo, Command
    <3> QED
      BY <2>10, <2>11, <3>1, <3>2, <3>3, <3>4
  <2>16. CASE ItemRemove(w)
    <3>1. op[w] \in Command /\ op[w] # Idle /\ InItemLock(w)
      BY <2>16, AtFacts DEF ItemRemove, At, InItemLock
    <3>2. raced' = raced
      BY <2>16 DEF ItemRemove
    <3>3. PICK h \in Chunks, o \in Command \cup {Idle} :
            /\ op' = [op EXCEPT ![w] = o]
            /\ o = IF Dropped(h) = None THEN Idle
                   ELSE [op[w] EXCEPT !.it = None, !.free = Dropped(h), !.at = "unlock"]
            /\ item_locks' = IF Dropped(h) = None THEN [item_locks EXCEPT ![op[w].key] = None]
                             ELSE item_locks
      BY <2>16, ItemRemoveFacts, ZenonT(60)
    <3>4. CASE Dropped(h) = None
      BY <2>11, <3>1, <3>2, <3>3, <3>4
    <3>5. CASE Dropped(h) # None
      <4>1. o.key = op[w].key
        BY <3>1, <3>3, <3>5 DEF Command
      <4> QED
        BY <2>10, <3>1, <3>2, <3>3, <3>5, <4>1
    <3> QED
      BY <3>4, <3>5
  <2>17. CASE Unlock(w)
    BY <1>3, <2>17 DEF Unlock, ItemUnlock, At, InItemLock
  <2>18. CASE FreeItem(w)
    <3>1. op[w] \in Command /\ op[w] # Idle
      BY <2>18, AtFacts DEF FreeItem
    <3>2. PICK o : o = [op[w] EXCEPT !.free = None]
      OBVIOUS
    <3>3. op' = [op EXCEPT ![w] = o] /\ op'[w] = o
      BY <2>18, <3>2 DEF FreeItem, TypeInv, OpInv
    <3>4. o.key = op[w].key /\ o.at = op[w].at /\ o.old = op[w].old
      BY <3>1, <3>2 DEF Command
    <3>5. InItemLock(w)' => InItemLock(w)
      BY <3>1, <3>3, <3>4 DEF InItemLock, InAppend
    <3> QED
      BY <2>18, <3>3, <3>4, <3>5, LockKept DEF FreeItem
  <2> QED
    BY <1>5, <2>1, <2>3, <2>4, <2>6, <2>7, <2>8, <2>9, <2>12, <2>13, <2>14, <2>15, <2>16, <2>17,
       <2>18 DEF Worker
<1>6. ASSUME NEW src \in Classes, NEW dst \in Classes, Reassign(src, dst)
      PROVE  LockHeldUnlessStaleUnlock'
  BY <1>6, LockAside DEF Reassign
<1>7. CASE Rebalancer
  BY <1>7, LockAside DEF Rebalancer, RebalanceStart, MovePass, MoveItem, MoveEnd, RebalanceFinish
<1> QED
  BY <1>1, <1>2, <1>4, <1>5, <1>6, <1>7 DEF Next, Step

-----------------------------------------------------------------------------
(***************************************************************************)
(* Reference counts.                                                       *)
(***************************************************************************)
One(b) == IF b THEN 1 ELSE 0
Holders(h) == {w \in Workers : HasRef(op[w], h)}
AtMover(h) == moving # "none" /\ h = Pos

\* The references to a chunk, by who has them.
LEMMA RefsFacts ==
  ASSUME NEW h
  PROVE  /\ IsFiniteSet(Holders(h)) /\ Cardinality(Holders(h)) \in Nat
         /\ Refs(h) = One(Linked(h)) + Cardinality(Holders(h)) + One(AtMover(h))
         /\ Cardinality(Holders(h)) = 0 => \A w \in Workers : ~HasRef(op[w], h)
         /\ \A w \in Workers : HasRef(op[w], h) => Cardinality(Holders(h)) >= 1
         /\ \A w, v \in Workers : HasRef(op[w], h) /\ HasRef(op[v], h) /\ v # w =>
               Cardinality(Holders(h)) >= 2
<1>1. Holders(h) \subseteq Workers
  BY DEF Holders
<1>2. IsFiniteSet(Holders(h)) /\ Cardinality(Holders(h)) \in Nat
  BY <1>1, SlabMoverAssumption, FS_Subset, FS_CardinalityType
<1>3. Holders(h) = {w \in Workers : Refers(w, h)}
  BY DEF Holders, Refers, HasRef
<1>4. Refs(h) = One(Linked(h)) + Cardinality(Holders(h)) + One(AtMover(h))
  BY <1>3 DEF Refs, One, AtMover
<1>5. ASSUME NEW w \in Workers, HasRef(op[w], h)
      PROVE  Cardinality(Holders(h)) >= 1
  <2>1. w \in Holders(h)
    BY <1>5 DEF Holders
  <2>2. Cardinality(Holders(h)) # 0
    BY <1>2, <2>1, FS_EmptySet
  <2> QED
    BY <1>2, <2>2
<1>6. Cardinality(Holders(h)) = 0 => \A w \in Workers : ~HasRef(op[w], h)
  BY <1>5
<1>7. ASSUME NEW w \in Workers, NEW v \in Workers, HasRef(op[w], h), HasRef(op[v], h), v # w
      PROVE  Cardinality(Holders(h)) >= 2
  <2>1. w \in Holders(h) /\ v \in Holders(h)
    BY <1>7 DEF Holders
  <2>2. /\ IsFiniteSet(Holders(h) \ {w})
        /\ Cardinality(Holders(h) \ {w}) = Cardinality(Holders(h)) - 1
    BY <1>2, <2>1, FS_RemoveElement
  <2>3. v \in Holders(h) \ {w}
    BY <1>7, <2>1
  <2>4. Cardinality(Holders(h) \ {w}) # 0
    BY <2>2, <2>3, FS_EmptySet
  <2> QED
    BY <1>2, <1>5, <1>7, <2>2, <2>4
<1> QED
  BY <1>2, <1>4, <1>5, <1>6, <1>7

LEMMA RefsNext ==
  ASSUME NEW h
  PROVE  Refs(h)' = One(Linked(h)') + Cardinality(Holders(h)') + One(AtMover(h)')
<1>1. Holders(h)' = {w \in Workers : Refers(w, h)}'
  BY DEF Holders, Refers, HasRef
<1>2. Refs(h)' = One(Linked(h)') + Cardinality({w \in Workers : Refers(w, h)}')
                 + One(AtMover(h)')
  BY DEF Refs, One, AtMover
<1> QED
  BY <1>1, <1>2

\* One worker's command has changed.
LEMMA HoldersStep ==
  ASSUME TypeInv, NEW w \in Workers, NEW o, op' = [op EXCEPT ![w] = o], NEW h
  PROVE  Cardinality(Holders(h)') = Cardinality(Holders(h)) - One(HasRef(op[w], h))
                                    + One(HasRef(o, h))
<1>1. op'[w] = o /\ \A v \in Workers \ {w} : op'[v] = op[v]
  BY DEF TypeInv, OpInv
<1>2. Holders(h)' \ {w} = Holders(h) \ {w}
  BY <1>1 DEF Holders
<1>3. (w \in Holders(h) <=> HasRef(op[w], h)) /\ (w \in Holders(h)' <=> HasRef(o, h))
  BY <1>1 DEF Holders
<1>4. PICK P, Q : P = Holders(h) /\ Q = Holders(h)'
  OBVIOUS
<1>5. P \subseteq Workers /\ Q \subseteq Workers
  BY <1>4 DEF Holders
<1>6. IsFiniteSet(P) /\ IsFiniteSet(Q) /\ Cardinality(P) \in Nat /\ Cardinality(Q) \in Nat
  BY <1>5, SlabMoverAssumption, FS_Subset, FS_CardinalityType
<1>7. P \ {w} = Q \ {w}
  BY <1>2, <1>4
<1>8. IsFiniteSet(P \ {w}) /\ Cardinality(P \ {w}) = Cardinality(P) - One(w \in P)
  BY <1>6, FS_RemoveElement DEF One
<1>9. IsFiniteSet(Q \ {w}) /\ Cardinality(Q \ {w}) = Cardinality(Q) - One(w \in Q)
  BY <1>6, FS_RemoveElement DEF One
<1>10. PICK p, q, r, i, j : p = Cardinality(P) /\ q = Cardinality(Q) /\ r = Cardinality(P \ {w})
                          /\ i = One(w \in P) /\ j = One(w \in Q)
  OBVIOUS
<1>11. p \in Nat /\ q \in Nat /\ i \in {0, 1} /\ j \in {0, 1}
  BY <1>6, <1>10 DEF One
<1>12. r = p - i /\ r = q - j
  BY <1>7, <1>8, <1>9, <1>10
<1>13. q = p - i + j
  BY <1>11, <1>12
<1>14. i = One(HasRef(op[w], h)) /\ j = One(HasRef(o, h))
  BY <1>3, <1>4, <1>10 DEF One
<1> QED
  BY <1>4, <1>10, <1>13, <1>14

\* What an exact count says of the others.
LEMMA CountFacts ==
  ASSUME TypeInv, NEW h \in Chunks, CountInv(h)
  PROVE  /\ item[h].refcount \in Nat
         /\ item[h].refcount = 0 => /\ ~Linked(h) /\ ~AtMover(h)
                                    /\ \A w \in Workers : ~HasRef(op[w], h)
         /\ item[h].refcount = 1 /\ Linked(h) =>
               ~AtMover(h) /\ \A w \in Workers : ~HasRef(op[w], h)
         /\ item[h].refcount = 1 /\ AtMover(h) =>
               ~Linked(h) /\ \A w \in Workers : ~HasRef(op[w], h)
         /\ \A w \in Workers : item[h].refcount = 1 /\ HasRef(op[w], h) =>
               /\ ~Linked(h) /\ ~AtMover(h)
               /\ \A v \in Workers \ {w} : ~HasRef(op[v], h)
         /\ \A w \in Workers : HasRef(op[w], h) => item[h].refcount >= 1
<1>1. PICK n, r : n = Cardinality(Holders(h)) /\ r = item[h].refcount
  OBVIOUS
<1>2. n \in Nat /\ r = One(Linked(h)) + n + One(AtMover(h))
  BY <1>1, RefsFacts DEF CountInv
<1>3. /\ n = 0 => \A w \in Workers : ~HasRef(op[w], h)
      /\ \A w \in Workers : HasRef(op[w], h) => n >= 1
      /\ \A w, v \in Workers : HasRef(op[w], h) /\ HasRef(op[v], h) /\ v # w => n >= 2
  BY <1>1, RefsFacts
<1>4. r \in Nat
  BY <1>2 DEF One
<1>5. r = 0 => ~Linked(h) /\ ~AtMover(h) /\ n = 0
  BY <1>2 DEF One
<1>6. r = 1 /\ Linked(h) => ~AtMover(h) /\ n = 0
  BY <1>2 DEF One
<1>7. r = 1 /\ AtMover(h) => ~Linked(h) /\ n = 0
  BY <1>2 DEF One
<1>8. r = 1 /\ n >= 1 => ~Linked(h) /\ ~AtMover(h) /\ ~(n >= 2)
  BY <1>2 DEF One
<1>9. n >= 1 => r >= 1
  BY <1>2 DEF One
<1> QED
  BY <1>1, <1>3, <1>4, <1>5, <1>6, <1>7, <1>8, <1>9

-----------------------------------------------------------------------------
(***************************************************************************)
(* What a step does to one chunk.                                          *)
(***************************************************************************)
\* A chunk has one class.
LEMMA OwnedOnce ==
  ASSUME TypeInv, NEW h \in Chunks, NEW c, NEW d, Owned(h, c), Owned(h, d)
  PROVE  c = d
<1>1. /\ c \in Classes /\ slab_list[c] \in Seq(Pages) /\ h \in ChunksIn(slab_list[c], c)
      /\ d \in Classes /\ slab_list[d] \in Seq(Pages) /\ h \in ChunksIn(slab_list[d], d)
  BY DEF Owned, TypeInv, PagesInv
<1>2. PICK p \in Pages : Contains(slab_list[c], p) /\ Contains(PageChunks(p, c), h)
  BY <1>1, ChunksInFacts
<1>3. PICK q \in Pages : Contains(slab_list[d], q) /\ Contains(PageChunks(q, d), h)
  BY <1>1, ChunksInFacts
<1>4. (\E i \in 1..PerSlab[c] : h = <<p, i>>) /\ (\E j \in 1..PerSlab[d] : h = <<q, j>>)
  BY <1>1, <1>2, <1>3, PageFacts
<1>5. p = q
  BY <1>4
<1>6. p \in ToSet(slab_list[c]) /\ p \in ToSet(slab_list[d])
  BY <1>1, <1>2, <1>3, <1>5, ToSetFacts
<1> QED
  BY <1>1, <1>6 DEF TypeInv, PagesInv

LEMMA PageChunk ==
  ASSUME NEW p \in Pages, NEW c \in Classes, NEW i \in 1..PerSlab[c]
  PROVE  <<p, i>> \in Chunks /\ Contains(PageChunks(p, c), <<p, i>>)
<1>1. PageChunks(p, c) \in Seq(Chunks) /\ Contains(PageChunks(p, c), <<p, i>>)
  BY PageFacts
<1> QED
  BY <1>1 DEF Contains

\* A chunk by its page.
LEMMA OwnedPage ==
  ASSUME TypeInv, NEW c \in Classes, NEW p \in Pages, NEW i
  PROVE  Owned(<<p, i>>, c) <=> Contains(slab_list[c], p) /\ i \in 1..PerSlab[c]
<1>1. slab_list[c] \in Seq(Pages)
  BY DEF TypeInv, PagesInv
<1>2. Owned(<<p, i>>, c) <=>
         \E q \in Pages : Contains(slab_list[c], q) /\ Contains(PageChunks(q, c), <<p, i>>)
  BY <1>1, ChunksInFacts DEF Owned
<1>3. \A q \in Pages : Contains(PageChunks(q, c), <<p, i>>) <=> q = p /\ i \in 1..PerSlab[c]
  <2>1. ASSUME NEW q \in Pages
        PROVE  Contains(PageChunks(q, c), <<p, i>>) <=> q = p /\ i \in 1..PerSlab[c]
    <3>1. Contains(PageChunks(q, c), <<p, i>>) <=> \E j \in 1..PerSlab[c] : <<p, i>> = <<q, j>>
      BY PageFacts
    <3>2. (\E j \in 1..PerSlab[c] : <<p, i>> = <<q, j>>) <=> q = p /\ i \in 1..PerSlab[c]
      OBVIOUS
    <3> QED
      BY <3>1, <3>2
  <2> QED
    BY <2>1
<1> QED
  BY <1>2, <1>3

\* The command o becomes q, which means nothing to the chunk.
Aside(o, q, h) ==
    /\ HasRef(q, h) <=> HasRef(o, h)
    /\ IsNew(q, h) => IsNew(o, h)
    /\ HasRef(o, h) => (IsRaw(q, h) <=> IsRaw(o, h)) /\ q.cls = o.cls
    /\ Frees(q, h) => Frees(o, h)

LEMMA AsideSame ==
  ASSUME NEW o, NEW h
  PROVE  Aside(o, o, h)
BY DEF Aside

\* A chunk that the step leaves as it was.
LEMMA SameChunk ==
  ASSUME TypeInv, NEW h \in Chunks, ChunkInv(h), item'[h] = item[h],
         \A c \in Classes : Contains(lru'[c], h) <=> Contains(lru[c], h),
         \A c \in Classes : Contains(slots'[c], h) => Contains(slots[c], h),
         \A c \in Classes : Owned(h, c) => Owned(h, c)',
         \A v \in Workers : Aside(op[v], op'[v], h),
         AtMover(h)' <=> AtMover(h),
         ClearInv(h)'
  PROVE  ChunkInv(h)'
<1>1. Linked(h)' <=> Linked(h)
  BY DEF Linked
<1>2. ASSUME Live(h)
      PROVE  Live(h)' /\ item[h].slabs_clsid \in Classes
  <2>1. PICK c : c = item[h].slabs_clsid
    OBVIOUS
  <2>2. c \in Classes /\ Owned(h, c)
    BY <1>2, <2>1 DEF Live, Owned
  <2>3. Owned(h, c)'
    BY <2>2
  <2> QED
    BY <1>2, <2>1, <2>2, <2>3 DEF Live, Owned
<1>3. CountInv(h)'
  <2>1. Holders(h)' = Holders(h)
    BY DEF Holders, Aside
  <2>2. Refs(h) = One(Linked(h)) + Cardinality(Holders(h)) + One(AtMover(h))
    BY RefsFacts
  <2>3. Refs(h)' = One(Linked(h)') + Cardinality(Holders(h)') + One(AtMover(h)')
    BY RefsNext
  <2> QED
    BY <1>1, <2>1, <2>2, <2>3 DEF ChunkInv, CountInv, One
<1>4. LinkedInv(h)'
  BY <1>1, <1>2 DEF ChunkInv, LinkedInv
<1>5. SlotInv(h)'
  BY DEF ChunkInv, SlotInv
<1>6. HandleInv(h)'
  <2>1. ASSUME NEW v \in Workers, HasRef(op'[v], h)
        PROVE  IF IsRaw(op'[v], h) THEN Owned(h, op[v].cls)' /\ item'[h].slabs_clsid = 0
               ELSE Live(h)'
    <3>1. /\ HasRef(op[v], h) /\ (IsRaw(op'[v], h) <=> IsRaw(op[v], h))
          /\ op'[v].cls = op[v].cls
      BY <2>1 DEF Aside
    <3>2. IF IsRaw(op[v], h) THEN Owned(h, op[v].cls) /\ item[h].slabs_clsid = 0 ELSE Live(h)
      BY <3>1 DEF ChunkInv, HandleInv
    <3>3. CASE IsRaw(op[v], h)
      <4>1. PICK c : c = op[v].cls
        OBVIOUS
      <4>2. Owned(h, c) /\ c \in Classes
        BY <3>2, <3>3, <4>1 DEF Owned
      <4>3. Owned(h, c)'
        BY <4>2
      <4> QED
        BY <3>1, <3>2, <3>3, <4>1, <4>3 DEF Owned
    <3>4. CASE ~IsRaw(op[v], h)
      BY <1>2, <3>1, <3>2, <3>4
    <3> QED
      BY <3>3, <3>4
  <2> QED
    BY <2>1 DEF HandleInv, HasRef, IsRaw
<1>7. NewInv(h)'
  <2>1. ASSUME NEW v \in Workers, IsNew(op'[v], h)
        PROVE  /\ ~Linked(h)' /\ \A u \in Workers \ {v} : ~HasRef(op'[u], h)
               /\ ~IsRaw(op'[v], h) => item'[h].slabs_clsid = op'[v].cls
    <3>1. IsNew(op[v], h) /\ HasRef(op[v], h)
      BY <2>1 DEF Aside, IsNew, HasRef
    <3>2. (IsRaw(op'[v], h) <=> IsRaw(op[v], h)) /\ op'[v].cls = op[v].cls
      BY <3>1 DEF Aside
    <3> QED
      BY <1>1, <3>1, <3>2 DEF ChunkInv, NewInv, Aside
  <2> QED
    BY <2>1 DEF NewInv, IsNew, HasRef, IsRaw
<1>8. FreedInv(h)'
  <2>1. ASSUME NEW v \in Workers, Frees(op'[v], h)
        PROVE  /\ Live(h)' /\ ~Linked(h)' /\ \A u \in Workers : ~HasRef(op'[u], h)
               /\ \A u \in Workers \ {v} : ~Frees(op'[u], h)
    BY <1>1, <1>2, <2>1 DEF ChunkInv, FreedInv, Aside
  <2> QED
    BY <2>1 DEF FreedInv, Frees, HasRef
<1> QED
  BY <1>3, <1>4, <1>5, <1>6, <1>7, <1>8 DEF ChunkInv

\* Nobody but worker w has the chunk in hand.
Alone(w, h) == \A v \in Workers \ {w} : ~HasRef(op[v], h)

\* A chunk that a step of worker w has changed.
LEMMA TouchedChunk ==
  ASSUME TypeInv, NEW w \in Workers, NEW q, op' = [op EXCEPT ![w] = q],
         NEW h \in Chunks, ChunkInv(h),
         AtMover(h)' <=> AtMover(h),
         \A v \in Workers \ {w} : ~IsNew(op[v], h) /\ ~Frees(op[v], h),
         Alone(w, h) \/ (Live(h) /\ Live(h)'),
         HasRef(q, h) => IF IsRaw(q, h) THEN Owned(h, q.cls)' /\ item'[h].slabs_clsid = 0
                         ELSE Live(h)',
         IsNew(q, h) => /\ Alone(w, h) /\ ~Linked(h)'
                        /\ ~IsRaw(q, h) => item'[h].slabs_clsid = q.cls,
         Frees(q, h) => Live(h)' /\ ~Linked(h)' /\ Alone(w, h) /\ ~HasRef(q, h),
         NEW n \in Int, NEW m \in Int, n = item[h].refcount, m = item'[h].refcount,
         m - One(Linked(h)') - One(HasRef(q, h)) = n - One(Linked(h)) - One(HasRef(op[w], h)),
         LinkedInv(h)', SlotInv(h)', item'[h].slabs_clsid # 255
  PROVE  ChunkInv(h)'
<1>1. op'[w] = q /\ \A v \in Workers \ {w} : op'[v] = op[v]
  BY DEF TypeInv, OpInv
<1>2. CountInv(h)'
  <2>1. PICK k, j : k = Cardinality(Holders(h)) /\ j = Cardinality(Holders(h)')
    OBVIOUS
  <2>2. k \in Nat /\ n = One(Linked(h)) + k + One(AtMover(h))
    BY <2>1, RefsFacts DEF ChunkInv, CountInv
  <2>3. j = k - One(HasRef(op[w], h)) + One(HasRef(q, h))
    BY <2>1, HoldersStep
  <2>4. Refs(h)' = One(Linked(h)') + j + One(AtMover(h))
    BY <2>1, RefsNext DEF One
  <2>5. PICK a, b, c, d, e : /\ a = One(Linked(h)) /\ b = One(Linked(h)') /\ c = One(AtMover(h))
                             /\ d = One(HasRef(op[w], h)) /\ e = One(HasRef(q, h))
    OBVIOUS
  <2>6. a \in 0..1 /\ b \in 0..1 /\ c \in 0..1 /\ d \in 0..1 /\ e \in 0..1
    BY <2>5 DEF One
  <2>7. m = b + j + c
    <3>1. n = a + k + c /\ j = k - d + e /\ m - b - e = n - a - d
      BY <2>2, <2>3, <2>5
    <3>2. /\ a \in Int /\ b \in Int /\ c \in Int /\ d \in Int /\ e \in Int
          /\ k \in Int /\ j \in Int
      BY <2>2, <2>6, <3>1
    <3>3. k = n - a - c /\ m = n - a - d + b + e
      BY <3>1, <3>2
    <3> QED
      BY <3>1, <3>2, <3>3
  <2> QED
    BY <2>4, <2>5, <2>7 DEF CountInv
<1>3. HandleInv(h)'
  <2>1. ASSUME NEW v \in Workers \ {w}, HasRef(op[v], h)
        PROVE  ~IsRaw(op[v], h) /\ Live(h)'
    <3>1. Live(h) /\ Live(h)'
      BY <2>1 DEF Alone
    <3>2. item[h].slabs_clsid # 0
      BY <3>1, ClassFacts DEF Live, Owned
    <3> QED
      BY <2>1, <3>1, <3>2 DEF ChunkInv, HandleInv
  <2>2. ASSUME NEW v \in Workers \ {w}, HasRef(op'[v], h)
        PROVE  ~IsRaw(op'[v], h) /\ Live(h)'
    BY <1>1, <2>1, <2>2
  <2> QED
    BY <1>1, <2>2 DEF HandleInv, HasRef, IsRaw
<1>4. NewInv(h)'
  <2>1. \A v \in Workers \ {w} : ~IsNew(op'[v], h)
    BY <1>1
  <2>2. IsNew(q, h) => \A v \in Workers \ {w} : ~HasRef(op'[v], h)
    BY <1>1 DEF Alone
  <2> QED
    BY <1>1, <2>1, <2>2 DEF NewInv, IsNew, HasRef, IsRaw
<1>5. FreedInv(h)'
  <2>1. \A v \in Workers \ {w} : ~Frees(op'[v], h)
    BY <1>1
  <2>2. Frees(q, h) => /\ \A v \in Workers : ~HasRef(op'[v], h)
                       /\ Live(h)' /\ ~Linked(h)'
    BY <1>1 DEF Alone
  <2> QED
    BY <1>1, <2>1, <2>2 DEF FreedInv, Frees, HasRef
<1> QED
  BY <1>2, <1>3, <1>4, <1>5 DEF ChunkInv, ClearInv

\* A chunk that no list holds and no worker has in hand.
Unused(h) ==
    /\ ~Linked(h) /\ \A c \in Classes : ~Contains(slots[c], h) /\ ~Contains(lru[c], h)
    /\ \A v \in Workers : ~HasRef(op[v], h) /\ ~Frees(op[v], h)

\* What has been cleared, what the mover is about to clear and what is in no page.
LEMMA UnusedFacts ==
  ASSUME TypeInv, NEW h \in Chunks, ChunkInv(h),
         \/ item[h].slabs_clsid = 255
         \/ \A c \in Classes : ~Owned(h, c)
         \/ moving = "DONE" /\ h = Pos /\ MoverInv
  PROVE  Unused(h)
<1>1. ~Live(h) \/ (moving = "DONE" /\ h = Pos /\ MoverInv)
  BY ClassFacts DEF Live, Owned
<1>2. CASE ~Live(h)
  <2>1. ~Linked(h) /\ \A c \in Classes : ~Contains(lru[c], h)
    BY <1>2 DEF ChunkInv, LinkedInv
  <2>2. \A v \in Workers : ~Frees(op[v], h)
    BY <1>2 DEF ChunkInv, FreedInv
  <2>3. CASE ~(moving = "DONE" /\ h = Pos /\ MoverInv)
    <3>1. \A c \in Classes : ~(Owned(h, c) /\ item[h].slabs_clsid = 0)
      BY <2>3, ClassFacts
    <3>2. \A c : Owned(h, c) => c \in Classes
      BY DEF Owned
    <3>3. \A c \in Classes : ~Contains(slots[c], h)
      BY <3>1 DEF ChunkInv, SlotInv
    <3>4. \A v \in Workers : ~HasRef(op[v], h)
      BY <1>2, <3>1, <3>2 DEF ChunkInv, HandleInv
    <3> QED
      BY <2>1, <2>2, <3>3, <3>4 DEF Unused
  <2>4. CASE moving = "DONE" /\ h = Pos /\ MoverInv
    <3>1. item[h].refcount = 1 /\ AtMover(h)
      BY <2>4 DEF MoverInv, AtMover
    <3>2. \A v \in Workers : ~HasRef(op[v], h)
      BY <3>1, CountFacts DEF ChunkInv
    <3>3. \A c \in Classes : ~Contains(slots[c], h)
      BY <3>1 DEF ChunkInv, SlotInv
    <3> QED
      BY <2>1, <2>2, <3>2, <3>3 DEF Unused
  <2> QED
    BY <2>3, <2>4
<1>3. CASE moving = "DONE" /\ h = Pos /\ MoverInv
  <2>1. item[h].refcount = 1 /\ AtMover(h) /\ \A v \in Workers : ~Frees(op[v], h)
    BY <1>3 DEF MoverInv, AtMover
  <2>2. ~Linked(h) /\ \A v \in Workers : ~HasRef(op[v], h)
    BY <2>1, CountFacts DEF ChunkInv
  <2>3. \A c \in Classes : ~Contains(slots[c], h) /\ ~Contains(lru[c], h)
    BY <2>1, <2>2 DEF ChunkInv, SlotInv, LinkedInv
  <2> QED
    BY <2>1, <2>2, <2>3 DEF Unused
<1> QED
  BY <1>1, <1>2, <1>3

\* Only the worker that has cache_lock searches.
LEMMA OneSearch ==
  ASSUME TypeInv, SearchInv, NEW w \in Workers, cache_lock \notin Workers \ {w}, NEW l
  PROVE  \A v \in Workers \ {w} : AtLinked(op[v], l)
BY DEF TypeInv, CacheInv, AtLinked

-----------------------------------------------------------------------------
(***************************************************************************)
(* A step of a worker.                                                     *)
(***************************************************************************)
\* The mover is where it was.
Still ==
    /\ slab_rebal' = slab_rebal /\ slab_rebalance_signal' = slab_rebalance_signal
    /\ moving' = moving
    /\ slab_rebalance_signal # 0 => MovingPage' = MovingPage

LEMMA StillFacts ==
  ASSUME TypeInv, Still
  PROVE  /\ \A h : AtMover(h)' <=> AtMover(h)
         /\ moving # "none" => Pos' = Pos
<1>1. moving # "none" => slab_rebalance_signal = 2
  BY DEF TypeInv, RebalInv
<1>2. moving # "none" => MovingPage' = MovingPage
  BY <1>1 DEF Still
<1>3. moving # "none" => Pos' = Pos
  BY <1>2 DEF Pos, Still
<1> QED
  BY <1>3 DEF AtMover, Still

\* A chunk that worker w leaves alone while its command becomes q.
Leaves(w, q, h) ==
    /\ item'[h] = item[h]
    /\ \A c \in Classes : /\ Contains(lru'[c], h) <=> Contains(lru[c], h)
                          /\ Contains(slots'[c], h) => Contains(slots[c], h)
    /\ Aside(op[w], q, h)

\* One that it changes: it was in use, or is of a new page.
Changes(h) ==
    /\ ~Unused(h) \/ \A c \in Classes : ~Owned(h, c)
    /\ ChunkInv(h)' /\ item'[h].slabs_clsid # 255

LEMMA WorkerFrame ==
  ASSUME TypeInv, HeapInv, NEW w \in Workers, NEW q, op' = [op EXCEPT ![w] = q], Still,
         \A h \in Chunks : Leaves(w, q, h) \/ Changes(h),
         \A h \in Chunks, c \in Classes : Owned(h, c) => Owned(h, c)',
         ListInv', Distinct(q), AtLinked(q, lru'),
         \A v \in Workers \ {w} : AtLinked(op[v], lru')
  PROVE  HeapInv'
<1>1. op'[w] = q /\ \A v \in Workers \ {w} : op'[v] = op[v]
  BY DEF TypeInv, OpInv
<1>0. PICK X : X = {h \in Chunks : ~Leaves(w, q, h)}
  OBVIOUS
<1>2. ASSUME NEW x \in X
      PROVE  item[x].slabs_clsid # 255 /\ ~(moving = "DONE" /\ x = Pos)
  <2>0. x \in Chunks /\ Changes(x)
    BY <1>0
  <2>1. ChunkInv(x) /\ MoverInv
    BY <2>0 DEF HeapInv
  <2>2. CASE ~Unused(x)
    BY <2>0, <2>1, <2>2, UnusedFacts
  <2>3. CASE \A c \in Classes : ~Owned(x, c)
    <3>1. ASSUME slab_rebalance_signal = 2, Contains(PageChunks(MovingPage, slab_rebal.s_clsid), x)
          PROVE  FALSE
      <4>1. slab_rebal.s_clsid \in Classes /\ slab_list[slab_rebal.s_clsid] \in Seq(Pages)
            /\ MovingPage \in Pages /\ Contains(slab_list[slab_rebal.s_clsid], MovingPage)
        BY <3>1, MovingFacts
      <4>2. Owned(x, slab_rebal.s_clsid)
        BY <2>0, <3>1, <4>1, ChunksInFacts DEF Owned
      <4> QED
        BY <2>3, <4>1, <4>2
    <3>2. item[x].slabs_clsid # 255
      BY <2>1, <3>1 DEF ChunkInv, ClearInv
    <3>3. moving = "DONE" => slab_rebalance_signal = 2 /\ ~slab_rebal.done
      BY DEF TypeInv, RebalInv
    <3>4. ~(moving = "DONE" /\ x = Pos)
      BY <3>1, <3>3, PosFacts
    <3> QED
      BY <3>2, <3>4
  <2> QED
    BY <2>0, <2>2, <2>3 DEF Changes
<1>3. \A h \in Chunks : ChunkInv(h)'
  <2>1. ASSUME NEW h \in Chunks, Leaves(w, q, h)
        PROVE  ChunkInv(h)'
    <3>1. ChunkInv(h)
      BY DEF HeapInv
    <3>2. item'[h] = item[h] /\ Aside(op[w], q, h)
      BY <2>1 DEF Leaves
    <3>3. \A v \in Workers : Aside(op[v], op'[v], h)
      BY <1>1, <3>2, AsideSame
    <3>4. ClearInv(h)'
      BY <3>1, <3>2 DEF ChunkInv, ClearInv, Still
    <3>5. AtMover(h)' <=> AtMover(h)
      BY StillFacts
    <3>6. /\ \A c \in Classes : Contains(lru'[c], h) <=> Contains(lru[c], h)
          /\ \A c \in Classes : Contains(slots'[c], h) => Contains(slots[c], h)
      BY <2>1 DEF Leaves
    <3>7. \A c \in Classes : Owned(h, c) => Owned(h, c)'
      OBVIOUS
    <3> QED
      BY <3>1, <3>2, <3>3, <3>4, <3>5, <3>6, <3>7, SameChunk
  <2> QED
    BY <2>1 DEF Changes
<1>4. DistinctInv'
  BY <1>1 DEF HeapInv, DistinctInv
<1>5. SearchInv'
  <2>1. \A v \in Workers : AtLinked(op'[v], lru')
    BY <1>1
  <2> QED
    BY <2>1 DEF SearchInv
<1>6. \A h \in Chunks : item[h].slabs_clsid = 255 => item'[h].slabs_clsid = 255
  <2>1. ASSUME NEW h \in Chunks, item[h].slabs_clsid = 255
        PROVE  item'[h].slabs_clsid = 255
    <3>1. h \notin X
      BY <1>2, <2>1
    <3> QED
      BY <1>0, <2>1, <3>1 DEF Leaves
  <2> QED
    BY <2>1
<1>7. MoverInv'
  <2>1. slab_rebalance_signal' = 2 /\ slab_rebal'.busy_items = 0 =>
           \A i \in 1..(slab_rebal'.pos - 1) : item'[<<MovingPage', i>>].slabs_clsid = 255
    <3>1. ASSUME slab_rebalance_signal = 2, slab_rebal.busy_items = 0,
                 NEW i \in 1..(slab_rebal.pos - 1)
          PROVE  item'[<<MovingPage, i>>].slabs_clsid = 255
      <4>1. item[<<MovingPage, i>>].slabs_clsid = 255
        BY <3>1 DEF HeapInv, MoverInv
      <4>2. /\ slab_rebal.s_clsid \in Classes /\ MovingPage \in Pages
            /\ PerSlab[slab_rebal.s_clsid] \in Nat \ {0}
        BY <3>1, MovingFacts, ClassFacts
      <4>3. slab_rebal.pos \in Nat /\ slab_rebal.pos <= PerSlab[slab_rebal.s_clsid] + 1
        BY <3>1, <4>2 DEF TypeInv, RebalInv, Cursor
      <4>4. i \in 1..PerSlab[slab_rebal.s_clsid]
        BY <4>2, <4>3
      <4>5. <<MovingPage, i>> \in Chunks
        BY <4>2, <4>4, PageChunk
      <4> QED
        BY <1>6, <4>1, <4>5
    <3> QED
      BY <3>1 DEF Still
  <2>2. ASSUME moving # "none"
        PROVE  item'[Pos].slabs_clsid # 255
               /\ (moving = "DONE" => item'[Pos].refcount = 1 /\ \A v \in Workers : ~Frees(op'[v], Pos))
    <3>1. Pos \in Chunks
      BY <2>2, PosFacts DEF TypeInv, RebalInv
    <3>2. PICK p \in Chunks : p = Pos
      BY <3>1
    <3>3. /\ item[p].slabs_clsid # 255
          /\ moving = "DONE" => item[p].refcount = 1 /\ \A v \in Workers : ~Frees(op[v], p)
      BY <2>2, <3>2 DEF HeapInv, MoverInv
    <3>4. CASE p \in X
      <4>1. item'[p].slabs_clsid # 255
        BY <1>0, <3>4 DEF Changes
      <4> QED
        BY <1>2, <2>2, <3>2, <3>4, <4>1
    <3>5. CASE p \notin X
      <4>1. item'[p] = item[p] /\ Aside(op[w], q, p)
        BY <1>0, <3>5 DEF Leaves
      <4>2. (\A v \in Workers : ~Frees(op[v], p)) => \A v \in Workers : ~Frees(op'[v], p)
        BY <1>1, <4>1 DEF Aside
      <4> QED
        BY <3>2, <3>3, <4>1, <4>2
    <3> QED
      BY <3>4, <3>5
  <2>3. moving' # "none" => /\ item'[Pos'].slabs_clsid # 255
                            /\ moving' = "DONE" => item'[Pos'].refcount = 1
                                                   /\ \A v \in Workers : ~Frees(op'[v], Pos')
    BY <2>2, StillFacts DEF Still
  <2> QED
    BY <2>1, <2>3 DEF MoverInv, Frees
<1> QED
  BY <1>3, <1>4, <1>5, <1>7 DEF HeapInv

-----------------------------------------------------------------------------
(***************************************************************************)
(* Steps of a worker that leave the memory alone.                          *)
(***************************************************************************)
LEMMA NoneFacts ==
  None \notin Chunks /\ None \notin Keys /\ None \notin Workers
BY SlabMoverAssumption

\* The command goes on with what it had in hand.
LEMMA AsideAt ==
  ASSUME NEW o \in Command, NEW q \in Command,
         q.it = o.it, q.old = o.old, q.new = o.new, q.cls = o.cls, q.do = o.do, q.free = o.free,
         q.at = "init" <=> o.at = "init",
         o.at \in {"drop", "remove", "removing"} =>
            q.at \in {"drop", "remove", "removing"} \/ ~Stores(q)
  PROVE  (\A h : Aside(o, q, h)) /\ (Distinct(o) => Distinct(q)) /\ o # Idle /\ q # Idle
<1>1. o # Idle /\ q # Idle
  BY DEF Command, Idle
<1>2. \A h : Aside(o, q, h)
  <2>1. ASSUME NEW h
        PROVE  Aside(o, q, h)
    <3>1. (HasRef(q, h) <=> HasRef(o, h)) /\ (IsRaw(q, h) <=> IsRaw(o, h))
          /\ (Frees(q, h) <=> Frees(o, h))
      BY <1>1 DEF HasRef, IsRaw, Frees
    <3>2. IsNew(q, h) => IsNew(o, h)
      BY <1>1 DEF IsNew, Stores
    <3> QED
      BY <3>1, <3>2 DEF Aside
  <2> QED
    BY <2>1
<1> QED
  BY <1>1, <1>2 DEF Distinct

\* A command with nothing in hand begins or ends.
LEMMA AsideEmpty ==
  ASSUME NEW o, NEW q,
         o # Idle => o.it = None /\ o.old = None /\ o.new = None /\ o.free = None,
         q # Idle => q.it = None /\ q.old = None /\ q.new = None /\ q.free = None
  PROVE  (\A h \in Chunks : Aside(o, q, h)) /\ Distinct(q)
BY NoneFacts DEF Aside, HasRef, IsNew, IsRaw, Frees, Distinct

LEMMA QuietHeap ==
  ASSUME TypeInv, HeapInv, NEW w \in Workers, NEW q, op' = [op EXCEPT ![w] = q],
         UNCHANGED memvars, UNCHANGED movevars,
         \A h \in Chunks : Aside(op[w], q, h), Distinct(q), AtLinked(q, lru)
  PROVE  HeapInv'
<1>1. item' = item /\ slots' = slots /\ slab_list' = slab_list /\ lru' = lru
  BY DEF memvars
<1>2. Still
  <2>1. slab_rebal' = slab_rebal /\ slab_rebalance_signal' = slab_rebalance_signal
        /\ moving' = moving
    BY DEF movevars
  <2> QED
    BY <1>1, <2>1 DEF Still, MovingPage
<1>4. \A h \in Chunks : Leaves(w, q, h) \/ Changes(h)
  BY <1>1 DEF Leaves
<1>5. \A h \in Chunks, c \in Classes : Owned(h, c) => Owned(h, c)'
  BY <1>1 DEF Owned
<1>6. ListInv' /\ AtLinked(q, lru') /\ \A v \in Workers \ {w} : AtLinked(op[v], lru')
  BY <1>1 DEF HeapInv, ListInv, SearchInv
<1> QED
  BY <1>2, <1>4, <1>5, <1>6, WorkerFrame

LEMMA BeginHeap ==
  ASSUME TypeInv, HeapInv, NEW w \in Workers, NEW do \in {"set", "append", "get", "delete"},
         NEW k \in Keys, NEW c \in UsedClasses, Begin(w, do, k, c)
  PROVE  HeapInv'
<1>1. PICK o : o = [do |-> do, key |-> k, cls |-> c,
                    at |-> IF do \in {"set", "append"} THEN "alloc" ELSE "lock",
                    it |-> None, old |-> None, new |-> None, free |-> None,
                    search |-> None, tries |-> 0, hold |-> None]
  OBVIOUS
<1>2. op' = [op EXCEPT ![w] = o] /\ op[w] = Idle
  BY <1>1 DEF Begin
<1>3. o.it = None /\ o.old = None /\ o.new = None /\ o.free = None /\ o.search = None
  BY <1>1
<1>4. (\A h \in Chunks : Aside(op[w], o, h)) /\ Distinct(o) /\ AtLinked(o, lru)
  BY <1>2, <1>3, AsideEmpty DEF AtLinked
<1> QED
  BY <1>2, <1>4, QuietHeap DEF Begin

LEMMA AllocStartHeap ==
  ASSUME TypeInv, HeapInv, NEW w \in Workers, AllocStart(w)
  PROVE  HeapInv'
<1>1. op[w] \in Command /\ op[w] # Idle /\ op[w].at = "alloc"
  BY AtFacts DEF AllocStart, At
<1>2. PICK list : list = lru[op[w].cls]
  OBVIOUS
<1>3. PICK h \in MaybeChunk : h = IF list = <<>> THEN None ELSE Last(list)
  <2>1. list \in Seq(Chunks)
    BY <1>1, <1>2 DEF Command, TypeInv, MemoryInv
  <2> QED
    BY <2>1 DEF Last, MaybeChunk
<1>4. PICK o : o = [op[w] EXCEPT !.at = "search", !.tries = MaxTries, !.search = h]
  OBVIOUS
<1>5. op' = [op EXCEPT ![w] = o]
  BY <1>1, <1>2, <1>3, <1>4 DEF AllocStart, TypeInv, OpInv
<1>6. o \in Command
  BY <1>1, <1>4, SlabMoverAssumption DEF Command, Places
<1>7. /\ o.it = op[w].it /\ o.old = op[w].old /\ o.new = op[w].new /\ o.cls = op[w].cls
      /\ o.do = op[w].do /\ o.free = op[w].free /\ o.at = "search" /\ o.search = h
  BY <1>1, <1>4 DEF Command
<1>8. AtLinked(o, lru)
  <2>1. ASSUME h # None
        PROVE  Contains(list, h)
    <3>1. list \in Seq(Chunks) /\ list # <<>> /\ h = list[Len(list)]
      BY <1>1, <1>2, <1>3, <2>1 DEF Command, TypeInv, MemoryInv, Last
    <3>2. Len(list) \in 1..Len(list)
      BY <3>1
    <3> QED
      BY <3>1, <3>2 DEF Contains
  <2> QED
    BY <1>2, <1>7, <2>1 DEF AtLinked
<1>9. Distinct(op[w])
  BY DEF HeapInv, DistinctInv
<1>10. (\A g : Aside(op[w], o, g)) /\ Distinct(o)
  BY <1>1, <1>6, <1>7, <1>9, AsideAt
<1>11. UNCHANGED memvars /\ UNCHANGED movevars
  BY DEF AllocStart
<1> QED
  BY <1>5, <1>8, <1>10, <1>11, QuietHeap

\* A search that goes on from a linked item comes to a linked item.
LEMMA SearchOnHeap ==
  ASSUME TypeInv, HeapInv, NEW w \in Workers, Searching(w), NEW hold \in Keys \cup {None},
         SearchOn(w, hold), cache_lock' = cache_lock, UNCHANGED memvars, UNCHANGED movevars,
         item_locks' \in [Keys -> Workers \cup {None}], raced' \subseteq {"unlock", "unlink", "lists"}
  PROVE  HeapInv'
<1>1. op[w] \in Command /\ op[w] # Idle /\ op[w].at = "search" /\ op[w].search # None
      /\ op[w].tries > 0
  BY AtFacts DEF Searching, At
<1>2. PICK p \in Prevs(w) :
         op' = [op EXCEPT ![w] = [op[w] EXCEPT !.search = p, !.tries = op[w].tries - 1,
                                               !.hold = hold]]
  BY SearchOnTypes DEF movevars
<1>3. PICK o : o = [op[w] EXCEPT !.search = p, !.tries = op[w].tries - 1, !.hold = hold]
  OBVIOUS
<1>4. o \in Command
  <2>1. op[w].tries - 1 \in Nat
    BY <1>1 DEF Command
  <2>2. p \in MaybeChunk
    BY PrevsFacts
  <2> QED
    BY <1>1, <1>3, <2>1, <2>2 DEF Command
<1>5. /\ o.it = op[w].it /\ o.old = op[w].old /\ o.new = op[w].new /\ o.cls = op[w].cls
      /\ o.do = op[w].do /\ o.free = op[w].free /\ o.at = "search" /\ o.search = p
  BY <1>1, <1>3 DEF Command
<1>6. AtLinked(o, lru)
  <2>1. PICK list, h : list = lru[op[w].cls] /\ h = op[w].search
    OBVIOUS
  <2>2. list \in Seq(Chunks) /\ Contains(list, h)
    BY <1>1, <2>1 DEF Command, TypeInv, MemoryInv, HeapInv, SearchInv, AtLinked
  <2>3. PICK i \in 1..Len(list) : i = SelectInSeq(list, LAMBDA g : g = h) /\ list[i] = h
    BY <2>2, SelectFacts
  <2>4. CASE h = Head(list)
    <3>1. p = None
      BY <2>1, <2>2, <2>4 DEF Prevs
    <3> QED
      BY <1>5, <3>1 DEF AtLinked
  <2>5. CASE h # Head(list)
    <3>1. i # 1
      BY <2>2, <2>3, <2>5
    <3>2. i - 1 \in 1..Len(list)
      BY <2>2, <3>1
    <3>3. Prevs(w) = {list[i - 1]}
      BY <2>1, <2>2, <2>3, <2>5 DEF Prevs
    <3>4. p = list[i - 1]
      BY <3>3
    <3>5. Contains(list, p)
      BY <2>2, <3>2, <3>4 DEF Contains
    <3> QED
      BY <1>5, <2>1, <3>5 DEF AtLinked
  <2> QED
    BY <2>4, <2>5
<1>7. Distinct(op[w])
  BY DEF HeapInv, DistinctInv
<1>8. (\A g : Aside(op[w], o, g)) /\ Distinct(o)
  BY <1>1, <1>4, <1>5, <1>7, AsideAt
<1> QED
  BY <1>2, <1>3, <1>6, <1>8, QuietHeap

\* The command goes on at another place that is not the search.
LEMMA GoOnHeap ==
  ASSUME TypeInv, HeapInv, NEW w \in Workers, op[w] # Idle, NEW at \in Places,
         op' = [op EXCEPT ![w] = [op[w] EXCEPT !.at = at]],
         at \notin {"search", "init"}, op[w].at # "init",
         op[w].at \in {"drop", "remove", "removing"} =>
            at \in {"drop", "remove", "removing"},
         UNCHANGED memvars, UNCHANGED movevars
  PROVE  HeapInv'
<1>1. op[w] \in Command
  BY AtFacts
<1>2. PICK o : o = [op[w] EXCEPT !.at = at]
  OBVIOUS
<1>3. o \in Command
  BY <1>1, <1>2 DEF Command
<1>4. /\ o.it = op[w].it /\ o.old = op[w].old /\ o.new = op[w].new /\ o.cls = op[w].cls
      /\ o.do = op[w].do /\ o.free = op[w].free /\ o.at = at
  BY <1>1, <1>2 DEF Command
<1>5. Distinct(op[w])
  BY DEF HeapInv, DistinctInv
<1>6. (\A g : Aside(op[w], o, g)) /\ Distinct(o)
  BY <1>1, <1>3, <1>4, <1>5, AsideAt
<1>7. AtLinked(o, lru)
  BY <1>4 DEF AtLinked
<1> QED
  BY <1>2, <1>6, <1>7, QuietHeap

\* The command ends with nothing in hand.
LEMMA EndHeap ==
  ASSUME TypeInv, HeapInv, NEW w \in Workers, op' = [op EXCEPT ![w] = Idle],
         op[w].it = None, op[w].old = None, op[w].new = None, op[w].free = None,
         UNCHANGED memvars, UNCHANGED movevars
  PROVE  HeapInv'
<1>1. (\A h \in Chunks : Aside(op[w], Idle, h)) /\ Distinct(Idle)
  BY AsideEmpty
<1>2. AtLinked(Idle, lru)
  BY DEF AtLinked
<1> QED
  BY <1>1, <1>2, QuietHeap

LEMMA SkipLockedHeap ==
  ASSUME TypeInv, HeapInv, NEW w \in Workers, SkipLocked(w)
  PROVE  HeapInv'
<1>1. Searching(w) /\ SearchOn(w, None) /\ cache_lock' = cache_lock /\ None \in Keys \cup {None}
      /\ item_locks' = item_locks /\ raced' = raced /\ UNCHANGED memvars /\ UNCHANGED movevars
  BY DEF SkipLocked
<1>2. item_locks' \in [Keys -> Workers \cup {None}] /\ raced' \subseteq {"unlock", "unlink", "lists"}
  BY <1>1, LocksKept
<1> QED
  BY <1>1, <1>2, SearchOnHeap

LEMMA SkipBusyHeap ==
  ASSUME TypeInv, HeapInv, NEW w \in Workers, SkipBusy(w)
  PROVE  HeapInv'
<1>1. PICK hold : hold = HoldLock(w)
  OBVIOUS
<1>2. Searching(w) /\ SearchOn(w, hold) /\ cache_lock' = cache_lock /\ UnlockHold(w)
      /\ UNCHANGED memvars /\ UNCHANGED movevars
  BY <1>1 DEF SkipBusy
<1>3. hold \in Keys \cup {None}
  BY <1>1, <1>2, PrevsFacts
<1>4. item_locks' \in [Keys -> Workers \cup {None}] /\ raced' \subseteq {"unlock", "unlink", "lists"}
  BY <1>2, UnlockHoldTypes
<1> QED
  BY <1>2, <1>3, <1>4, SearchOnHeap

LEMMA ClientGoesOnHeap ==
  ASSUME TypeInv, HeapInv, NEW w \in Workers, ClientGoesOn(w)
  PROVE  HeapInv'
<1>1. PICK next \in {"store", "remove"} :
         /\ At(w, "reading") \/ (At(w, "writing") /\ next = "remove")
         /\ op' = [op EXCEPT ![w].at = next]
  BY DEF ClientGoesOn
<1>2. op[w] # Idle /\ op[w].at \in {"reading", "writing"} /\ next \in Places
      /\ next \notin {"search", "init"}
  BY <1>1 DEF At, Places
<1>3. op' = [op EXCEPT ![w] = [op[w] EXCEPT !.at = next]]
  BY <1>1 DEF TypeInv, OpInv
<1>4. UNCHANGED memvars /\ UNCHANGED movevars
  BY DEF ClientGoesOn
<1> QED
  BY <1>2, <1>3, <1>4, GoOnHeap

LEMMA ItemLockHeap ==
  ASSUME TypeInv, HeapInv, NEW w \in Workers, ItemLock(w)
  PROVE  HeapInv'
<1>1. op[w] # Idle /\ op[w].at \in {"lock", "store", "remove"}
  BY DEF ItemLock, At
<1>2. PICK at : at = IF op[w].at = "remove" THEN "removing" ELSE "get"
  OBVIOUS
<1>3. at \in Places /\ at \notin {"search", "init"}
      /\ (op[w].at \in {"drop", "remove", "removing"} => at \in {"drop", "remove", "removing"})
  BY <1>1, <1>2 DEF Places
<1>4. op' = [op EXCEPT ![w] = [op[w] EXCEPT !.at = at]]
  BY <1>2 DEF ItemLock, TypeInv, OpInv
<1>5. UNCHANGED memvars /\ UNCHANGED movevars
  BY DEF ItemLock
<1> QED
  BY <1>1, <1>3, <1>4, <1>5, GoOnHeap

LEMMA UnlockHeap ==
  ASSUME TypeInv, HeapInv, NEW w \in Workers, Unlock(w)
  PROVE  HeapInv'
<1>1. op[w] # Idle /\ op[w].at = "unlock" /\ op[w].free = None /\ op' = [op EXCEPT ![w] = Idle]
      /\ UNCHANGED memvars /\ UNCHANGED movevars
  BY DEF Unlock, At
<1>2. op[w].it = None /\ op[w].old = None /\ op[w].new = None
  BY <1>1, AtFacts DEF Shape
<1> QED
  BY <1>1, <1>2, EndHeap

-----------------------------------------------------------------------------
(***************************************************************************)
(* Steps of a worker that change one chunk.                                *)
(***************************************************************************)
LEMMA StillHere ==
  ASSUME TypeInv, slab_list' = slab_list, UNCHANGED movevars
  PROVE  /\ Still
         /\ \A h \in Chunks, c \in Classes : Owned(h, c) => Owned(h, c)'
         /\ \A h : AtMover(h)' <=> AtMover(h)
<1>1. slab_rebal' = slab_rebal /\ slab_rebalance_signal' = slab_rebalance_signal
      /\ moving' = moving
  BY DEF movevars
<1>2. Still
  BY <1>1 DEF Still, MovingPage
<1>3. \A h \in Chunks, c \in Classes : Owned(h, c) => Owned(h, c)'
  BY DEF Owned
<1> QED
  BY <1>2, <1>3, StillFacts

\* The hands the chunk is in afterwards.
Hands(w, q, h) ==
    /\ \A v \in Workers \ {w} : ~IsNew(op[v], h) /\ ~Frees(op[v], h)
    /\ Alone(w, h) \/ (Live(h) /\ Live(h)')
    /\ HasRef(q, h) => IF IsRaw(q, h) THEN Owned(h, q.cls)' /\ item'[h].slabs_clsid = 0
                       ELSE Live(h)'
    /\ IsNew(q, h) => /\ Alone(w, h) /\ ~Linked(h)'
                      /\ ~IsRaw(q, h) => item'[h].slabs_clsid = q.cls
    /\ Frees(q, h) => Live(h)' /\ ~Linked(h)' /\ Alone(w, h) /\ ~HasRef(q, h)

\* The count goes with the link and the worker's reference.
Counted(w, q, h) ==
    /\ item[h].refcount \in Int /\ item'[h].refcount \in Int
    /\ item'[h].refcount - One(Linked(h)') - One(HasRef(q, h))
       = item[h].refcount - One(Linked(h)) - One(HasRef(op[w], h))

LEMMA HandsChunk ==
  ASSUME TypeInv, NEW w \in Workers, NEW q, op' = [op EXCEPT ![w] = q],
         NEW h \in Chunks, ChunkInv(h), AtMover(h)' <=> AtMover(h),
         Hands(w, q, h), Counted(w, q, h),
         LinkedInv(h)', SlotInv(h)', item'[h].slabs_clsid # 255
  PROVE  ChunkInv(h)'
<1>1. PICK n \in Int, m \in Int : n = item[h].refcount /\ m = item'[h].refcount
  BY DEF Counted
<1>2. m - One(Linked(h)') - One(HasRef(q, h)) = n - One(Linked(h)) - One(HasRef(op[w], h))
  BY <1>1 DEF Counted
<1>3. /\ \A v \in Workers \ {w} : ~IsNew(op[v], h) /\ ~Frees(op[v], h)
      /\ Alone(w, h) \/ (Live(h) /\ Live(h)')
  BY DEF Hands
<1>4. HasRef(q, h) => IF IsRaw(q, h) THEN Owned(h, q.cls)' /\ item'[h].slabs_clsid = 0
                      ELSE Live(h)'
  BY DEF Hands
<1>5. IsNew(q, h) => /\ Alone(w, h) /\ ~Linked(h)'
                     /\ ~IsRaw(q, h) => item'[h].slabs_clsid = q.cls
  BY DEF Hands
<1>6. Frees(q, h) => Live(h)' /\ ~Linked(h)' /\ Alone(w, h) /\ ~HasRef(q, h)
  BY DEF Hands
<1> QED
  BY <1>1, <1>2, <1>3, <1>4, <1>5, <1>6, TouchedChunk

LEMMA OneChunk ==
  ASSUME TypeInv, HeapInv, NEW w \in Workers, NEW q, op' = [op EXCEPT ![w] = q],
         slab_list' = slab_list, UNCHANGED movevars,
         NEW h \in Chunks, Hands(w, q, h), Counted(w, q, h),
         LinkedInv(h)', SlotInv(h)', item'[h].slabs_clsid # 255, ~Unused(h),
         \A g \in Chunks \ {h} : Leaves(w, q, g),
         ListInv', Distinct(q), AtLinked(q, lru'),
         \A v \in Workers \ {w} : AtLinked(op[v], lru')
  PROVE  HeapInv'
<1>1. /\ Still /\ (AtMover(h)' <=> AtMover(h))
      /\ \A g \in Chunks, c \in Classes : Owned(g, c) => Owned(g, c)'
  BY StillHere
<1>2. ChunkInv(h)
  BY DEF HeapInv
<1>3. ChunkInv(h)'
  BY <1>1, <1>2, HandsChunk
<1>4. \A g \in Chunks : Leaves(w, q, g) \/ Changes(g)
  BY <1>3 DEF Changes
<1> QED
  BY <1>1, <1>4, WorkerFrame

\* What a worker has in hand is an item of nobody's own but its.
LEMMA HeldFacts ==
  ASSUME TypeInv, NEW h \in Chunks, ChunkInv(h), NEW w \in Workers, HasRef(op[w], h)
  PROVE  /\ ~Unused(h) /\ item[h].refcount >= 1 /\ item[h].refcount \in Nat
         /\ ~IsRaw(op[w], h) => Live(h)
         /\ \A v \in Workers \ {w} : ~IsNew(op[v], h)
         /\ \A v \in Workers : ~Frees(op[v], h)
         /\ \A c \in Classes : ~Contains(slots[c], h)
<1>1. item[h].refcount >= 1 /\ item[h].refcount \in Nat
  BY CountFacts DEF ChunkInv
<1>2. ~IsRaw(op[w], h) => Live(h)
  BY DEF ChunkInv, HandleInv
<1>3. \A v \in Workers \ {w} : ~IsNew(op[v], h)
  BY DEF ChunkInv, NewInv
<1>4. \A v \in Workers : ~Frees(op[v], h)
  BY DEF ChunkInv, FreedInv
<1>5. item[h].refcount # 0
  BY <1>1
<1>6. \A c \in Classes : ~Contains(slots[c], h)
  BY <1>5 DEF ChunkInv, SlotInv
<1>7. ~Unused(h)
  BY DEF Unused
<1> QED
  BY <1>1, <1>2, <1>3, <1>4, <1>6, <1>7

\* A linked item is no worker's own.
LEMMA LinkedFacts ==
  ASSUME TypeInv, NEW h \in Chunks, ChunkInv(h), Linked(h)
  PROVE  /\ ~Unused(h) /\ item[h].refcount \in Nat /\ Live(h)
         /\ \A v \in Workers : ~IsNew(op[v], h) /\ ~Frees(op[v], h)
         /\ \A c \in Classes : ~Contains(slots[c], h)
<1>1. item[h].refcount # 0 /\ item[h].refcount \in Nat
  BY CountFacts DEF ChunkInv
<1>2. Live(h)
  BY DEF ChunkInv, LinkedInv
<1>3. \A v \in Workers : ~IsNew(op[v], h) /\ ~Frees(op[v], h)
  BY DEF ChunkInv, NewInv, FreedInv
<1>4. \A c \in Classes : ~Contains(slots[c], h)
  BY <1>1 DEF ChunkInv, SlotInv
<1>5. ~Unused(h)
  BY DEF Unused
<1> QED
  BY <1>1, <1>2, <1>3, <1>4, <1>5

LEMMA LiveKept ==
  ASSUME NEW h, Live(h), slab_list' = slab_list,
         item'[h].slabs_clsid = item[h].slabs_clsid,
         "SLABBED" \in item'[h].flags => "SLABBED" \in item[h].flags
  PROVE  Live(h)' /\ item'[h].slabs_clsid \in Classes /\ item'[h].slabs_clsid # 255
<1>1. PICK c : c = item[h].slabs_clsid
  OBVIOUS
<1>2. c \in Classes /\ h \in ChunksIn(slab_list[c], c)
  BY <1>1 DEF Live, Owned
<1>3. Live(h)'
  BY <1>1, <1>2 DEF Live, Owned
<1> QED
  BY <1>1, <1>2, <1>3, ClassFacts

\* A reference to a live item is taken or given back.
LEMMA RefHeap ==
  ASSUME TypeInv, HeapInv, NEW w \in Workers, NEW q, op' = [op EXCEPT ![w] = q],
         NEW h \in Chunks, NEW n \in Int, item' = [item EXCEPT ![h].refcount = n],
         slots' = slots, slab_list' = slab_list, lru' = lru, UNCHANGED movevars,
         Live(h), ~Unused(h), item[h].refcount \in Nat,
         \A v \in Workers \ {w} : ~IsNew(op[v], h) /\ ~Frees(op[v], h),
         \A c \in Classes : ~Contains(slots[c], h),
         ~IsRaw(q, h), ~IsNew(q, h),
         Frees(q, h) => ~Linked(h) /\ Alone(w, h) /\ ~HasRef(q, h),
         n - One(HasRef(q, h)) = item[h].refcount - One(HasRef(op[w], h)),
         \A g \in Chunks \ {h} : Aside(op[w], q, g),
         Distinct(q), AtLinked(q, lru)
  PROVE  HeapInv'
<1>1. PICK i : i = item[h]
  OBVIOUS
<1>2. i \in Item /\ item'[h] = [i EXCEPT !.refcount = n]
      /\ \A g \in Chunks \ {h} : item'[g] = item[g]
  BY <1>1, RefSet DEF TypeInv, MemoryInv
<1>3. /\ item'[h].flags = item[h].flags /\ item'[h].slabs_clsid = item[h].slabs_clsid
      /\ item'[h].refcount = n
  BY <1>1, <1>2 DEF Item
<1>4. Live(h)' /\ item'[h].slabs_clsid # 255
  BY <1>3, LiveKept
<1>5. Linked(h)' <=> Linked(h)
  BY <1>3 DEF Linked
<1>6. Hands(w, q, h)
  BY <1>4, <1>5 DEF Hands
<1>7. Counted(w, q, h)
  <2>1. PICK a, b, c, d : a = One(Linked(h)) /\ b = One(HasRef(q, h)) /\ c = One(HasRef(op[w], h))
                          /\ d = item[h].refcount
    OBVIOUS
  <2>2. a \in Int /\ b \in Int /\ c \in Int /\ d \in Int /\ One(Linked(h)') = a
    BY <1>5, <2>1 DEF One
  <2>3. n - b = d - c
    BY <2>1
  <2>4. n - a - b = d - a - c
    BY <2>2, <2>3
  <2> QED
    BY <1>3, <2>1, <2>2, <2>4 DEF Counted
<1>8. LinkedInv(h)'
  <2>1. LinkedInv(h)
    BY DEF HeapInv, ChunkInv
  <2> QED
    BY <1>3, <1>4, <1>5, <2>1 DEF LinkedInv
<1>9. SlotInv(h)'
  BY DEF SlotInv
<1>10. \A g \in Chunks \ {h} : Leaves(w, q, g)
  BY <1>2 DEF Leaves
<1>11. ListInv' /\ AtLinked(q, lru') /\ \A v \in Workers \ {w} : AtLinked(op[v], lru')
  BY DEF HeapInv, ListInv, SearchInv
<1> QED
  BY <1>4, <1>6, <1>7, <1>8, <1>9, <1>10, <1>11, OneChunk

\* A linked item is unlinked by a worker, whose reference to it stays as it was.
LEMMA UnlinkHeap ==
  ASSUME TypeInv, HeapInv, NEW w \in Workers, NEW q, op' = [op EXCEPT ![w] = q],
         NEW h \in Chunks, Linked(h), Unlinked(h),
         slots' = slots, slab_list' = slab_list, UNCHANGED movevars,
         cache_lock \notin Workers \ {w},
         HasRef(q, h) <=> HasRef(op[w], h), ~IsRaw(q, h), ~IsNew(q, h),
         Frees(q, h) => Alone(w, h) /\ ~HasRef(q, h),
         \A g \in Chunks \ {h} : Aside(op[w], q, g),
         Distinct(q), \A l : AtLinked(q, l)
  PROVE  HeapInv'
<1>1. /\ item' = [item EXCEPT ![h].flags = @ \ {"LINKED"}, ![h].refcount = @ - 1]
      /\ lru' = [c \in Classes |-> RemoveFirst(lru[c], h)]
  BY DEF Unlinked
<1>2. ChunkInv(h) /\ ListInv /\ SearchInv
  BY DEF HeapInv
<1>3. /\ ~Unused(h) /\ item[h].refcount \in Nat /\ Live(h)
      /\ \A v \in Workers : ~IsNew(op[v], h) /\ ~Frees(op[v], h)
      /\ \A c \in Classes : ~Contains(slots[c], h)
  BY <1>2, LinkedFacts
<1>4. PICK n \in Int : n = item[h].refcount - 1
  BY <1>3
<1>5. PICK i : i = item'[h]
  OBVIOUS
<1>6. /\ i.refcount = n /\ i.slabs_clsid = item[h].slabs_clsid
      /\ i.flags = item[h].flags \ {"LINKED"}
  BY <1>4, <1>5, UnlinkedItem
<1>8. item'[h] = i /\ \A g \in Chunks \ {h} : item'[g] = item[g]
  BY <1>5, UnlinkedItem
<1>9. Live(h)' /\ item'[h].slabs_clsid # 255
  BY <1>3, <1>6, <1>8, LiveKept
<1>10. ~Linked(h)'
  BY <1>6, <1>8 DEF Linked
<1>11. \A c \in Classes : /\ IsInjective(lru'[c])
                          /\ \A g : Contains(lru'[c], g) <=> Contains(lru[c], g) /\ g # h
  BY <1>1, <1>2, OffLists
<1>12. Hands(w, q, h)
  BY <1>3, <1>9, <1>10 DEF Hands
<1>13. Counted(w, q, h)
  <2>1. PICK b, d : b = One(HasRef(q, h)) /\ d = item[h].refcount
    OBVIOUS
  <2>2. b \in Int /\ d \in Int /\ One(HasRef(op[w], h)) = b /\ One(Linked(h)) = 1
        /\ One(Linked(h)') = 0
    BY <1>3, <1>10, <2>1 DEF One
  <2>3. n = d - 1
    BY <1>4, <2>1
  <2>4. n - 0 - b = d - 1 - b
    BY <2>2, <2>3
  <2> QED
    BY <1>6, <1>8, <2>1, <2>2, <2>4 DEF Counted
<1>14. LinkedInv(h)'
  BY <1>10, <1>11 DEF LinkedInv
<1>15. SlotInv(h)'
  BY <1>3 DEF SlotInv
<1>16. \A g \in Chunks \ {h} : Leaves(w, q, g)
  BY <1>8, <1>11 DEF Leaves
<1>17. ListInv'
  BY <1>2, <1>11 DEF ListInv
<1>18. \A v \in Workers \ {w} : AtLinked(op[v], lru')
  BY <1>2, OneSearch
<1>19. AtLinked(q, lru')
  OBVIOUS
<1> QED
  BY <1>3, <1>9, <1>12, <1>13, <1>14, <1>15, <1>16, <1>17, <1>18, <1>19, OneChunk

\* A worker gives back its reference, and frees the item if that was the last.
LEMMA ReleaseHeap ==
  ASSUME TypeInv, HeapInv, NEW w \in Workers, NEW q, op' = [op EXCEPT ![w] = q],
         NEW h \in Chunks, HasRef(op[w], h), ~IsRaw(op[w], h),
         item' = [item EXCEPT ![h].refcount = item[h].refcount - 1],
         slots' = slots, slab_list' = slab_list, lru' = lru, UNCHANGED movevars,
         ~HasRef(q, h), Frees(q, h) => item[h].refcount = 1,
         \A g \in Chunks \ {h} : Aside(op[w], q, g),
         Distinct(q), AtLinked(q, lru)
  PROVE  HeapInv'
<1>1. ChunkInv(h)
  BY DEF HeapInv
<1>2. /\ ~Unused(h) /\ item[h].refcount >= 1 /\ item[h].refcount \in Nat /\ Live(h)
      /\ \A v \in Workers \ {w} : ~IsNew(op[v], h) /\ ~Frees(op[v], h)
      /\ \A c \in Classes : ~Contains(slots[c], h)
  BY <1>1, HeldFacts
<1>3. PICK n \in Int : n = item[h].refcount - 1
  BY <1>2
<1>4. item' = [item EXCEPT ![h].refcount = n]
  BY <1>3
<1>5. ~IsRaw(q, h) /\ ~IsNew(q, h)
  BY NoneFacts DEF IsRaw, IsNew, HasRef
<1>6. Frees(q, h) => ~Linked(h) /\ Alone(w, h) /\ ~HasRef(q, h)
  <2>1. ASSUME item[h].refcount = 1
        PROVE  ~Linked(h) /\ \A v \in Workers \ {w} : ~HasRef(op[v], h)
    BY <1>1, <2>1, CountFacts DEF ChunkInv
  <2> QED
    BY <2>1 DEF Alone
<1>7. n - One(HasRef(q, h)) = item[h].refcount - One(HasRef(op[w], h))
  BY <1>2, <1>3 DEF One
<1> QED
  BY <1>2, <1>4, <1>5, <1>6, <1>7, RefHeap

LEMMA DropHeap ==
  ASSUME TypeInv, HeapInv, NEW w \in Workers, Drop(w)
  PROVE  HeapInv'
<1>1. op[w] \in Command /\ op[w] # Idle /\ op[w].at = "drop" /\ op[w].free = None
  BY AtFacts DEF Drop, At
<1>2. slots' = slots /\ slab_list' = slab_list /\ lru' = lru /\ UNCHANGED movevars
  BY DEF Drop
<1>3. PICK q \in Command : op' = [op EXCEPT ![w] = q] /\ q # Idle /\ q.at # "search" /\ DropTo(w, q)
  BY DropFacts
<1>4. AtLinked(q, lru)
  BY <1>3 DEF AtLinked
<1>5. Distinct(op[w])
  BY DEF HeapInv, DistinctInv
<1>6. ASSUME NEW h \in Chunks, h = op[w].old,
             item' = [item EXCEPT ![h].refcount = item[h].refcount - 1],
             q = [op[w] EXCEPT !.old = None, !.free = Dropped(h)]
      PROVE  HeapInv'
  <2>1. /\ q.it = op[w].it /\ q.old = None /\ q.new = op[w].new /\ q.cls = op[w].cls
        /\ q.do = op[w].do /\ q.free = Dropped(h) /\ q.at = "drop"
    BY <1>1, <1>6 DEF Command
  <2>2. HasRef(op[w], h) /\ ~IsRaw(op[w], h)
    BY <1>1, <1>6 DEF HasRef, IsRaw
  <2>3. ~HasRef(q, h) /\ Distinct(q)
    BY <1>1, <1>3, <1>5, <1>6, <2>1, NoneFacts DEF HasRef, Distinct
  <2>4. Frees(q, h) => item[h].refcount = 1
    BY <2>1, NoneFacts DEF Frees, Dropped
  <2>5. \A g \in Chunks \ {h} : Aside(op[w], q, g)
    BY <1>1, <1>3, <1>6, <2>1, NoneFacts DEF Aside, HasRef, IsNew, IsRaw, Frees, Dropped
  <2> QED
    BY <1>2, <1>3, <1>4, <1>6, <2>2, <2>3, <2>4, <2>5, ReleaseHeap
<1>7. ASSUME NEW h \in Chunks, h = op[w].new,
             item' = [item EXCEPT ![h].refcount = item[h].refcount - 1],
             q = [op[w] EXCEPT !.new = None, !.free = Dropped(h)], op[w].old = None
      PROVE  HeapInv'
  <2>1. /\ q.it = op[w].it /\ q.old = None /\ q.new = None /\ q.cls = op[w].cls
        /\ q.do = op[w].do /\ q.free = Dropped(h) /\ q.at = "drop"
    BY <1>1, <1>7 DEF Command
  <2>2. HasRef(op[w], h) /\ ~IsRaw(op[w], h)
    BY <1>1, <1>7 DEF HasRef, IsRaw
  <2>3. ~HasRef(q, h) /\ Distinct(q)
    BY <1>1, <1>3, <1>5, <1>7, <2>1, NoneFacts DEF HasRef, Distinct
  <2>4. Frees(q, h) => item[h].refcount = 1
    BY <2>1, NoneFacts DEF Frees, Dropped
  <2>5. \A g \in Chunks \ {h} : Aside(op[w], q, g)
    BY <1>1, <1>3, <1>7, <2>1, NoneFacts DEF Aside, HasRef, IsNew, IsRaw, Frees, Dropped
  <2> QED
    BY <1>2, <1>3, <1>4, <1>7, <2>2, <2>3, <2>4, <2>5, ReleaseHeap
<1>8. ASSUME item' = item, q = [op[w] EXCEPT !.at = "remove"]
      PROVE  HeapInv'
  <2>1. UNCHANGED memvars
    BY <1>2, <1>8 DEF memvars
  <2>2. "remove" \in Places
    BY DEF Places
  <2> QED
    BY <1>1, <1>2, <1>3, <1>8, <2>1, <2>2, GoOnHeap
<1> QED
  BY <1>3, <1>6, <1>7, <1>8 DEF DropTo

LEMMA ItemRemoveHeap ==
  ASSUME TypeInv, HeapInv, NEW w \in Workers, ItemRemove(w)
  PROVE  HeapInv'
<1>1. op[w] \in Command /\ op[w] # Idle /\ op[w].at = "removing" /\ op[w].free = None
  BY AtFacts DEF ItemRemove, At
<1>2. slots' = slots /\ slab_list' = slab_list /\ lru' = lru /\ UNCHANGED movevars
  BY DEF ItemRemove
<1>3. PICK h \in Chunks, q \in Command \cup {Idle} :
         /\ op[w].it = h /\ op[w].old = None /\ op[w].new = None
         /\ op' = [op EXCEPT ![w] = q] /\ (q # Idle => Shape(q) /\ q.at # "search")
         /\ q = IF Dropped(h) = None THEN Idle
                ELSE [op[w] EXCEPT !.it = None, !.free = Dropped(h), !.at = "unlock"]
         /\ item' = [item EXCEPT ![h].refcount = item[h].refcount - 1]
  BY ItemRemoveFacts, ZenonT(60)
<1>4. q # Idle => /\ q.it = None /\ q.old = None /\ q.new = None
                  /\ q.free = Dropped(h) /\ q.at = "unlock"
  BY <1>1, <1>3 DEF Command
<1>5. AtLinked(q, lru) /\ Distinct(q)
  BY <1>4 DEF AtLinked, Distinct
<1>6. HasRef(op[w], h) /\ ~IsRaw(op[w], h)
  BY <1>1, <1>3 DEF HasRef, IsRaw
<1>7. \A g \in Chunks : ~HasRef(q, g)
  BY <1>4, NoneFacts DEF HasRef
<1>8. Frees(q, h) => item[h].refcount = 1
  BY <1>4, NoneFacts DEF Frees, Dropped
<1>9. \A g \in Chunks \ {h} : Aside(op[w], q, g)
  <2>1. ASSUME NEW g \in Chunks \ {h}
        PROVE  Aside(op[w], q, g)
    <3>1. ~HasRef(op[w], g) /\ ~HasRef(q, g)
      BY <1>3, <1>7, NoneFacts DEF HasRef
    <3>2. ~IsNew(q, g)
      BY <3>1 DEF IsNew, HasRef
    <3>3. ~Frees(q, g)
      BY <1>4, NoneFacts DEF Frees, Dropped
    <3> QED
      BY <3>1, <3>2, <3>3 DEF Aside
  <2> QED
    BY <2>1
<1> QED
  BY <1>2, <1>3, <1>5, <1>6, <1>7, <1>8, <1>9, ReleaseHeap

\* The items of a key that are found are linked.
LEMMA DoItemGetHeap ==
  ASSUME TypeInv, HeapInv, NEW w \in Workers, DoItemGet(w), "unlink" \notin raced'
  PROVE  HeapInv'
<1>1. op[w] \in Command /\ Shape(op[w]) /\ op[w] # Idle /\ op[w].at = "get" /\ op[w].free = None
      /\ At(w, "get")
  BY AtFacts DEF DoItemGet, At
<1>2. /\ (op[w].it = None <=> ~Stores(op[w])) /\ op[w].old = None /\ op[w].new = None
  BY <1>1 DEF Shape
<1>3. slots' = slots /\ slab_list' = slab_list /\ cache_lock' = cache_lock /\ UNCHANGED movevars
  BY DEF DoItemGet
<1>4. ASSUME NEW h \in Chunks, Linked(h)
      PROVE  ~HasRef(op[w], h) /\ ChunkInv(h)
  <2>1. ChunkInv(h)
    BY DEF HeapInv
  <2>2. ~IsNew(op[w], h)
    BY <1>4, <2>1, LinkedFacts
  <2> QED
    BY <1>1, <1>2, <2>1, <2>2, NoneFacts DEF HasRef, IsNew, Stores
<1>5. CASE item' = item /\ lru' = lru /\ GetNothing(w, None)
  <2>1. PICK freed \in MaybeChunk : freed = None /\ GetNothing(w, freed)
    BY <1>5 DEF MaybeChunk
  <2>2. PICK q \in Command \cup {Idle} :
           /\ op' = [op EXCEPT ![w] = q] /\ (q # Idle => Shape(q) /\ q.at # "search")
           /\ IF ~Stores(op[w])
              THEN q = IF freed = None THEN Idle
                       ELSE [op[w] EXCEPT !.it = None, !.free = freed, !.at = "unlock"]
              ELSE q = [op[w] EXCEPT !.free = freed,
                                     !.at = IF op[w].do = "set" THEN "link" ELSE "drop"]
           /\ item_locks' \in [Keys -> Workers \cup {None}]
           /\ item_locks' = IF freed = None /\ ~Stores(op[w])
                            THEN [item_locks EXCEPT ![op[w].key] = None]
                            ELSE item_locks
    BY <1>1, <2>1, GetNothingFacts
  <2>3. UNCHANGED memvars
    BY <1>3, <1>5 DEF memvars
  <2>4. CASE ~Stores(op[w])
    BY <1>1, <1>2, <1>3, <2>1, <2>2, <2>3, <2>4, EndHeap
  <2>5. CASE Stores(op[w])
    <3>1. PICK at : at = IF op[w].do = "set" THEN "link" ELSE "drop"
      OBVIOUS
    <3>2. at \in Places /\ at \notin {"search", "init"}
      BY <3>1 DEF Places
    <3>3. op' = [op EXCEPT ![w] = [op[w] EXCEPT !.at = at]]
      BY <1>1, <2>1, <2>2, <2>5, <3>1, ZenonT(60) DEF Command
    <3> QED
      BY <1>1, <1>3, <2>3, <3>2, <3>3, GoOnHeap
  <2> QED
    BY <2>4, <2>5
<1>6. ASSUME NEW h \in Chunks, Linked(h), GetFound(w, h)
      PROVE  HeapInv'
  <2>1. PICK q \in Command :
           /\ op' = [op EXCEPT ![w] = q] /\ q # Idle /\ Shape(q) /\ q.at # "search"
           /\ IF ~Stores(op[w])
              THEN q = [op[w] EXCEPT !.it = h,
                                     !.at = IF op[w].do = "get" THEN "writing" ELSE "delete"]
              ELSE q = [op[w] EXCEPT !.old = h,
                                     !.at = IF op[w].do = "set" THEN "unlink" ELSE "alloc"]
           /\ item_locks' \in [Keys -> Workers \cup {None}]
           /\ item_locks' = IF ~Stores(op[w]) THEN [item_locks EXCEPT ![op[w].key] = None]
                            ELSE item_locks
           /\ item' = [item EXCEPT ![h].refcount = item[h].refcount + 1]
           /\ lru' = lru
    BY <1>1, <1>6, GetFoundFacts
  <2>2. /\ ~HasRef(op[w], h) /\ ChunkInv(h)
        /\ ~Unused(h) /\ item[h].refcount \in Nat /\ Live(h)
        /\ \A v \in Workers : ~IsNew(op[v], h) /\ ~Frees(op[v], h)
        /\ \A c \in Classes : ~Contains(slots[c], h)
    BY <1>4, <1>6, LinkedFacts
  <2>3. PICK n \in Int : n = item[h].refcount + 1
    BY <2>2
  <2>4. /\ q.new = None /\ q.cls = op[w].cls /\ q.do = op[w].do /\ q.free = None
        /\ q.at \in {"writing", "delete", "unlink", "alloc"}
        /\ ~Stores(op[w]) => q.it = h /\ q.old = None
        /\ Stores(op[w]) => q.it = op[w].it /\ q.old = h
    <3>1. CASE ~Stores(op[w])
      BY <1>1, <1>2, <2>1, <3>1 DEF Command
    <3>2. CASE Stores(op[w])
      BY <1>1, <1>2, <2>1, <3>2 DEF Command
    <3> QED
      BY <3>1, <3>2
  <2>5. HasRef(q, h) /\ ~IsRaw(q, h) /\ ~Frees(q, h)
    BY <2>1, <2>4, NoneFacts DEF HasRef, IsRaw, Frees
  <2>6. op[w].it # h
    BY <1>1, <2>2 DEF HasRef
  <2>7. ~IsNew(q, h) /\ Distinct(q)
    BY <2>1, <2>4, <2>6, NoneFacts DEF IsNew, Distinct, Stores
  <2>8. \A g \in Chunks \ {h} : Aside(op[w], q, g)
    <3>1. ASSUME NEW g \in Chunks \ {h}
          PROVE  Aside(op[w], q, g)
      <4>1. (HasRef(q, g) <=> HasRef(op[w], g)) /\ ~IsRaw(q, g) /\ ~IsRaw(op[w], g)
        BY <1>1, <1>2, <2>1, <2>4, NoneFacts DEF HasRef, IsRaw
      <4>2. IsNew(q, g) => IsNew(op[w], g)
        BY <1>1, <1>2, <2>1, <2>4, NoneFacts DEF IsNew
      <4>3. ~Frees(q, g)
        BY <2>4, NoneFacts DEF Frees
      <4> QED
        BY <2>4, <4>1, <4>2, <4>3 DEF Aside
    <3> QED
      BY <3>1
  <2>9. n - One(HasRef(q, h)) = item[h].refcount - One(HasRef(op[w], h))
    BY <2>2, <2>3, <2>5 DEF One
  <2>10. AtLinked(q, lru)
    BY <2>1 DEF AtLinked
  <2>11. item' = [item EXCEPT ![h].refcount = n]
    BY <2>1, <2>3
  <2> QED
    BY <1>3, <2>1, <2>2, <2>5, <2>7, <2>8, <2>9, <2>10, <2>11, RefHeap
<1>7. ASSUME NEW h \in Chunks, Linked(h), Unlinked(h), GetNothing(w, Dropped(h)),
             cache_lock \notin Workers
      PROVE  HeapInv'
  <2>1. PICK d \in MaybeChunk : d = Dropped(h) /\ GetNothing(w, d)
    BY <1>7 DEF Dropped, MaybeChunk
  <2>2. PICK q \in Command \cup {Idle} :
           /\ op' = [op EXCEPT ![w] = q] /\ (q # Idle => Shape(q) /\ q.at # "search")
           /\ IF ~Stores(op[w])
              THEN q = IF d = None THEN Idle
                       ELSE [op[w] EXCEPT !.it = None, !.free = d, !.at = "unlock"]
              ELSE q = [op[w] EXCEPT !.free = d,
                                     !.at = IF op[w].do = "set" THEN "link" ELSE "drop"]
           /\ item_locks' \in [Keys -> Workers \cup {None}]
           /\ item_locks' = IF d = None /\ ~Stores(op[w])
                            THEN [item_locks EXCEPT ![op[w].key] = None]
                            ELSE item_locks
    BY <1>1, <2>1, GetNothingFacts
  <2>3. /\ q # Idle => /\ q.old = None /\ q.new = None /\ q.free = d
                       /\ q.cls = op[w].cls /\ q.do = op[w].do
                       /\ q.at \in {"unlock", "link", "drop"} /\ q.it = op[w].it
        /\ q = Idle => op[w].it = None
    <3>1. CASE ~Stores(op[w])
      BY <1>1, <1>2, <2>2, <3>1 DEF Command
    <3>2. CASE Stores(op[w])
      <4>1. q \in Command /\ q # Idle
        BY <1>1, <2>2, <3>2 DEF Command, Idle
      <4> QED
        BY <1>1, <1>2, <2>2, <3>2, <4>1 DEF Command
    <3> QED
      BY <3>1, <3>2
  <2>4. \A g \in Chunks : HasRef(q, g) <=> HasRef(op[w], g)
    BY <1>1, <1>2, <2>3, NoneFacts DEF HasRef
  <2>5. \A g : ~IsRaw(q, g) /\ ~IsRaw(op[w], g)
    BY <1>1, <2>3 DEF IsRaw
  <2>6. \A g \in Chunks : IsNew(q, g) => IsNew(op[w], g)
    BY <1>1, <1>2, <2>3, NoneFacts DEF IsNew
  <2>7. \A g \in Chunks : Frees(q, g) => g = h /\ item[h].refcount = 1
    BY <2>1, <2>3, NoneFacts DEF Frees, Dropped
  <2>8. ~HasRef(op[w], h) /\ ChunkInv(h) /\ ~IsNew(op[w], h)
    BY <1>4, <1>7, LinkedFacts
  <2>9. Frees(q, h) => Alone(w, h) /\ ~HasRef(q, h)
    BY <1>7, <2>4, <2>7, <2>8, CountFacts DEF ChunkInv, Alone
  <2>10. \A g \in Chunks \ {h} : Aside(op[w], q, g)
    BY <2>3, <2>4, <2>5, <2>6, <2>7 DEF Aside, HasRef
  <2>11. Distinct(q) /\ \A l : AtLinked(q, l)
    BY <1>2, <2>2, <2>3 DEF Distinct, AtLinked
  <2>12. cache_lock \notin Workers \ {w}
    BY <1>7
  <2> QED
    BY <1>3, <1>7, <2>2, <2>4, <2>5, <2>6, <2>8, <2>9, <2>10, <2>11, <2>12, UnlinkHeap
<1> QED
  BY <1>5, <1>6, <1>7 DEF DoItemGet

LEMMA UnlinkStepHeap ==
  ASSUME TypeInv, HeapInv, NEW w \in Workers, Unlink(w)
  PROVE  HeapInv'
<1>1. op[w] \in Command /\ Shape(op[w]) /\ op[w] # Idle /\ op[w].at \in {"unlink", "delete"}
      /\ op[w].free = None
  BY AtFacts DEF Unlink, At
<1>2. slots' = slots /\ slab_list' = slab_list /\ cache_lock = None /\ UNCHANGED movevars
  BY DEF Unlink
<1>3. PICK h, at : /\ h = IF op[w].at = "unlink" THEN op[w].old ELSE op[w].it
                   /\ at = IF op[w].at = "unlink" THEN "link" ELSE "remove"
  OBVIOUS
<1>4. Unlinked(h) /\ op' = [op EXCEPT ![w].at = at]
  <2>1. CASE op[w].at = "unlink"
    BY <1>3, <2>1 DEF Unlink, At
  <2>2. CASE op[w].at = "delete"
    BY <1>3, <2>2 DEF Unlink, At
  <2> QED
    BY <1>1, <2>1, <2>2
<1>5. h \in Chunks /\ at \in Places /\ at \in {"link", "remove"}
  <2>1. h \in MaybeChunk /\ h # None
    BY <1>1, <1>3 DEF Shape, Command
  <2> QED
    BY <1>3, <2>1 DEF MaybeChunk, Places
<1>6. PICK q : q = [op[w] EXCEPT !.at = at]
  OBVIOUS
<1>7. op' = [op EXCEPT ![w] = q]
  BY <1>4, <1>6 DEF TypeInv, OpInv
<1>8. CASE ~Linked(h)
  <2>1. UNCHANGED memvars
    BY <1>2, <1>4, <1>8 DEF Unlinked, memvars
  <2> QED
    BY <1>1, <1>2, <1>5, <1>6, <1>7, <2>1, GoOnHeap
<1>9. CASE Linked(h)
  <2>1. q \in Command
    BY <1>1, <1>5, <1>6 DEF Command
  <2>2. /\ q.it = op[w].it /\ q.old = op[w].old /\ q.new = op[w].new /\ q.cls = op[w].cls
        /\ q.do = op[w].do /\ q.free = op[w].free /\ q.at = at
    BY <1>1, <1>6 DEF Command
  <2>3. Distinct(op[w])
    BY DEF HeapInv, DistinctInv
  <2>4. (\A g : Aside(op[w], q, g)) /\ Distinct(q) /\ q # Idle
    BY <1>1, <1>5, <2>1, <2>2, <2>3, AsideAt
  <2>5. HasRef(op[w], h) /\ ~IsRaw(q, h)
    BY <1>1, <1>3, <1>5, <2>2 DEF HasRef, IsRaw
  <2>6. HasRef(q, h) <=> HasRef(op[w], h)
    BY <2>4 DEF Aside
  <2>7. ChunkInv(h)
    BY <1>5 DEF HeapInv
  <2>8. \A v \in Workers : ~IsNew(op[v], h) /\ ~Frees(op[v], h)
    BY <1>5, <1>9, <2>7, LinkedFacts
  <2>9. ~IsNew(q, h) /\ ~Frees(q, h)
    BY <2>4, <2>8 DEF Aside
  <2>10. \A l : AtLinked(q, l)
    BY <1>5, <2>2 DEF AtLinked
  <2>11. cache_lock \notin Workers \ {w}
    BY <1>2, NoneFacts
  <2> QED
    BY <1>2, <1>4, <1>5, <1>7, <1>9, <2>4, <2>5, <2>6, <2>9, <2>10, <2>11, UnlinkHeap
<1> QED
  BY <1>8, <1>9

LEMMA InitItemHeap ==
  ASSUME TypeInv, HeapInv, NEW w \in Workers, InitItem(w)
  PROVE  HeapInv'
<1>1. op[w] \in Command /\ Shape(op[w]) /\ op[w] # Idle /\ op[w].at = "init"
      /\ op[w].free = None
  BY AtFacts DEF InitItem, At
<1>2. slots' = slots /\ slab_list' = slab_list /\ lru' = lru /\ UNCHANGED movevars
  BY DEF InitItem
<1>3. PICK h \in Chunks, i \in Item :
            /\ h = IF op[w].old # None THEN op[w].new ELSE op[w].it
            /\ i = [item[h] EXCEPT !.flags = {}, !.slabs_clsid = op[w].cls, !.key = op[w].key]
            /\ item' = [item EXCEPT ![h] = i] /\ item'[h] = i
            /\ op' = [op EXCEPT ![w] = [op[w] EXCEPT !.at = IF op[w].old # None THEN "unlink"
                                                            ELSE "reading"]]
  BY InitItemFacts
<1>4. PICK at : at = IF op[w].old # None THEN "unlink" ELSE "reading"
  OBVIOUS
<1>5. PICK q : q = [op[w] EXCEPT !.at = at]
  OBVIOUS
<1>6. op' = [op EXCEPT ![w] = q] /\ at \in {"unlink", "reading"}
  BY <1>3, <1>4, <1>5
<1>7. /\ q.it = op[w].it /\ q.old = op[w].old /\ q.new = op[w].new /\ q.cls = op[w].cls
      /\ q.do = op[w].do /\ q.free = op[w].free /\ q.at = at
  BY <1>1, <1>5 DEF Command
<1>8. q \in Command /\ q # Idle
  <2>1. at \in Places
    BY <1>6 DEF Places
  <2> QED
    BY <1>1, <1>5, <2>1 DEF Command, Idle
<1>9. ChunkInv(h) /\ Distinct(op[w])
  BY DEF HeapInv, DistinctInv
<1>10. HasRef(op[w], h) /\ IsRaw(op[w], h) /\ IsNew(op[w], h)
  BY <1>1, <1>3 DEF HasRef, IsRaw, IsNew, Shape, Stores
<1>11. /\ ~Unused(h) /\ item[h].refcount \in Nat
       /\ \A v \in Workers \ {w} : ~IsNew(op[v], h)
       /\ \A v \in Workers : ~Frees(op[v], h)
       /\ \A c \in Classes : ~Contains(slots[c], h)
  BY <1>9, <1>10, HeldFacts
<1>12. Alone(w, h) /\ ~Linked(h) /\ Owned(h, op[w].cls)
  BY <1>9, <1>10 DEF ChunkInv, NewInv, HandleInv, Alone
<1>13. i.flags = {} /\ i.slabs_clsid = op[w].cls /\ i.refcount = item[h].refcount
  <2>1. PICK o : o = item[h]
    OBVIOUS
  <2>2. o \in Item
    BY <2>1 DEF TypeInv, MemoryInv
  <2> QED
    BY <1>3, <2>1, <2>2 DEF Item
<1>14. op[w].cls \in Classes /\ op[w].cls # 255
  BY <1>1, ClassFacts DEF Command
<1>15. Live(h)' /\ ~Linked(h)'
  <2>1. PICK c : c = op[w].cls
    OBVIOUS
  <2>2. c \in Classes /\ h \in ChunksIn(slab_list[c], c)
    BY <1>12, <2>1 DEF Owned
  <2>3. item'[h].slabs_clsid = c /\ item'[h].flags = {}
    BY <1>3, <1>13, <2>1
  <2> QED
    BY <1>2, <2>2, <2>3 DEF Live, Owned, Linked
<1>16. HasRef(q, h) /\ ~IsRaw(q, h) /\ ~Frees(q, h)
  BY <1>1, <1>6, <1>7, <1>8, <1>10, NoneFacts DEF HasRef, IsRaw, Frees
<1>17. Hands(w, q, h)
  BY <1>3, <1>7, <1>11, <1>12, <1>13, <1>15, <1>16 DEF Hands
<1>18. Counted(w, q, h)
  <2>1. One(Linked(h)) = 0 /\ One(Linked(h)') = 0 /\ One(HasRef(q, h)) = 1
        /\ One(HasRef(op[w], h)) = 1
    BY <1>10, <1>12, <1>15, <1>16 DEF One
  <2> QED
    BY <1>3, <1>11, <1>13, <2>1 DEF Counted
<1>19. LinkedInv(h)'
  BY <1>2, <1>9, <1>12, <1>15 DEF ChunkInv, LinkedInv
<1>20. SlotInv(h)'
  BY <1>2, <1>11 DEF SlotInv
<1>21. \A g \in Chunks \ {h} : Leaves(w, q, g)
  <2>1. ASSUME NEW g \in Chunks \ {h}
        PROVE  Aside(op[w], q, g)
    <3>1. (HasRef(q, g) <=> HasRef(op[w], g)) /\ (Frees(q, g) <=> Frees(op[w], g))
      BY <1>1, <1>7, <1>8 DEF HasRef, Frees
    <3>2. ~IsRaw(q, g) /\ ~IsRaw(op[w], g)
      BY <1>3, <1>6, <1>7 DEF IsRaw
    <3>3. IsNew(q, g) => IsNew(op[w], g)
      BY <1>1, <1>7 DEF IsNew
    <3> QED
      BY <1>7, <3>1, <3>2, <3>3 DEF Aside
  <2>2. \A g \in Chunks \ {h} : item'[g] = item[g]
    BY <1>3, ItemSet DEF TypeInv
  <2> QED
    BY <1>2, <2>1, <2>2 DEF Leaves
<1>22. ListInv' /\ \A v \in Workers \ {w} : AtLinked(op[v], lru')
  BY <1>2 DEF HeapInv, ListInv, SearchInv
<1>23. Distinct(q) /\ AtLinked(q, lru')
  BY <1>1, <1>6, <1>7, <1>9 DEF Distinct, AtLinked
<1>24. item'[h].slabs_clsid # 255
  <2>1. PICK c : c = op[w].cls
    OBVIOUS
  <2>2. item'[h].slabs_clsid = c
    BY <1>3, <1>13, <2>1
  <2>3. c # 255
    BY <1>14, <2>1
  <2> QED
    BY <2>2, <2>3
<1> QED
  BY <1>2, <1>6, <1>11, <1>17, <1>18, <1>19, <1>20, <1>21, <1>22, <1>23, <1>24, OneChunk

LEMMA LinkHeap ==
  ASSUME TypeInv, HeapInv, NEW w \in Workers, Link(w)
  PROVE  HeapInv'
<1>1. op[w] \in Command /\ Shape(op[w]) /\ op[w] # Idle /\ op[w].at = "link"
      /\ op[w].free = None
  BY AtFacts DEF Link, At
<1>2. slots' = slots /\ slab_list' = slab_list /\ cache_lock = None /\ UNCHANGED movevars
  BY DEF Link
<1>3. PICK h \in Chunks, i \in Item :
            /\ h = IF op[w].new # None THEN op[w].new ELSE op[w].it
            /\ item' = [item EXCEPT ![h] = i] /\ item'[h] = i
            /\ i.flags = item[h].flags \cup {"LINKED"} /\ i.refcount = item[h].refcount + 1
            /\ i.slabs_clsid = item[h].slabs_clsid /\ i.key = item[h].key
            /\ lru' = [lru EXCEPT ![op[w].cls] = <<h>> \o lru[op[w].cls]]
            /\ op' = [op EXCEPT ![w] = [op[w] EXCEPT !.at = "drop"]]
  BY LinkFacts
<1>4. PICK q : q = [op[w] EXCEPT !.at = "drop"]
  OBVIOUS
<1>5. op' = [op EXCEPT ![w] = q]
  BY <1>3, <1>4
<1>6. /\ q.it = op[w].it /\ q.old = op[w].old /\ q.new = op[w].new /\ q.cls = op[w].cls
      /\ q.do = op[w].do /\ q.free = op[w].free /\ q.at = "drop"
  BY <1>1, <1>4 DEF Command
<1>7. q \in Command
  BY <1>1, <1>4 DEF Command, Places
<1>8. ChunkInv(h) /\ Distinct(op[w]) /\ ListInv /\ SearchInv
  BY DEF HeapInv, DistinctInv
<1>9. (\A g : Aside(op[w], q, g)) /\ Distinct(q) /\ q # Idle
  BY <1>1, <1>6, <1>7, <1>8, AsideAt
<1>10. HasRef(op[w], h) /\ ~IsRaw(op[w], h) /\ IsNew(op[w], h)
  BY <1>1, <1>3 DEF HasRef, IsRaw, IsNew, Shape, Stores
<1>11. /\ ~Unused(h) /\ item[h].refcount \in Nat /\ Live(h)
       /\ \A v \in Workers \ {w} : ~IsNew(op[v], h)
       /\ \A v \in Workers : ~Frees(op[v], h)
       /\ \A c \in Classes : ~Contains(slots[c], h)
  BY <1>8, <1>10, HeldFacts
<1>12. Alone(w, h) /\ ~Linked(h) /\ item[h].slabs_clsid = op[w].cls
  BY <1>8, <1>10 DEF ChunkInv, NewInv, Alone
<1>13. Live(h)' /\ Linked(h)' /\ item'[h].slabs_clsid # 255
  <2>1. "SLABBED" \in item'[h].flags => "SLABBED" \in item[h].flags
    BY <1>3
  <2>2. Live(h)' /\ item'[h].slabs_clsid # 255
    BY <1>2, <1>3, <1>11, <2>1, LiveKept, SMTT(40)
  <2> QED
    BY <1>3, <2>2 DEF Linked
<1>14. HasRef(q, h) /\ ~IsRaw(q, h) /\ ~IsNew(q, h) /\ ~Frees(q, h)
  BY <1>1, <1>6, <1>9, <1>10, NoneFacts DEF HasRef, IsRaw, IsNew, Frees
<1>15. Hands(w, q, h)
  BY <1>11, <1>12, <1>13, <1>14 DEF Hands
<1>16. Counted(w, q, h)
  <2>1. One(Linked(h)) = 0 /\ One(Linked(h)') = 1 /\ One(HasRef(q, h)) = 1
        /\ One(HasRef(op[w], h)) = 1
    BY <1>10, <1>12, <1>13, <1>14 DEF One
  <2> QED
    BY <1>3, <1>11, <2>1 DEF Counted
<1>17. op[w].cls \in Classes /\ \A c \in Classes : lru[c] \in Seq(Chunks)
  BY <1>1 DEF Command, TypeInv, MemoryInv
<1>18. \A c \in Classes : ~Contains(lru[c], h)
  BY <1>8, <1>12 DEF ChunkInv, LinkedInv
<1>19. ASSUME NEW c \in Classes
       PROVE  /\ \A g : Contains(lru'[c], g) <=> Contains(lru[c], g) \/ (c = op[w].cls /\ g = h)
              /\ IsInjective(lru'[c])
  <2>1. IsInjective(lru[c])
    BY <1>8 DEF ListInv
  <2>2. CASE c # op[w].cls
    <3>1. lru'[c] = lru[c]
      BY <1>3, <2>2 DEF TypeInv, MemoryInv
    <3> QED
      BY <2>1, <2>2, <3>1
  <2>3. CASE c = op[w].cls
    <3>1. lru'[c] = <<h>> \o lru[c]
      BY <1>3, <2>3 DEF TypeInv, MemoryInv
    <3>2. /\ \A g : Contains(<<h>> \o lru[c], g) <=> g = h \/ Contains(lru[c], g)
          /\ IsInjective(<<h>> \o lru[c])
      BY <1>17, <1>18, <2>1, PushFacts
    <3> QED
      BY <2>3, <3>1, <3>2
  <2> QED
    BY <2>2, <2>3
<1>20. LinkedInv(h)'
  <2>1. Contains(lru'[op[w].cls], h)
    BY <1>17, <1>19
  <2>2. \A c \in Classes : Contains(lru'[c], h) => c = op[w].cls
    BY <1>18, <1>19
  <2>3. item'[h].slabs_clsid = op[w].cls
    BY <1>3, <1>12
  <2> QED
    BY <1>13, <2>1, <2>2, <2>3 DEF LinkedInv
<1>21. SlotInv(h)'
  BY <1>2, <1>11 DEF SlotInv
<1>22. \A g \in Chunks \ {h} : Leaves(w, q, g)
  <2>1. \A g \in Chunks \ {h} : item'[g] = item[g]
    BY <1>3, ItemSet DEF TypeInv
  <2> QED
    BY <1>2, <1>9, <1>19, <2>1 DEF Leaves
<1>23. ListInv'
  BY <1>2, <1>8, <1>19 DEF ListInv
<1>24. \A v \in Workers \ {w} : AtLinked(op[v], lru')
  BY <1>2, <1>8, NoneFacts, OneSearch
<1>25. AtLinked(q, lru')
  BY <1>6 DEF AtLinked
<1> QED
  BY <1>2, <1>5, <1>9, <1>11, <1>13, <1>15, <1>16, <1>20, <1>21, <1>22, <1>23, <1>24, <1>25, OneChunk

\* The mover has not got cache_lock, so it has no reference.
LEMMA FreeItemHeap ==
  ASSUME TypeInv, HeapInv, NEW w \in Workers, FreeItem(w)
  PROVE  HeapInv'
<1>1. op[w] \in Command /\ Shape(op[w]) /\ op[w] # Idle
  BY AtFacts DEF FreeItem
<1>2. slab_list' = slab_list /\ lru' = lru /\ moving = "none" /\ UNCHANGED movevars
  BY DEF FreeItem, TypeInv, CacheInv
<1>3. PICK h \in Chunks, q \in Command :
            /\ op[w].free = h /\ op[w] # Idle
            /\ op' = [op EXCEPT ![w] = q] /\ q # Idle /\ Shape(q)
            /\ (q.at = "search" <=> op[w].at = "search")
            /\ q = [op[w] EXCEPT !.free = None]
            /\ item' = [item EXCEPT ![h] = Slabbed(item[h])]
            /\ slots' = [slots EXCEPT ![item[h].slabs_clsid] =
                            <<h>> \o slots[item[h].slabs_clsid]]
  BY FreeItemFacts
<1>4. /\ q.it = op[w].it /\ q.old = op[w].old /\ q.new = op[w].new /\ q.cls = op[w].cls
      /\ q.do = op[w].do /\ q.free = None /\ q.at = op[w].at
  BY <1>1, <1>3 DEF Command
<1>5. ChunkInv(h) /\ Distinct(op[w]) /\ ListInv /\ SearchInv
  BY DEF HeapInv, DistinctInv
<1>6. /\ Live(h) /\ ~Linked(h)
      /\ \A v \in Workers : ~HasRef(op[v], h)
      /\ \A v \in Workers \ {w} : ~Frees(op[v], h)
  BY <1>3, <1>5 DEF ChunkInv, FreedInv, Frees
<1>7. PICK s \in Classes : s = item[h].slabs_clsid /\ Owned(h, s)
  BY <1>6 DEF Live, Owned
<1>8. \A v \in Workers : ~IsNew(op[v], h)
  BY <1>6 DEF IsNew, HasRef
<1>9. item[h].refcount = 0
  <2>1. Cardinality(Holders(h)) = 0
    <3>1. Holders(h) = {}
      BY <1>6 DEF Holders
    <3> QED
      BY <3>1, FS_EmptySet
  <2>2. Refs(h) = 0
    BY <1>2, <1>6, <2>1, RefsFacts DEF One, AtMover
  <2> QED
    BY <1>5, <2>2 DEF ChunkInv, CountInv
<1>10. \A c \in Classes : ~Contains(slots[c], h)
  BY <1>5, <1>6 DEF ChunkInv, SlotInv, Live
<1>11. PICK i : i = Slabbed(item[h])
  OBVIOUS
<1>12. i \in Item /\ "SLABBED" \in i.flags /\ i.slabs_clsid = 0 /\ i.refcount = 0
       /\ ("LINKED" \in i.flags <=> "LINKED" \in item[h].flags)
  <2>1. item[h] \in Item
    BY DEF TypeInv, MemoryInv
  <2> QED
    BY <1>9, <1>11, <2>1, SlabbedFacts
<1>13. item' = [item EXCEPT ![h] = i]
  BY <1>3, <1>11
<1>14. item'[h] = i /\ \A g \in Chunks \ {h} : item'[g] = item[g]
  BY <1>12, <1>13, ItemSet DEF TypeInv
<1>15. ASSUME NEW c \in Classes
       PROVE  /\ \A g : Contains(slots'[c], g) <=> Contains(slots[c], g) \/ (c = s /\ g = h)
              /\ IsInjective(slots'[c])
  <2>1. IsInjective(slots[c]) /\ slots[c] \in Seq(Chunks)
    BY <1>5 DEF ListInv, TypeInv, MemoryInv
  <2>2. CASE c # s
    <3>1. slots'[c] = slots[c]
      BY <1>3, <1>7, <2>2 DEF TypeInv, MemoryInv
    <3> QED
      BY <2>1, <2>2, <3>1
  <2>3. CASE c = s
    <3>1. slots'[c] = <<h>> \o slots[c]
      BY <1>3, <1>7, <2>3 DEF TypeInv, MemoryInv
    <3>2. /\ \A g : Contains(<<h>> \o slots[c], g) <=> g = h \/ Contains(slots[c], g)
          /\ IsInjective(<<h>> \o slots[c])
      BY <1>10, <2>1, PushFacts
    <3> QED
      BY <2>3, <3>1, <3>2
  <2> QED
    BY <2>2, <2>3
<1>16. ~HasRef(q, h) /\ ~IsNew(q, h) /\ ~Frees(q, h) /\ ~IsRaw(q, h)
  <2>1. ~HasRef(q, h) /\ ~Frees(q, h)
    BY <1>1, <1>4, <1>6, NoneFacts DEF HasRef, Frees
  <2>2. ~IsNew(q, h)
    BY <2>1 DEF IsNew, HasRef
  <2>3. ~IsRaw(q, h)
    BY <2>1 DEF IsRaw, HasRef
  <2> QED
    BY <2>1, <2>2, <2>3
<1>17. ~Linked(h)'
  BY <1>6, <1>12, <1>14 DEF Linked
<1>18. Hands(w, q, h)
  BY <1>6, <1>8, <1>16 DEF Hands, Alone
<1>19. Counted(w, q, h)
  BY <1>6, <1>9, <1>12, <1>14, <1>16, <1>17 DEF Counted, One
<1>20. LinkedInv(h)'
  BY <1>2, <1>5, <1>6, <1>17 DEF ChunkInv, LinkedInv
<1>21. SlotInv(h)'
  <2>1. Owned(h, s)'
    BY <1>2, <1>7 DEF Owned
  <2>2. \A c \in Classes : Contains(slots'[c], h) => c = s
    BY <1>10, <1>15
  <2> QED
    BY <1>12, <1>14, <2>1, <2>2 DEF SlotInv
<1>22. \A g \in Chunks \ {h} : Leaves(w, q, g)
  <2>1. ASSUME NEW g \in Chunks \ {h}
        PROVE  Aside(op[w], q, g)
    BY <1>1, <1>3, <1>4, NoneFacts DEF Aside, HasRef, IsNew, IsRaw, Frees
  <2> QED
    BY <1>2, <1>14, <1>15, <2>1 DEF Leaves
<1>23. ListInv' /\ \A v \in Workers \ {w} : AtLinked(op[v], lru')
  BY <1>2, <1>5, <1>15 DEF ListInv, SearchInv
<1>24. AtLinked(op[w], lru)
  BY <1>5 DEF SearchInv
<1>25. Distinct(q) /\ AtLinked(q, lru')
  <2>1. q.search = op[w].search
    BY <1>1, <1>3 DEF Command
  <2> QED
    BY <1>1, <1>2, <1>4, <1>5, <1>24, <2>1 DEF Distinct, AtLinked
<1>26. ~Unused(h) /\ item'[h].slabs_clsid # 255
  BY <1>3, <1>12, <1>14 DEF Unused, Frees
<1> QED
  BY <1>2, <1>3, <1>18, <1>19, <1>20, <1>21, <1>22, <1>23, <1>25, <1>26, OneChunk

-----------------------------------------------------------------------------
(***************************************************************************)
(* do_item_alloc() takes a chunk.                                          *)
(***************************************************************************)
\* The chunks do_slabs_alloc() takes one of are nobody's.
Spare(x, c) ==
    /\ x \in Chunks /\ item[x].refcount = 0 /\ ~Linked(x)
    /\ \A v \in Workers : ~HasRef(op[v], x) /\ ~Frees(op[v], x)
    /\ \A d \in Classes : /\ ~Contains(lru[d], x)
                          /\ Contains(slots[d], x) => d = c
    /\ ~Unused(x) \/ \A d \in Classes : ~Owned(x, d)

LEMMA SpareSlot ==
  ASSUME TypeInv, HeapInv, NEW c \in Classes, NEW x \in Chunks, Contains(slots[c], x)
  PROVE  Spare(x, c)
<1>1. ChunkInv(x)
  BY DEF HeapInv
<1>2. Owned(x, c) /\ item[x].refcount = 0 /\ "SLABBED" \in item[x].flags
  BY <1>1 DEF ChunkInv, SlotInv
<1>3. ~Linked(x) /\ \A v \in Workers : ~HasRef(op[v], x)
  BY <1>1, <1>2, CountFacts DEF ChunkInv
<1>4. \A v \in Workers : ~Frees(op[v], x)
  BY <1>1, <1>2 DEF ChunkInv, FreedInv, Live
<1>5. \A d \in Classes : ~Contains(lru[d], x)
  BY <1>1, <1>3 DEF ChunkInv, LinkedInv
<1>6. \A d \in Classes : Contains(slots[d], x) => Owned(x, d)
  BY <1>1 DEF ChunkInv, SlotInv
<1>7. \A d \in Classes : Contains(slots[d], x) => d = c
  BY <1>2, <1>6, OwnedOnce
<1>8. ~Unused(x)
  BY DEF Unused
<1> QED
  BY <1>2, <1>3, <1>4, <1>5, <1>7, <1>8 DEF Spare

LEMMA SparePage ==
  ASSUME TypeInv, HeapInv, NEW c \in Classes, NEW x \in Chunks,
         \A d \in Classes : ~Owned(x, d)
  PROVE  Spare(x, c)
<1>1. ChunkInv(x) /\ MoverInv
  BY DEF HeapInv
<1>2. Unused(x)
  BY <1>1, UnusedFacts
<1>3. ~AtMover(x)
  <2>1. ASSUME AtMover(x)
        PROVE  FALSE
    <3>1. slab_rebalance_signal = 2 /\ ~slab_rebal.done /\ x = Pos
      BY <2>1 DEF TypeInv, RebalInv, AtMover
    <3>2. /\ slab_rebal.s_clsid \in Classes /\ slab_list[slab_rebal.s_clsid] \in Seq(Pages)
          /\ MovingPage \in Pages /\ Contains(slab_list[slab_rebal.s_clsid], MovingPage)
          /\ Contains(PageChunks(MovingPage, slab_rebal.s_clsid), x)
      BY <3>1, MovingFacts, PosFacts
    <3>3. Owned(x, slab_rebal.s_clsid)
      BY <3>2, ChunksInFacts DEF Owned
    <3> QED
      BY <3>2, <3>3
  <2> QED
    BY <2>1
<1>4. Cardinality(Holders(x)) = 0
  <2>1. Holders(x) = {}
    BY <1>2 DEF Holders, Unused
  <2> QED
    BY <2>1, FS_EmptySet
<1>5. item[x].refcount = 0
  <2>1. Refs(x) = 0
    BY <1>2, <1>3, <1>4, RefsFacts DEF One, Unused
  <2> QED
    BY <1>1, <2>1 DEF ChunkInv, CountInv
<1> QED
  BY <1>2, <1>5 DEF Spare, Unused

LEMMA FreeListSpare ==
  ASSUME TypeInv, HeapInv, NEW c \in Classes, slots[c] # <<>> \/ MayGrow(c)
  PROVE  /\ IsInjective(FreeList(c))
         /\ \A x : Contains(FreeList(c), x) => Spare(x, c)
         /\ \A x : Contains(slots[c], x) => Contains(FreeList(c), x)
<1>1. slots[c] \in Seq(Chunks) /\ IsInjective(slots[c])
  BY DEF TypeInv, MemoryInv, HeapInv, ListInv
<1>2. CASE slots[c] # <<>>
  <2>1. FreeList(c) = slots[c]
    BY <1>2 DEF FreeList
  <2>2. \A x : Contains(slots[c], x) => x \in Chunks
    BY <1>1 DEF Contains
  <2> QED
    BY <1>1, <2>1, <2>2, SpareSlot
<1>3. CASE slots[c] = <<>>
  <2>1. /\ IsInjective(FreeList(c)) /\ FreeList(c) \in Seq(Chunks)
        /\ \A x : Contains(FreeList(c), x) <=> Contains(PageChunks(NextPage, c), x)
    BY <1>3, FreeListFacts
  <2>2. NextPage \in Pages /\ \A d \in Classes : ~Contains(slab_list[d], NextPage)
    BY <1>3, NextPageFacts
  <2>3. ASSUME NEW x, Contains(FreeList(c), x)
        PROVE  Spare(x, c)
    <3>1. x \in Chunks
      BY <2>1, <2>3 DEF Contains
    <3>2. PICK i \in 1..PerSlab[c] : x = <<NextPage, i>>
      BY <2>1, <2>2, <2>3, PageFacts
    <3>3. \A d \in Classes : ~Owned(x, d)
      BY <2>2, <3>2, OwnedPage
    <3> QED
      BY <3>1, <3>3, SparePage
  <2>4. \A x : ~Contains(slots[c], x)
    BY <1>3 DEF Contains
  <2> QED
    BY <2>1, <2>3, <2>4
<1> QED
  BY <1>2, <1>3

\* What is allocated is of the class; what had a class keeps it.
LEMMA AllocPages ==
  ASSUME TypeInv, HeapInv, NEW c \in Classes, slots[c] # <<>> \/ MayGrow(c),
         slab_list' = IF slots[c] = <<>> THEN [slab_list EXCEPT ![c] = Append(@, NextPage)]
                      ELSE slab_list,
         UNCHANGED movevars
  PROVE  /\ Still
         /\ \A h \in Chunks, d \in Classes : Owned(h, d) => Owned(h, d)'
         /\ \A x \in Chunks : Contains(FreeList(c), x) => Owned(x, c)'
<1>1. CASE slots[c] # <<>>
  <2>1. slab_list' = slab_list /\ FreeList(c) = slots[c]
    BY <1>1 DEF FreeList
  <2>2. ASSUME NEW x \in Chunks, Contains(slots[c], x)
        PROVE  Owned(x, c)
    BY <2>2 DEF HeapInv, ChunkInv, SlotInv
  <2> QED
    BY <2>1, <2>2, StillHere
<1>2. CASE slots[c] = <<>>
  <2>1. MayGrow(c) /\ slab_list' = [slab_list EXCEPT ![c] = Append(@, NextPage)]
    BY <1>2
  <2>2. /\ PagesInv'
        /\ \A d \in Classes : \A p : Contains(slab_list'[d], p)
                                     <=> Contains(slab_list[d], p) \/ (d = c /\ p = NextPage)
        /\ \A d \in Classes : slab_list[d] # <<>> => slab_list'[d][1] = slab_list[d][1]
    BY <2>1, GrowTypes
  <2>3. \A d \in Classes : slab_list[d] \in Seq(Pages) /\ slab_list'[d] \in Seq(Pages)
    BY <2>2 DEF PagesInv, TypeInv
  <2>4. ASSUME NEW h \in Chunks, NEW d \in Classes
        PROVE  (Owned(h, d) => Owned(h, d)')
               /\ (d = c /\ Contains(PageChunks(NextPage, c), h) => Owned(h, d)')
    <3>1. Owned(h, d) => \E p \in Pages : Contains(slab_list[d], p)
                                          /\ Contains(PageChunks(p, d), h)
      BY <2>3, ChunksInFacts DEF Owned
    <3>2. (\E p \in Pages : Contains(slab_list'[d], p) /\ Contains(PageChunks(p, d), h))
          => h \in ChunksIn(slab_list'[d], d)
      BY <2>3, ChunksInFacts
    <3>3. h \in ChunksIn(slab_list'[d], d) => Owned(h, d)'
      BY DEF Owned
    <3>4. NextPage \in Pages
      BY <2>1, NextPageFacts
    <3> QED
      BY <2>2, <3>1, <3>2, <3>3, <3>4
  <2>5. \A x \in Chunks : Contains(FreeList(c), x) => Owned(x, c)'
    <3>1. \A x : Contains(FreeList(c), x) <=> Contains(PageChunks(NextPage, c), x)
      BY <1>2, FreeListFacts
    <3> QED
      BY <2>4, <3>1
  <2>6. Still
    <3>1. slab_rebal' = slab_rebal /\ slab_rebalance_signal' = slab_rebalance_signal
          /\ moving' = moving
      BY DEF movevars
    <3>2. ASSUME slab_rebalance_signal # 0
          PROVE  MovingPage' = MovingPage
      <4>1. PICK s : s = slab_rebal.s_clsid
        OBVIOUS
      <4>2. s \in Classes /\ Len(slab_list[s]) >= 2
        BY <3>2, <4>1 DEF TypeInv, RebalInv
      <4>3. slab_list[s] # <<>>
        BY <2>3, <4>2
      <4>4. slab_list'[s][1] = slab_list[s][1]
        BY <2>2, <4>2, <4>3
      <4> QED
        BY <3>1, <4>1, <4>4 DEF MovingPage
    <3> QED
      BY <3>1, <3>2 DEF Still
  <2> QED
    BY <2>4, <2>5, <2>6
<1> QED
  BY <1>1, <1>2

\* What Take() makes of a worker's command.
Taken(o, h) == [o EXCEPT !.at = "init", !.search = None, !.tries = 0, !.hold = None,
                         !.it = IF o.old # None THEN o.it ELSE h,
                         !.new = IF o.old # None THEN h ELSE o.new]

\* The worker's hands then: a chunk that is not initialised, and its own.
LEMMA TakeHands ==
  ASSUME TypeInv, HeapInv, NEW w \in Workers, At(w, "search"), NEW h \in Chunks,
         ~HasRef(op[w], h),
         NEW q, q = Taken(op[w], h)
  PROVE  /\ HasRef(q, h) /\ IsRaw(q, h) /\ IsNew(q, h) /\ q.cls = op[w].cls
         /\ \A g \in Chunks : ~Frees(q, g)
         /\ \A g \in Chunks \ {h} : Aside(op[w], q, g)
         /\ Distinct(q) /\ \A l : AtLinked(q, l)
<1>1. op[w] \in Command /\ Shape(op[w]) /\ op[w] # Idle /\ op[w].at = "search"
      /\ op[w].free = None
  BY AtFacts DEF At
<1>2. /\ op[w].do \in {"set", "append"} /\ op[w].new = None /\ (op[w].old = None <=> op[w].it = None)
  BY <1>1 DEF Shape, Stores
<1>3. PICK it, new : /\ it = IF op[w].old # None THEN op[w].it ELSE h
                     /\ new = IF op[w].old # None THEN h ELSE op[w].new
  OBVIOUS
<1>4. q = [op[w] EXCEPT !.at = "init", !.search = None, !.tries = 0, !.hold = None,
                        !.it = it, !.new = new]
  BY <1>3 DEF Taken
<1>5. /\ q.it = it /\ q.new = new /\ q.old = op[w].old /\ q.cls = op[w].cls
      /\ q.do = op[w].do /\ q.free = None /\ q.at = "init"
  BY <1>1, <1>4 DEF Command
<1>6. q # Idle
  BY <1>2, <1>5 DEF Idle
<1>7. Distinct(op[w])
  BY DEF HeapInv, DistinctInv
<1>8. op[w].it # h /\ op[w].old # h
  BY <1>1 DEF HasRef
<1>9. HasRef(q, h) /\ IsRaw(q, h) /\ IsNew(q, h)
  BY <1>2, <1>3, <1>5, <1>6 DEF HasRef, IsRaw, IsNew
<1>10. \A g \in Chunks : ~Frees(q, g)
  BY <1>5, NoneFacts DEF Frees
<1>11. ASSUME NEW g \in Chunks \ {h}
       PROVE  Aside(op[w], q, g)
  <2>1. HasRef(q, g) <=> HasRef(op[w], g)
    BY <1>1, <1>2, <1>3, <1>5, <1>6, NoneFacts DEF HasRef
  <2>2. IsNew(q, g) => IsNew(op[w], g)
    BY <1>1, <1>2, <1>3, <1>5, <1>6, NoneFacts DEF IsNew
  <2>3. ~IsRaw(q, g) /\ ~IsRaw(op[w], g)
    BY <1>1, <1>3, <1>5 DEF IsRaw
  <2> QED
    BY <1>5, <1>10, <2>1, <2>2, <2>3 DEF Aside
<1>12. Distinct(q)
  BY <1>1, <1>2, <1>3, <1>5, <1>7, <1>8, NoneFacts DEF Distinct
<1>13. \A l : AtLinked(q, l)
  BY <1>5 DEF AtLinked
<1> QED
  BY <1>5, <1>9, <1>10, <1>11, <1>12, <1>13

\* The chunk do_slabs_alloc() returns, and the others of a page it has split.
LEMMA SlabsAllocHeap ==
  ASSUME TypeInv, HeapInv, NEW w \in Workers, At(w, "search"), SlabsAlloc(w), UNCHANGED movevars,
         item_locks' \in [Keys -> Workers \cup {None}], raced' \subseteq {"unlock", "unlink", "lists"}
  PROVE  HeapInv'
<1>1. PICK c : c = op[w].cls
  OBVIOUS
<1>2. c \in Classes
  BY <1>1, AtFacts DEF At, Command
<1>3. PICK free : free = FreeList(c)
  OBVIOUS
<1>4. /\ slots[c] # <<>> \/ MayGrow(c)
      /\ slots' = [slots EXCEPT ![c] = Tail(free)]
      /\ slab_list' = IF slots[c] = <<>> THEN [slab_list EXCEPT ![c] = Append(@, NextPage)]
                      ELSE slab_list
      /\ item' = [g \in Chunks |->
                     IF g = Head(free) THEN [Slabbed(item[g]) EXCEPT !.refcount = 1]
                     ELSE IF g \in ToSet(free) THEN Slabbed(item[g]) ELSE item[g]]
      /\ Take(w, Head(free)) /\ lru' = lru
  BY <1>1, <1>3 DEF SlabsAlloc, FreeList
<1>5. free \in Seq(Chunks) /\ free # <<>>
  BY <1>2, <1>3, <1>4, FreeListFacts
<1>6. /\ IsInjective(free) /\ \A x : Contains(free, x) => Spare(x, c)
      /\ \A x : Contains(slots[c], x) => Contains(free, x)
  BY <1>2, <1>3, <1>4, FreeListSpare
<1>7. PICK h \in Chunks, rest \in Seq(Chunks) : h = Head(free) /\ rest = Tail(free)
  BY <1>5, TailFacts
<1>8. /\ Contains(free, h) /\ IsInjective(rest) /\ ~Contains(rest, h)
      /\ \A g : Contains(free, g) <=> g = h \/ Contains(rest, g)
  BY <1>5, <1>6, <1>7, TailFacts
<1>9. /\ Still
      /\ \A g \in Chunks, d \in Classes : Owned(g, d) => Owned(g, d)'
      /\ \A x \in Chunks : Contains(free, x) => Owned(x, c)'
  BY <1>2, <1>3, <1>4, AllocPages
<1>10. PICK q : q = Taken(op[w], h)
  OBVIOUS
<1>11. op' = [op EXCEPT ![w] = q]
  <2>1. moving' = moving /\ Take(w, h)
    BY <1>4, <1>7 DEF movevars
  <2> QED
    BY <1>10, <2>1, TakeTypes DEF Taken
<1>12. Spare(h, c) /\ ~HasRef(op[w], h)
  BY <1>6, <1>8 DEF Spare
<1>13. /\ HasRef(q, h) /\ IsRaw(q, h) /\ IsNew(q, h) /\ q.cls = c
       /\ \A g \in Chunks : ~Frees(q, g)
       /\ \A g \in Chunks \ {h} : Aside(op[w], q, g)
       /\ Distinct(q) /\ \A l : AtLinked(q, l)
  BY <1>1, <1>10, <1>12, TakeHands
<1>14. \A d \in Classes : slots'[d] = IF d = c THEN rest ELSE slots[d]
  BY <1>2, <1>4, <1>7 DEF TypeInv, MemoryInv
<1>15. ASSUME NEW x \in Chunks, Contains(free, x)
       PROVE  /\ "SLABBED" \in item'[x].flags /\ item'[x].slabs_clsid = 0 /\ ~Linked(x)'
              /\ item'[x].refcount = IF x = h THEN 1 ELSE 0
  <2>1. item[x] \in Item
    BY DEF TypeInv, MemoryInv
  <2>2. PICK i : i = Slabbed(item[x])
    OBVIOUS
  <2>3. /\ i \in Item /\ "SLABBED" \in i.flags /\ i.slabs_clsid = 0
        /\ i.refcount = item[x].refcount /\ ("LINKED" \in i.flags <=> "LINKED" \in item[x].flags)
    BY <2>1, <2>2, SlabbedFacts
  <2>4. item[x].refcount = 0 /\ "LINKED" \notin item[x].flags
    BY <1>6, <1>15 DEF Spare, Linked
  <2>5. x \in ToSet(free)
    BY <1>5, <1>15, ToSetFacts
  <2>6. item'[x] = IF x = h THEN [i EXCEPT !.refcount = 1] ELSE i
    BY <1>4, <1>7, <2>2, <2>5
  <2>7. CASE x = h
    <3>1. item'[x].flags = i.flags /\ item'[x].slabs_clsid = 0 /\ item'[x].refcount = 1
      BY <2>3, <2>6, <2>7 DEF Item
    <3> QED
      BY <2>3, <2>4, <2>7, <3>1 DEF Linked
  <2>8. CASE x # h
    BY <2>3, <2>4, <2>6, <2>8 DEF Linked
  <2> QED
    BY <2>7, <2>8
<1>16. ASSUME NEW x \in Chunks, Contains(free, x)
       PROVE  Changes(x)
  <2>1. Spare(x, c) /\ ChunkInv(x) /\ (AtMover(x)' <=> AtMover(x)) /\ Owned(x, c)'
    BY <1>6, <1>9, <1>16, StillFacts DEF HeapInv
  <2>2. item'[x].slabs_clsid = 0 /\ ~Linked(x)'
    BY <1>15, <1>16
  <2>3. \A v \in Workers : ~HasRef(op[v], x) /\ ~Frees(op[v], x) /\ ~IsNew(op[v], x)
    BY <2>1 DEF Spare, IsNew, HasRef
  <2>4. x # h => ~HasRef(q, x) /\ ~IsNew(q, x)
    BY <1>13, <2>3 DEF Aside
  <2>5. Hands(w, q, x)
    BY <1>13, <2>1, <2>2, <2>3, <2>4 DEF Hands, Alone
  <2>6. Counted(w, q, x)
    <3>1. item[x].refcount = 0 /\ One(Linked(x)) = 0 /\ One(Linked(x)') = 0
          /\ One(HasRef(op[w], x)) = 0
      BY <2>1, <2>2, <2>3 DEF Spare, One
    <3>2. item'[x].refcount = IF x = h THEN 1 ELSE 0
      BY <1>15, <1>16
    <3>3. One(HasRef(q, x)) = IF x = h THEN 1 ELSE 0
      BY <1>13, <2>4 DEF One
    <3> QED
      BY <3>1, <3>2, <3>3 DEF Counted
  <2>7. LinkedInv(x)'
    BY <1>4, <2>1, <2>2 DEF LinkedInv, Spare
  <2>8. SlotInv(x)'
    <3>1. ASSUME NEW d \in Classes, Contains(slots'[d], x)
          PROVE  d = c /\ x # h
      <4>1. CASE d = c
        BY <1>8, <1>14, <3>1, <4>1
      <4>2. CASE d # c
        BY <1>14, <2>1, <3>1, <4>2 DEF Spare
      <4> QED
        BY <4>1, <4>2
    <3>2. x # h => item'[x].refcount = 0 /\ "SLABBED" \in item'[x].flags
      BY <1>15, <1>16
    <3> QED
      BY <2>1, <2>2, <3>1, <3>2 DEF SlotInv
  <2>9. item'[x].slabs_clsid # 255
    BY <2>2
  <2>10. ChunkInv(x)'
    BY <1>11, <2>1, <2>5, <2>6, <2>7, <2>8, <2>9, HandsChunk
  <2> QED
    BY <2>1, <2>9, <2>10 DEF Changes, Spare
<1>17. ASSUME NEW x \in Chunks, ~Contains(free, x)
       PROVE  Leaves(w, q, x)
  <2>1. x # h /\ x \notin ToSet(free)
    BY <1>5, <1>8, <1>17, ToSetFacts
  <2>2. item'[x] = item[x]
    BY <1>4, <1>7, <2>1
  <2>3. \A d \in Classes : Contains(slots'[d], x) => Contains(slots[d], x)
    BY <1>8, <1>14, <1>17
  <2> QED
    BY <1>4, <1>13, <2>1, <2>2, <2>3 DEF Leaves
<1>18. ListInv' /\ \A v \in Workers \ {w} : AtLinked(op[v], lru')
  BY <1>4, <1>8, <1>14 DEF HeapInv, ListInv, SearchInv
<1>19. \A x \in Chunks : Leaves(w, q, x) \/ Changes(x)
  BY <1>16, <1>17
<1>20. Distinct(q) /\ AtLinked(q, lru')
  BY <1>13
<1> QED
  BY <1>9, <1>11, <1>18, <1>19, <1>20, WorkerFrame

\* The item is evicted: the table's reference becomes the worker's.
LEMMA EvictHeap ==
  ASSUME TypeInv, HeapInv, NEW w \in Workers, Searching(w), UNCHANGED movevars,
         NEW h \in Chunks, h = op[w].search, item[h].refcount = 1,
         item' = [item EXCEPT ![h].flags = @ \ {"LINKED"}, ![h].slabs_clsid = 0],
         lru' = [c \in Classes |-> RemoveFirst(lru[c], h)],
         Take(w, h), slots' = slots, slab_list' = slab_list,
         item_locks' \in [Keys -> Workers \cup {None}], raced' \subseteq {"unlock", "unlink", "lists"}
  PROVE  HeapInv'
<1>1. At(w, "search") /\ op[w].cls \in Classes
  BY PrevsFacts DEF Searching
<1>2. ChunkInv(h) /\ ListInv /\ SearchInv
  BY <1>1 DEF HeapInv
<1>3. Contains(lru[op[w].cls], h)
  BY <1>1, <1>2, NoneFacts DEF SearchInv, AtLinked, At
<1>4. Linked(h) /\ item[h].slabs_clsid = op[w].cls
  BY <1>1, <1>2, <1>3 DEF ChunkInv, LinkedInv
<1>5. /\ ~Unused(h) /\ Live(h)
      /\ \A v \in Workers : ~IsNew(op[v], h) /\ ~Frees(op[v], h)
      /\ \A c \in Classes : ~Contains(slots[c], h)
  BY <1>1, <1>2, <1>4, LinkedFacts
<1>6. \A v \in Workers : ~HasRef(op[v], h)
  BY <1>1, <1>2, <1>4, CountFacts DEF ChunkInv
<1>7. PICK q : q = Taken(op[w], h)
  OBVIOUS
<1>8. op' = [op EXCEPT ![w] = q]
  <2>1. moving' = moving
    BY DEF movevars
  <2> QED
    BY <1>1, <1>7, <2>1, TakeTypes DEF Taken
<1>9. /\ HasRef(q, h) /\ IsRaw(q, h) /\ IsNew(q, h) /\ q.cls = op[w].cls
      /\ \A g \in Chunks : ~Frees(q, g)
      /\ \A g \in Chunks \ {h} : Aside(op[w], q, g)
      /\ Distinct(q) /\ \A l : AtLinked(q, l)
  BY <1>1, <1>6, <1>7, TakeHands
<1>10. /\ item'[h].flags = item[h].flags \ {"LINKED"} /\ item'[h].slabs_clsid = 0
       /\ item'[h].refcount = 1 /\ \A g \in Chunks \ {h} : item'[g] = item[g]
  <2>1. PICK o, i : o = item[h] /\ i = [o EXCEPT !.flags = o.flags \ {"LINKED"}, !.slabs_clsid = 0]
    OBVIOUS
  <2>2. o \in Item /\ o.refcount = 1
    BY <1>1, <2>1 DEF TypeInv, MemoryInv
  <2>3. item' = [item EXCEPT ![h] = i]
    BY <1>1, <2>1 DEF TypeInv, MemoryInv
  <2>4. item'[h] = i /\ \A g \in Chunks \ {h} : item'[g] = item[g]
    BY <1>1, <2>3 DEF TypeInv, MemoryInv
  <2>5. i.flags = o.flags \ {"LINKED"} /\ i.slabs_clsid = 0 /\ i.refcount = 1
    BY <2>1, <2>2 DEF Item
  <2> QED
    BY <2>1, <2>4, <2>5
<1>11. \A c \in Classes : /\ IsInjective(lru'[c])
                          /\ \A g : Contains(lru'[c], g) <=> Contains(lru[c], g) /\ g # h
  BY <1>2, OffLists
<1>12. ~Linked(h)'
  BY <1>10 DEF Linked
<1>13. Owned(h, q.cls)'
  <2>1. PICK c : c = q.cls
    OBVIOUS
  <2>2. c \in Classes /\ h \in ChunksIn(slab_list[c], c)
    BY <1>4, <1>5, <1>9, <2>1 DEF Live, Owned
  <2> QED
    BY <2>1, <2>2 DEF Owned
<1>14. Hands(w, q, h)
  BY <1>1, <1>5, <1>6, <1>9, <1>10, <1>12, <1>13 DEF Hands, Alone
<1>15. Counted(w, q, h)
  <2>1. One(Linked(h)) = 1 /\ One(Linked(h)') = 0 /\ One(HasRef(q, h)) = 1
        /\ One(HasRef(op[w], h)) = 0
    BY <1>4, <1>6, <1>9, <1>12 DEF One
  <2>2. item[h].refcount = 1 /\ item'[h].refcount = 1
    BY <1>10
  <2> QED
    BY <2>1, <2>2 DEF Counted
<1>16. LinkedInv(h)'
  BY <1>11, <1>12 DEF LinkedInv
<1>17. SlotInv(h)'
  BY <1>5 DEF SlotInv
<1>18. \A g \in Chunks \ {h} : Leaves(w, q, g)
  BY <1>9, <1>10, <1>11 DEF Leaves
<1>19. ListInv'
  BY <1>2, <1>11 DEF ListInv
<1>20. \A v \in Workers \ {w} : AtLinked(op[v], lru')
  <2>1. cache_lock = w
    BY <1>1 DEF TypeInv, CacheInv, At
  <2>2. cache_lock \notin Workers \ {w}
    BY <2>1
  <2> QED
    BY <1>2, <2>2, OneSearch
<1>21. Distinct(q) /\ AtLinked(q, lru')
  BY <1>9
<1>22. item'[h].slabs_clsid # 255
  <2>1. PICK c : c = item'[h].slabs_clsid
    OBVIOUS
  <2>2. c = 0
    BY <1>10, <2>1
  <2> QED
    BY <2>1, <2>2
<1>23. ~Unused(h) /\ UNCHANGED movevars /\ slab_list' = slab_list
  BY <1>5
<1>24. /\ Still /\ (AtMover(h)' <=> AtMover(h))
       /\ \A g \in Chunks, c \in Classes : Owned(g, c) => Owned(g, c)'
  BY <1>23, StillHere
<1>25. ChunkInv(h)'
  <2>1. LinkedInv(h)' /\ SlotInv(h)' /\ ChunkInv(h)
    BY <1>2, <1>16, <1>17
  <2>2. (AtMover(h)' <=> AtMover(h)) /\ Hands(w, q, h) /\ Counted(w, q, h)
    BY <1>14, <1>15, <1>24
  <2>3. op' = [op EXCEPT ![w] = q] /\ item'[h].slabs_clsid # 255
    BY <1>8, <1>22, ZenonT(60)
  <2> QED
    BY <2>1, <2>2, <2>3, HandsChunk, ZenonT(60)
<1>26. \A g \in Chunks : Leaves(w, q, g) \/ Changes(g)
  BY <1>5, <1>18, <1>22, <1>25 DEF Changes
<1> QED
  BY <1>8, <1>19, <1>20, <1>21, <1>24, <1>26, WorkerFrame

LEMMA FoundHeap ==
  ASSUME TypeInv, HeapInv, NEW w \in Workers, Found(w)
  PROVE  HeapInv'
<1>1. Searching(w) /\ At(w, "search") /\ UnlockHold(w) /\ UNCHANGED movevars
  BY DEF Found, Searching
<1>2. item_locks' \in [Keys -> Workers \cup {None}] /\ raced' \subseteq {"unlock", "unlink", "lists"}
  BY <1>1, UnlockHoldTypes
<1>3. CASE SlabsAlloc(w)
  BY <1>1, <1>2, <1>3, SlabsAllocHeap
<1>4. CASE ~SlabsAlloc(w)
  <2>1. PICK h \in Chunks : h = op[w].search
    BY <1>1, PrevsFacts
  <2>2. /\ item' = [item EXCEPT ![h].flags = @ \ {"LINKED"}, ![h].slabs_clsid = 0]
        /\ lru' = [c \in Classes |-> RemoveFirst(lru[c], h)] /\ item[h].refcount = 1
        /\ Take(w, h) /\ slots' = slots /\ slab_list' = slab_list
    BY <1>4, <2>1 DEF Found
  <2> QED
    BY <1>1, <1>2, <2>1, <2>2, EvictHeap
<1> QED
  BY <1>3, <1>4

LEMMA ExhaustedHeap ==
  ASSUME TypeInv, HeapInv, NEW w \in Workers, Exhausted(w)
  PROVE  HeapInv'
<1>1. At(w, "search") /\ UNCHANGED movevars /\ item_locks' = item_locks /\ raced' = raced
  BY DEF Exhausted
<1>2. item_locks' \in [Keys -> Workers \cup {None}] /\ raced' \subseteq {"unlock", "unlink", "lists"}
  BY <1>1, LocksKept
<1>3. CASE SlabsAlloc(w)
  BY <1>1, <1>2, <1>3, SlabsAllocHeap
<1>4. CASE ~SlabsAlloc(w)
  <2>1. op[w] \in Command /\ Shape(op[w]) /\ op[w] # Idle /\ op[w].at = "search"
        /\ op[w].free = None
    BY <1>1, AtFacts DEF At
  <2>2. UNCHANGED memvars
    BY <1>4 DEF Exhausted
  <2>5. PICK q \in Refused(w) : op' = [op EXCEPT ![w] = q]
    BY <1>4 DEF Exhausted
  <2>3. CASE op[w].old = None
    <3>1. op[w].it = None /\ op[w].new = None
      BY <2>1, <2>3 DEF Shape
    <3>2. /\ q # Idle => /\ q.at = "lock" /\ q.it = None /\ q.old = None /\ q.new = None
                         /\ q.free = None
      BY <1>1, <2>3, RefusedFacts
    <3>3. (\A h \in Chunks : Aside(op[w], q, h)) /\ Distinct(q)
      BY <2>1, <2>3, <3>1, <3>2, AsideEmpty
    <3>4. AtLinked(q, lru)
      BY <3>2 DEF AtLinked
    <3> QED
      BY <1>1, <2>2, <2>5, <3>3, <3>4, QuietHeap
  <2>4. CASE op[w].old # None
    <3>2. op' = [op EXCEPT ![w] = q]
      BY <2>5
    <3>3. q \in Command
      BY <1>1, <2>4, RefusedFacts
    <3>4. /\ q.it = op[w].it /\ q.old = op[w].old /\ q.new = op[w].new /\ q.cls = op[w].cls
          /\ q.do = op[w].do /\ q.free = op[w].free /\ q.at = "drop"
      BY <1>1, <2>4, RefusedFacts
    <3>5. Distinct(op[w])
      BY DEF HeapInv, DistinctInv
    <3>6. (\A g : Aside(op[w], q, g)) /\ Distinct(q)
      BY <2>1, <3>3, <3>4, <3>5, AsideAt
    <3>7. AtLinked(q, lru)
      BY <3>4 DEF AtLinked
    <3> QED
      BY <1>1, <2>2, <3>2, <3>6, <3>7, QuietHeap
  <2> QED
    BY <2>3, <2>4
<1> QED
  BY <1>3, <1>4

-----------------------------------------------------------------------------
(***************************************************************************)
(* A step of the mover.                                                    *)
(***************************************************************************)
\* A chunk of which the mover changes the count and the place in the lists.
LEMMA MoverTouch ==
  ASSUME TypeInv, NEW h \in Chunks, ChunkInv(h), op' = op, slab_list' = slab_list,
         item'[h].slabs_clsid = item[h].slabs_clsid,
         "SLABBED" \in item'[h].flags <=> "SLABBED" \in item[h].flags,
         Linked(h)' => Linked(h),
         NEW n \in Int, NEW m \in Int, n = item[h].refcount, m = item'[h].refcount,
         m - One(Linked(h)') - One(AtMover(h)') = n - One(Linked(h)) - One(AtMover(h)),
         LinkedInv(h)', SlotInv(h)', ClearInv(h)'
  PROVE  ChunkInv(h)'
<1>1. \A c : Owned(h, c)' <=> Owned(h, c)
  BY DEF Owned
<1>2. Live(h) => Live(h)'
  <2>1. PICK c : c = item[h].slabs_clsid
    OBVIOUS
  <2> QED
    BY <2>1 DEF Live, Owned
<1>3. CountInv(h)'
  <2>1. Holders(h)' = Holders(h)
    BY DEF Holders
  <2>2. PICK k : k = Cardinality(Holders(h))
    OBVIOUS
  <2>3. k \in Nat /\ n = One(Linked(h)) + k + One(AtMover(h))
    BY <2>2, RefsFacts DEF ChunkInv, CountInv
  <2>4. Refs(h)' = One(Linked(h)') + k + One(AtMover(h)')
    BY <2>1, <2>2, RefsNext
  <2>5. PICK a, b, c, d : /\ a = One(Linked(h)) /\ b = One(Linked(h)')
                          /\ c = One(AtMover(h)) /\ d = One(AtMover(h)')
    OBVIOUS
  <2>6. a \in 0..1 /\ b \in 0..1 /\ c \in 0..1 /\ d \in 0..1
    BY <2>5 DEF One
  <2>7. m = b + k + d
    <3>1. n = a + k + c /\ m - b - d = n - a - c
      BY <2>3, <2>5
    <3>2. a \in Int /\ b \in Int /\ c \in Int /\ d \in Int /\ k \in Int
      BY <2>3, <2>6
    <3> QED
      BY <3>1, <3>2
  <2> QED
    BY <2>4, <2>5, <2>7 DEF CountInv
<1>4. HandleInv(h)'
  <2>1. ASSUME NEW v \in Workers, HasRef(op[v], h)
        PROVE  IF IsRaw(op[v], h) THEN Owned(h, op[v].cls)' /\ item'[h].slabs_clsid = 0
               ELSE Live(h)'
    <3>1. IF IsRaw(op[v], h) THEN Owned(h, op[v].cls) /\ item[h].slabs_clsid = 0 ELSE Live(h)
      BY <2>1 DEF ChunkInv, HandleInv
    <3>2. Owned(h, op[v].cls) => Owned(h, op[v].cls)'
      BY DEF Owned
    <3> QED
      BY <1>2, <3>1, <3>2
  <2> QED
    BY <2>1 DEF HandleInv, HasRef, IsRaw
<1>5. NewInv(h)'
  <2>1. NewInv(h)
    BY DEF ChunkInv
  <2> QED
    BY <2>1 DEF NewInv, IsNew, HasRef, IsRaw
<1>6. FreedInv(h)'
  <2>1. FreedInv(h)
    BY DEF ChunkInv
  <2> QED
    BY <1>2, <2>1 DEF FreedInv, Frees, HasRef
<1> QED
  BY <1>3, <1>4, <1>5, <1>6 DEF ChunkInv

\* A chunk that no worker has in hand, and that has been cleared.
LEMMA ClearedChunk ==
  ASSUME TypeInv, NEW h \in Chunks, op' = op, Unused(h), item'[h].refcount = 0, ~Linked(h)',
         ~AtMover(h)', lru' = lru, SlotInv(h)', ClearInv(h)'
  PROVE  ChunkInv(h)'
<1>1. \A v \in Workers : ~HasRef(op'[v], h) /\ ~Frees(op'[v], h) /\ ~IsNew(op'[v], h)
  BY DEF Unused, HasRef, IsNew, Frees
<1>2. CountInv(h)'
  <2>1. Holders(h)' = {}
    BY <1>1 DEF Holders
  <2>2. Cardinality(Holders(h)') = 0
    BY <2>1, FS_EmptySet
  <2>3. One(Linked(h)') = 0 /\ One(AtMover(h)') = 0
    BY DEF One
  <2>4. Refs(h)' = 0
    BY <2>2, <2>3, RefsNext
  <2> QED
    BY <2>4 DEF CountInv
<1>3. LinkedInv(h)'
  BY DEF Unused, LinkedInv
<1>4. HandleInv(h)' /\ NewInv(h)' /\ FreedInv(h)'
  BY <1>1 DEF HandleInv, NewInv, FreedInv, HasRef, IsNew, Frees
<1> QED
  BY <1>2, <1>3, <1>4 DEF ChunkInv

\* The chunks the mover is not at.
LEMMA OtherChunks ==
  ASSUME TypeInv, HeapInv, op' = op, slab_list' = slab_list,
         slab_rebalance_signal = 2, slab_rebalance_signal' = 2,
         slab_rebal'.s_clsid = slab_rebal.s_clsid, NEW h,
         \A g \in Chunks \ {h} :
            /\ item'[g] = item[g] /\ ~AtMover(g) /\ ~AtMover(g)'
            /\ \A c \in Classes : /\ Contains(lru'[c], g) <=> Contains(lru[c], g)
                                  /\ Contains(slots'[c], g) => Contains(slots[c], g)
  PROVE  \A g \in Chunks \ {h} : ChunkInv(g)'
<1>1. MovingPage' = MovingPage
  BY DEF MovingPage
<1>2. ASSUME NEW g \in Chunks \ {h}
      PROVE  ChunkInv(g)'
  <2>1. g \in Chunks /\ ChunkInv(g) /\ item'[g] = item[g] /\ (AtMover(g)' <=> AtMover(g))
    BY DEF HeapInv
  <2>2. /\ \A c \in Classes : Contains(lru'[c], g) <=> Contains(lru[c], g)
        /\ \A c \in Classes : Contains(slots'[c], g) => Contains(slots[c], g)
    OBVIOUS
  <2>3. \A c \in Classes : Owned(g, c) => Owned(g, c)'
    BY DEF Owned
  <2>4. \A v \in Workers : Aside(op[v], op'[v], g)
    BY AsideSame
  <2>5. ClearInv(g)'
    BY <1>1, <2>1 DEF ChunkInv, ClearInv
  <2> QED
    BY <2>1, <2>2, <2>3, <2>4, <2>5, SameChunk
<1> QED
  BY <1>2

\* What the mover has passed stays cleared, the chunk it goes on from included
\* unless it was busy.
LEMMA PassFacts ==
  ASSUME TypeInv, MoverInv, slab_rebalance_signal = 2, ~slab_rebal.done, NEW busy \in {0, 1},
         Advance(busy), slab_list' = slab_list, slab_rebalance_signal' = 2, moving' = "none",
         \A h \in Chunks : item[h].slabs_clsid = 255 => item'[h].slabs_clsid = 255,
         busy = 0 => item'[Pos].slabs_clsid = 255
  PROVE  MoverInv'
<1>1. PICK r, q : r = slab_rebal /\ q = slab_rebal'
  OBVIOUS
<1>2. /\ q \in Cursor /\ q.s_clsid = r.s_clsid
      /\ q.pos = 1 \/ (q.pos = r.pos + 1 /\ (q.busy_items = 0 => r.busy_items = 0 /\ busy = 0))
  BY <1>1, AdvanceFacts
<1>3. MovingPage' = MovingPage
  BY <1>1, <1>2 DEF MovingPage
<1>4. r.pos \in 1..PerSlab[r.s_clsid] /\ r.s_clsid \in Classes /\ MovingPage \in Pages
      /\ PerSlab[r.s_clsid] \in Nat \ {0}
  BY <1>1, PosFacts, MovingFacts, ClassFacts
<1>5. ASSUME q.busy_items = 0, NEW i \in 1..(q.pos - 1)
      PROVE  item'[<<MovingPage, i>>].slabs_clsid = 255
  <2>1. q.pos = r.pos + 1 /\ r.busy_items = 0 /\ busy = 0
    BY <1>2, <1>5
  <2>2. i \in 1..r.pos
    BY <1>4, <1>5, <2>1
  <2>3. CASE i = r.pos
    <3>1. <<MovingPage, i>> = Pos
      BY <1>1, <2>3 DEF Pos
    <3> QED
      BY <2>1, <3>1
  <2>4. CASE i # r.pos
    <3>1. i \in 1..(r.pos - 1) /\ i \in 1..PerSlab[r.s_clsid]
      BY <1>4, <2>2, <2>4
    <3>2. item[<<MovingPage, i>>].slabs_clsid = 255
      BY <1>1, <2>1, <3>1 DEF MoverInv
    <3>3. <<MovingPage, i>> \in Chunks
      BY <1>4, <3>1, PageChunk
    <3> QED
      BY <3>2, <3>3
  <2> QED
    BY <2>3, <2>4
<1> QED
  BY <1>1, <1>3, <1>5 DEF MoverInv

\* The workers' commands and the lists they search are as they were.
LEMMA HeldLists ==
  ASSUME TypeInv, HeapInv, op' = op, lru' = lru \/ cache_lock = None
  PROVE  DistinctInv' /\ SearchInv'
<1>1. DistinctInv'
  BY DEF HeapInv, DistinctInv
<1>2. CASE lru' = lru
  BY <1>1, <1>2 DEF HeapInv, SearchInv
<1>3. CASE cache_lock = None
  <2>1. \A v \in Workers : ~(op[v] # Idle /\ op[v].at = "search")
    BY <1>3, NoneFacts DEF TypeInv, CacheInv
  <2> QED
    BY <1>1, <2>1 DEF SearchInv, AtLinked
<1> QED
  BY <1>1, <1>2, <1>3

\* A chunk whose count has been set.
LEMMA RefFields ==
  ASSUME TypeInv, NEW h \in Chunks, NEW n \in Int, item' = [item EXCEPT ![h].refcount = n]
  PROVE  /\ item'[h].refcount = n /\ item'[h].flags = item[h].flags
         /\ item'[h].slabs_clsid = item[h].slabs_clsid
         /\ \A g \in Chunks \ {h} : item'[g] = item[g]
<1>1. MemoryInv
  BY DEF TypeInv
<1>2. PICK o, i : o = item[h] /\ i = [o EXCEPT !.refcount = n]
  OBVIOUS
<1>3. o \in Item
  BY <1>1, <1>2 DEF MemoryInv
<1>4. item'[h] = i /\ \A g \in Chunks \ {h} : item'[g] = item[g]
  BY <1>1, <1>2, RefSet
<1>5. i.refcount = n /\ i.flags = o.flags /\ i.slabs_clsid = o.slabs_clsid
  BY <1>2, <1>3 DEF Item
<1> QED
  BY <1>2, <1>4, <1>5

LEMMA MovePassHeap ==
  ASSUME TypeInv, HeapInv, MovePass
  PROVE  HeapInv'
<1>1. /\ slab_rebalance_signal = 2 /\ slab_rebalance_signal' = 2 /\ ~slab_rebal.done
      /\ moving = "none" /\ moving' = "none" /\ op' = op /\ slab_list' = slab_list
      /\ item' = item /\ lru' = lru /\ slots' = slots
  BY DEF MovePass, Moves, memvars
<1>2. PICK busy \in {0, 1} : Advance(busy) /\ (busy = 0 => item[Pos].slabs_clsid = 255)
  BY DEF MovePass
<1>3. MoverInv'
  BY <1>1, <1>2, PassFacts DEF HeapInv
<1>4. slab_rebal'.s_clsid = slab_rebal.s_clsid
  BY <1>1, <1>2, AdvanceFacts
<1>5. \A g \in Chunks : ChunkInv(g)'
  <2>1. PICK h : h \notin Chunks
    BY NoneFacts
  <2>2. \A g \in Chunks \ {h} : ChunkInv(g)'
    BY <1>1, <1>4, OtherChunks DEF AtMover
  <2> QED
    BY <2>1, <2>2
<1>6. ListInv'
  BY <1>1 DEF HeapInv, ListInv
<1> QED
  BY <1>1, <1>3, <1>5, <1>6, HeldLists DEF HeapInv

\* The mover looks at the chunk it is at: what all its ways to go on share.
LEMMA MoveItemFrame ==
  ASSUME TypeInv, HeapInv, MoveItem, NEW h \in Chunks, h = Pos,
         \A g \in Chunks \ {h} :
            /\ item'[g] = item[g]
            /\ \A c \in Classes : /\ Contains(lru'[c], g) <=> Contains(lru[c], g)
                                  /\ Contains(slots'[c], g) => Contains(slots[c], g),
         item'[h].slabs_clsid = item[h].slabs_clsid,
         "SLABBED" \in item'[h].flags <=> "SLABBED" \in item[h].flags,
         Linked(h)' => Linked(h),
         NEW n \in Int, NEW m \in Int, n = item[h].refcount, m = item'[h].refcount,
         m - One(Linked(h)') - 1 = n - One(Linked(h)),
         LinkedInv(h)', SlotInv(h)', ListInv',
         moving' = "DONE" => m = 1 /\ \A w \in Workers : ~Frees(op[w], h)
  PROVE  HeapInv'
<1>1. /\ op' = op /\ cache_lock = None /\ slab_list' = slab_list /\ slab_rebal' = slab_rebal
      /\ slab_rebalance_signal' = slab_rebalance_signal /\ slab_rebalance_signal = 2
      /\ ~slab_rebal.done /\ moving = "none"
  BY DEF MoveItem, Moves
<1>2. item[h].slabs_clsid # 255 /\ (MoveFree \/ MoveLinked \/ MoveBusy)
  BY MoveItemTypes
<1>3. moving' # "none"
  BY <1>2 DEF MoveFree, MoveLinked, MoveBusy
<1>4. MovingPage' = MovingPage /\ Pos' = Pos
  BY <1>1 DEF MovingPage, Pos
<1>5. ~AtMover(h) /\ AtMover(h)' /\ \A g \in Chunks \ {h} : ~AtMover(g) /\ ~AtMover(g)'
  BY <1>1, <1>3, <1>4 DEF AtMover
<1>6. \A g \in Chunks \ {h} : ChunkInv(g)'
  <2>1. slab_rebalance_signal' = 2 /\ slab_rebal'.s_clsid = slab_rebal.s_clsid
    BY <1>1
  <2> QED
    BY <1>1, <1>5, <2>1, OtherChunks
<1>7. ChunkInv(h)'
  <2>1. ChunkInv(h)
    BY DEF HeapInv
  <2>2. ClearInv(h)'
    BY <1>1, <1>4, <2>1 DEF ChunkInv, ClearInv
  <2>3. m - One(Linked(h)') - One(AtMover(h)') = n - One(Linked(h)) - One(AtMover(h))
    <3>1. One(AtMover(h)') = 1 /\ One(AtMover(h)) = 0
      BY <1>5 DEF One
    <3>2. PICK a : a = n - One(Linked(h))
      OBVIOUS
    <3>3. a \in Int
      BY <3>2 DEF One
    <3> QED
      BY <3>1, <3>2, <3>3
  <2> QED
    BY <1>1, <2>1, <2>2, <2>3, MoverTouch
<1>8. MoverInv'
  <2>1. ASSUME slab_rebal.busy_items = 0, NEW i \in 1..(slab_rebal.pos - 1)
        PROVE  item'[<<MovingPage, i>>].slabs_clsid = 255
    <3>1. item[<<MovingPage, i>>].slabs_clsid = 255
      BY <1>1, <2>1 DEF HeapInv, MoverInv
    <3>2. /\ slab_rebal.pos \in 1..PerSlab[slab_rebal.s_clsid] /\ MovingPage \in Pages
          /\ slab_rebal.s_clsid \in Classes /\ PerSlab[slab_rebal.s_clsid] \in Nat \ {0}
      BY <1>1, PosFacts, MovingFacts, ClassFacts
    <3>3. i \in 1..PerSlab[slab_rebal.s_clsid]
      BY <3>2
    <3>4. <<MovingPage, i>> \in Chunks
      BY <3>2, <3>3, PageChunk
    <3> QED
      BY <1>2, <3>1, <3>4
  <2>2. item'[h].slabs_clsid # 255
    BY <1>2
  <2> QED
    BY <1>1, <1>4, <2>1, <2>2 DEF MoverInv, Frees
<1>9. DistinctInv' /\ SearchInv'
  BY <1>1, HeldLists
<1> QED
  BY <1>6, <1>7, <1>8, <1>9 DEF HeapInv

\* A free chunk: off the free list of its class.
LEMMA MoveFreeHeap ==
  ASSUME TypeInv, HeapInv, MoveItem, MoveFree
  PROVE  HeapInv'
<1>1. PICK h \in Chunks : h = Pos
  BY MoveItemTypes
<1>2. slab_rebalance_signal = 2 /\ ~slab_rebal.done /\ slab_list' = slab_list
  BY DEF MoveItem, Moves
<1>3. PICK s \in Classes : s = slab_rebal.s_clsid
  BY <1>2, MovingFacts
<1>4. /\ item[h].refcount = 0 /\ "SLABBED" \in item[h].flags /\ lru' = lru
      /\ slots' = [slots EXCEPT ![s] = RemoveFirst(@, h)]
      /\ item' = [item EXCEPT ![h].refcount = 1]
  BY <1>1, <1>3 DEF MoveFree
<1>5. ChunkInv(h) /\ ListInv
  BY DEF HeapInv
<1>6. \A c \in Classes : /\ IsInjective(slots'[c])
                         /\ \A g : Contains(slots'[c], g) <=> Contains(slots[c], g) /\ (c # s \/ g # h)
  BY <1>4, <1>5, OffSlots
<1>7. /\ item'[h].refcount = 1 /\ item'[h].flags = item[h].flags
      /\ item'[h].slabs_clsid = item[h].slabs_clsid
      /\ \A g \in Chunks \ {h} : item'[g] = item[g]
  <2>1. PICK n \in Int : n = 1
    OBVIOUS
  <2>2. item' = [item EXCEPT ![h].refcount = n]
    BY <1>4, <2>1
  <2> QED
    BY <2>1, <2>2, RefFields
<1>8. Owned(h, s)
  <2>1. PICK p, i : p = MovingPage /\ i = slab_rebal.pos
    OBVIOUS
  <2>2. p \in Pages /\ Contains(slab_list[s], p) /\ i \in 1..PerSlab[s] /\ h = <<p, i>>
    BY <1>1, <1>2, <1>3, <2>1, MovingFacts, PosFacts DEF Pos
  <2> QED
    BY <2>2, OwnedPage
<1>9. \A c \in Classes : ~Contains(slots'[c], h)
  <2>1. ASSUME NEW c \in Classes, Contains(slots'[c], h)
        PROVE  FALSE
    <3>1. Contains(slots[c], h) /\ c # s
      BY <1>6, <2>1
    <3>2. Owned(h, c)
      BY <1>5, <3>1 DEF ChunkInv, SlotInv
    <3> QED
      BY <1>8, <3>1, <3>2, OwnedOnce
  <2> QED
    BY <2>1
<1>10. (Linked(h)' <=> Linked(h)) /\ ~Linked(h)
  <2>1. ~Linked(h)
    BY <1>4, <1>5, CountFacts DEF ChunkInv
  <2> QED
    BY <1>7, <2>1 DEF Linked
<1>11. LinkedInv(h)'
  BY <1>4, <1>5, <1>10 DEF ChunkInv, LinkedInv
<1>12. SlotInv(h)'
  BY <1>9 DEF SlotInv
<1>13. ListInv'
  BY <1>4, <1>5, <1>6 DEF ListInv
<1>14. \A w \in Workers : ~Frees(op[w], h)
  BY <1>4, <1>5 DEF ChunkInv, FreedInv, Live
<1>15. PICK n \in Int, m \in Int : n = item[h].refcount /\ m = item'[h].refcount
  BY <1>4, <1>7
<1>16. m - One(Linked(h)') - 1 = n - One(Linked(h))
  <2>1. n = 0 /\ m = 1
    BY <1>4, <1>7, <1>15
  <2>2. One(Linked(h)') = 0 /\ One(Linked(h)) = 0
    BY <1>10 DEF One
  <2> QED
    BY <2>1, <2>2
<1>17. m = 1
  BY <1>7, <1>15
<1>18. \A g \in Chunks \ {h} :
          /\ item'[g] = item[g]
          /\ \A c \in Classes : /\ Contains(lru'[c], g) <=> Contains(lru[c], g)
                                /\ Contains(slots'[c], g) => Contains(slots[c], g)
  BY <1>4, <1>6, <1>7
<1> QED
  BY <1>1, <1>7, <1>10, <1>11, <1>12, <1>13, <1>14, <1>15, <1>16, <1>17, <1>18, MoveItemFrame

\* An item only the table refers to: unlinked.
LEMMA MoveLinkedHeap ==
  ASSUME TypeInv, HeapInv, MoveItem, MoveLinked
  PROVE  HeapInv'
<1>1. PICK h \in Chunks : h = Pos
  BY MoveItemTypes
<1>2. slab_list' = slab_list
  BY DEF MoveItem
<1>3. /\ item[h].refcount = 1 /\ Linked(h) /\ slots' = slots
      /\ item' = [item EXCEPT ![h].flags = @ \ {"LINKED"}]
      /\ lru' = [c \in Classes |-> RemoveFirst(lru[c], h)]
  BY <1>1 DEF MoveLinked
<1>4. ChunkInv(h) /\ ListInv
  BY DEF HeapInv
<1>5. \A c \in Classes : /\ IsInjective(lru'[c])
                         /\ \A g : Contains(lru'[c], g) <=> Contains(lru[c], g) /\ g # h
  BY <1>3, <1>4, OffLists
<1>6. /\ item'[h].flags = item[h].flags \ {"LINKED"} /\ item'[h].refcount = item[h].refcount
      /\ item'[h].slabs_clsid = item[h].slabs_clsid
      /\ \A g \in Chunks \ {h} : item'[g] = item[g]
  BY <1>3, UnflagSet
<1>7. ~Linked(h)' /\ ("SLABBED" \in item'[h].flags <=> "SLABBED" \in item[h].flags)
  BY <1>6 DEF Linked
<1>8. /\ \A w \in Workers : ~Frees(op[w], h)
      /\ \A c \in Classes : ~Contains(slots[c], h)
  BY <1>3, <1>4, LinkedFacts
<1>9. LinkedInv(h)'
  BY <1>5, <1>7 DEF LinkedInv
<1>10. SlotInv(h)'
  BY <1>3, <1>8 DEF SlotInv
<1>11. ListInv'
  BY <1>3, <1>4, <1>5 DEF ListInv
<1>12. PICK n \in Int, m \in Int : n = item[h].refcount /\ m = item'[h].refcount
  BY <1>3, <1>6
<1>13. m - One(Linked(h)') - 1 = n - One(Linked(h)) /\ m = 1
  <2>1. n = 1 /\ m = 1
    BY <1>3, <1>6, <1>12
  <2>2. One(Linked(h)') = 0 /\ One(Linked(h)) = 1
    BY <1>3, <1>7 DEF One
  <2> QED
    BY <2>1, <2>2
<1>14. \A g \in Chunks \ {h} :
          /\ item'[g] = item[g]
          /\ \A c \in Classes : /\ Contains(lru'[c], g) <=> Contains(lru[c], g)
                                /\ Contains(slots'[c], g) => Contains(slots[c], g)
  BY <1>3, <1>5, <1>6
<1> QED
  BY <1>1, <1>6, <1>7, <1>8, <1>9, <1>10, <1>11, <1>12, <1>13, <1>14, MoveItemFrame

\* Somebody has a reference to it: left where it is, with one more for a moment.
LEMMA MoveBusyHeap ==
  ASSUME TypeInv, HeapInv, MoveItem, MoveBusy
  PROVE  HeapInv'
<1>1. PICK h \in Chunks : h = Pos
  BY MoveItemTypes
<1>2. slab_list' = slab_list
  BY DEF MoveItem
<1>3. /\ ~(item[h].refcount = 0 /\ "SLABBED" \in item[h].flags)
      /\ slots' = slots /\ lru' = lru /\ moving' = "BUSY"
      /\ item' = [item EXCEPT ![h].refcount = item[h].refcount + 1]
  BY <1>1 DEF MoveBusy
<1>4. ChunkInv(h) /\ ListInv
  BY DEF HeapInv
<1>5. PICK n \in Int, m \in Int : n = item[h].refcount /\ m = n + 1
  <2>1. item[h].refcount \in Int
    BY DEF TypeInv, MemoryInv, Item
  <2> QED
    BY <2>1
<1>6. /\ item'[h].refcount = m /\ item'[h].flags = item[h].flags
      /\ item'[h].slabs_clsid = item[h].slabs_clsid
      /\ \A g \in Chunks \ {h} : item'[g] = item[g]
  <2>1. item' = [item EXCEPT ![h].refcount = m]
    BY <1>3, <1>5
  <2> QED
    BY <1>5, <2>1, RefFields
<1>7. Linked(h)' <=> Linked(h)
  BY <1>6 DEF Linked
<1>8. \A c \in Classes : ~Contains(slots[c], h)
  BY <1>3, <1>4 DEF ChunkInv, SlotInv
<1>9. \A c : Owned(h, c)' <=> Owned(h, c)
  BY <1>2 DEF Owned
<1>10. Live(h) => Live(h)'
  <2>1. PICK c : c = item[h].slabs_clsid
    OBVIOUS
  <2> QED
    BY <1>2, <1>6, <2>1 DEF Live, Owned
<1>11. LinkedInv(h)'
  BY <1>3, <1>4, <1>6, <1>7, <1>10 DEF ChunkInv, LinkedInv
<1>12. SlotInv(h)'
  BY <1>3, <1>8 DEF SlotInv
<1>13. ListInv'
  BY <1>3, <1>4 DEF ListInv
<1>14. m - One(Linked(h)') - 1 = n - One(Linked(h))
  <2>1. PICK a \in 0..1 : a = One(Linked(h)) /\ a = One(Linked(h)')
    BY <1>7 DEF One
  <2> QED
    BY <1>5, <2>1
<1>15. moving' # "DONE"
  BY <1>3
<1>16. \A g \in Chunks \ {h} :
          /\ item'[g] = item[g]
          /\ \A c \in Classes : /\ Contains(lru'[c], g) <=> Contains(lru[c], g)
                                /\ Contains(slots'[c], g) => Contains(slots[c], g)
  BY <1>3, <1>6
<1> QED
  BY <1>1, <1>5, <1>6, <1>7, <1>11, <1>12, <1>13, <1>14, <1>15, <1>16, MoveItemFrame

LEMMA MoveItemHeap ==
  ASSUME TypeInv, HeapInv, MoveItem
  PROVE  HeapInv'
<1>1. MoveFree \/ MoveLinked \/ MoveBusy
  BY MoveItemTypes
<1> QED
  BY <1>1, MoveFreeHeap, MoveLinkedHeap, MoveBusyHeap

\* The mover gives up the chunk it had looked at, cleared or as it was.
LEMMA MoveEndHeap ==
  ASSUME TypeInv, HeapInv, MoveEnd
  PROVE  HeapInv'
<1>1. /\ slab_rebalance_signal = 2 /\ slab_rebalance_signal' = 2 /\ ~slab_rebal.done
      /\ moving # "none" /\ moving' = "none" /\ op' = op /\ slab_list' = slab_list
      /\ lru' = lru /\ slots' = slots
  BY MoveEndTypes DEF MoveEnd
<1>2. PICK h \in Chunks : h = Pos
  BY MoveEndTypes
<1>3. PICK busy \in {0, 1} : Advance(busy) /\ (busy = 0 <=> moving = "DONE")
  BY DEF MoveEnd
<1>4. slab_rebal'.s_clsid = slab_rebal.s_clsid /\ MovingPage' = MovingPage
  <2>1. slab_rebal'.s_clsid = slab_rebal.s_clsid
    BY <1>1, <1>3, AdvanceFacts
  <2> QED
    BY <1>1, <2>1 DEF MovingPage
<1>5. AtMover(h) /\ (\A g : ~AtMover(g)') /\ \A g \in Chunks \ {h} : ~AtMover(g)
  BY <1>1, <1>2 DEF AtMover
<1>6. ChunkInv(h) /\ ListInv /\ MoverInv
  BY DEF HeapInv
<1>7. ListInv' /\ DistinctInv' /\ SearchInv'
  BY <1>1, <1>6, HeldLists DEF ListInv
<1>8. ASSUME \A g \in Chunks \ {h} : item'[g] = item[g], ChunkInv(h)',
             busy = 0 => item'[h].slabs_clsid = 255, item[h].slabs_clsid # 255
      PROVE  HeapInv'
  <2>1. \A g \in Chunks \ {h} : ChunkInv(g)'
    BY <1>1, <1>4, <1>5, <1>8, OtherChunks
  <2>2. \A g \in Chunks : item[g].slabs_clsid = 255 => item'[g].slabs_clsid = 255
    BY <1>8
  <2>3. busy = 0 => item'[Pos].slabs_clsid = 255
    BY <1>2, <1>8
  <2>4. MoverInv'
    BY <1>1, <1>3, <1>6, <2>2, <2>3, PassFacts
  <2> QED
    BY <1>7, <1>8, <2>1, <2>4 DEF HeapInv
<1>9. item[h].slabs_clsid # 255
  BY <1>1, <1>2, <1>6 DEF MoverInv
<1>10. CASE moving = "DONE"
  <2>1. PICK i : i = [Blank EXCEPT !.slabs_clsid = 255]
    OBVIOUS
  <2>2. item' = [item EXCEPT ![h] = i]
    BY <1>2, <1>10, <2>1 DEF MoveEnd
  <2>3. item'[h] = i /\ \A g \in Chunks \ {h} : item'[g] = item[g]
    BY <2>2 DEF TypeInv, MemoryInv
  <2>4. i.slabs_clsid = 255 /\ i.refcount = 0 /\ i.flags = {}
    BY <2>1 DEF Blank
  <2>5. Unused(h)
    BY <1>2, <1>6, <1>10, UnusedFacts
  <2>6. ~Linked(h)'
    BY <2>3, <2>4 DEF Linked
  <2>7. SlotInv(h)'
    BY <1>1, <2>5 DEF Unused, SlotInv
  <2>8. ClearInv(h)'
    <3>1. Contains(PageChunks(MovingPage, slab_rebal.s_clsid), h)
      BY <1>1, <1>2, PosFacts
    <3> QED
      BY <1>1, <1>4, <3>1 DEF ClearInv
  <2>9. ChunkInv(h)'
    BY <1>1, <1>5, <2>3, <2>4, <2>5, <2>6, <2>7, <2>8, ClearedChunk
  <2> QED
    BY <1>8, <1>9, <2>3, <2>4, <2>9
<1>11. CASE moving # "DONE"
  <2>1. PICK n \in Int, m \in Int : n = item[h].refcount /\ m = n - 1
    <3>1. item[h].refcount \in Int
      BY DEF TypeInv, MemoryInv, Item
    <3> QED
      BY <3>1
  <2>2. item' = [item EXCEPT ![h].refcount = m]
    BY <1>2, <1>11, <2>1 DEF MoveEnd
  <2>3. /\ item'[h].refcount = m /\ item'[h].flags = item[h].flags
        /\ item'[h].slabs_clsid = item[h].slabs_clsid
        /\ \A g \in Chunks \ {h} : item'[g] = item[g]
    BY <2>2, RefFields
  <2>4. Linked(h)' <=> Linked(h)
    BY <2>3 DEF Linked
  <2>5. item[h].refcount # 0
    BY <1>5, <1>6, CountFacts DEF ChunkInv
  <2>6. \A c \in Classes : ~Contains(slots[c], h)
    BY <1>6, <2>5 DEF ChunkInv, SlotInv
  <2>7. Live(h) => Live(h)'
    <3>1. PICK c : c = item[h].slabs_clsid
      OBVIOUS
    <3> QED
      BY <1>1, <2>3, <3>1 DEF Live, Owned
  <2>8. LinkedInv(h)'
    BY <1>1, <1>6, <2>3, <2>4, <2>7 DEF ChunkInv, LinkedInv
  <2>9. SlotInv(h)'
    BY <1>1, <2>6 DEF SlotInv
  <2>10. ClearInv(h)'
    BY <1>9, <2>3 DEF ClearInv
  <2>11. m - One(Linked(h)') - One(AtMover(h)') = n - One(Linked(h)) - One(AtMover(h))
    <3>1. PICK a \in 0..1 : a = One(Linked(h)) /\ a = One(Linked(h)')
      BY <2>4 DEF One
    <3>2. One(AtMover(h)) = 1 /\ One(AtMover(h)') = 0
      BY <1>5 DEF One
    <3> QED
      BY <2>1, <3>1, <3>2
  <2>12. ChunkInv(h)'
    BY <1>1, <1>6, <2>1, <2>3, <2>4, <2>8, <2>9, <2>10, <2>11, MoverTouch
  <2> QED
    BY <1>3, <1>8, <1>9, <1>11, <2>3, <2>12
<1> QED
  BY <1>10, <1>11

\* The mover is not at work on a page, before or after.
LEMMA RestHeap ==
  ASSUME TypeInv, HeapInv, op' = op, UNCHANGED memvars, slab_rebalance_signal # 2,
         moving' = moving, slab_rebalance_signal' = 2 => slab_rebal'.pos = 1
  PROVE  HeapInv'
<1>1. moving = "none" /\ moving' = "none"
  BY DEF TypeInv, RebalInv
<1>2. item' = item /\ slots' = slots /\ slab_list' = slab_list /\ lru' = lru
  BY DEF memvars
<1>3. ASSUME NEW h \in Chunks
      PROVE  ChunkInv(h)'
  <2>1. ChunkInv(h) /\ item'[h] = item[h]
    BY <1>2 DEF HeapInv
  <2>2. /\ \A c \in Classes : Contains(lru'[c], h) <=> Contains(lru[c], h)
        /\ \A c \in Classes : Contains(slots'[c], h) => Contains(slots[c], h)
        /\ \A c \in Classes : Owned(h, c) => Owned(h, c)'
    BY <1>2 DEF Owned
  <2>3. \A v \in Workers : Aside(op[v], op'[v], h)
    BY AsideSame
  <2>4. AtMover(h)' <=> AtMover(h)
    BY <1>1 DEF AtMover
  <2>5. ClearInv(h)'
    BY <2>1 DEF ChunkInv, ClearInv
  <2> QED
    BY <2>1, <2>2, <2>3, <2>4, <2>5, SameChunk
<1>4. ListInv' /\ DistinctInv' /\ SearchInv'
  BY <1>2, HeldLists DEF HeapInv, ListInv
<1>5. MoverInv'
  <2>1. ASSUME slab_rebalance_signal' = 2
        PROVE  \A i \in 1..(slab_rebal'.pos - 1) : FALSE
    <3>1. slab_rebal'.pos - 1 = 0
      BY <2>1
    <3> QED
      BY <3>1
  <2> QED
    BY <1>1, <2>1 DEF MoverInv
<1> QED
  BY <1>3, <1>4, <1>5 DEF HeapInv

LEMMA ReassignHeap ==
  ASSUME TypeInv, HeapInv, NEW src \in Classes, NEW dst \in Classes, Reassign(src, dst)
  PROVE  HeapInv'
<1>1. /\ op' = op /\ UNCHANGED memvars /\ slab_rebalance_signal # 2 /\ moving' = moving
      /\ slab_rebalance_signal' # 2
  BY DEF Reassign
<1> QED
  BY <1>1, RestHeap

LEMMA RebalanceStartHeap ==
  ASSUME TypeInv, HeapInv, RebalanceStart
  PROVE  HeapInv'
<1>1. op' = op /\ UNCHANGED memvars /\ slab_rebalance_signal # 2 /\ moving' = moving
  BY DEF RebalanceStart
<1>2. ASSUME slab_rebalance_signal' = 2
      PROVE  slab_rebal'.pos = 1
  <2>1. PICK r : r = slab_rebal
    OBVIOUS
  <2>2. r \in Cursor
    BY <2>1 DEF TypeInv, RebalInv
  <2>3. slab_rebal' = [r EXCEPT !.pos = 1, !.done = FALSE]
    BY <1>2, <2>1 DEF RebalanceStart
  <2> QED
    BY <2>2, <2>3 DEF Cursor
<1> QED
  BY <1>1, <1>2, RestHeap

\* One list in front of another.
LEMMA ConcatFacts ==
  ASSUME NEW S, NEW a \in Seq(S), NEW b \in Seq(S)
  PROVE  /\ \A g : Contains(a \o b, g) <=> Contains(a, g) \/ Contains(b, g)
         /\ IsInjective(a) /\ IsInjective(b) /\ (\A g : ~(Contains(a, g) /\ Contains(b, g)))
               => IsInjective(a \o b)
<1>1. PICK t : t = a \o b
  OBVIOUS
<1>2. PICK m \in Nat, n \in Nat : m = Len(a) /\ n = Len(b)
  OBVIOUS
<1>3. /\ t \in Seq(S) /\ Len(t) = m + n
      /\ \A i \in 1..m : t[i] = a[i]
      /\ \A i \in 1..n : t[m + i] = b[i]
  BY <1>1, <1>2
<1>4. \A i \in 1..(m + n) : i \in 1..m \/ (i - m \in 1..n /\ t[i] = b[i - m])
  BY <1>3
<1>5. ASSUME NEW g
      PROVE  Contains(t, g) <=> Contains(a, g) \/ Contains(b, g)
  <2>1. Contains(t, g) => Contains(a, g) \/ Contains(b, g)
    BY <1>2, <1>3, <1>4 DEF Contains
  <2>2. ASSUME Contains(a, g)
        PROVE  Contains(t, g)
    <3>1. PICK i \in 1..m : a[i] = g
      BY <1>2, <2>2 DEF Contains
    <3>2. i \in 1..Len(t) /\ t[i] = g
      BY <1>3, <3>1
    <3> QED
      BY <3>2 DEF Contains
  <2>3. ASSUME Contains(b, g)
        PROVE  Contains(t, g)
    <3>1. PICK i \in 1..n : b[i] = g
      BY <1>2, <2>3 DEF Contains
    <3>2. m + i \in 1..Len(t) /\ t[m + i] = g
      BY <1>3, <3>1
    <3> QED
      BY <3>2 DEF Contains
  <2> QED
    BY <2>1, <2>2, <2>3
<1>6. ASSUME IsInjective(a), IsInjective(b), \A g : ~(Contains(a, g) /\ Contains(b, g))
      PROVE  IsInjective(t)
  <2>1. \A i, j \in 1..m : a[i] = a[j] => i = j
    BY <1>2, <1>6 DEF IsInjective
  <2>2. \A i, j \in 1..n : b[i] = b[j] => i = j
    BY <1>2, <1>6 DEF IsInjective
  <2>3. \A i \in 1..m, j \in 1..n : a[i] # b[j]
    BY <1>2, <1>6 DEF Contains
  <2>4. ASSUME NEW i \in 1..(m + n), NEW j \in 1..(m + n), t[i] = t[j]
        PROVE  i = j
    <3>1. CASE i \in 1..m
      BY <1>3, <1>4, <2>1, <2>3, <2>4, <3>1
    <3>2. CASE i \notin 1..m
      <4>1. i - m \in 1..n /\ t[i] = b[i - m]
        BY <1>4, <3>2
      <4>2. j \notin 1..m
        BY <1>3, <2>3, <2>4, <4>1
      <4>3. j - m \in 1..n /\ t[j] = b[j - m]
        BY <1>4, <4>2
      <4>4. i - m = j - m
        BY <2>2, <2>4, <4>1, <4>3
      <4> QED
        BY <4>4
    <3> QED
      BY <3>1, <3>2
  <2>5. DOMAIN t = 1..(m + n)
    BY <1>3
  <2> QED
    BY <2>4, <2>5 DEF IsInjective
<1> QED
  BY <1>1, <1>5, <1>6

\* When the mover has been through, nothing of the page is in use.
LEMMA PageUnused ==
  ASSUME TypeInv, HeapInv, slab_rebal.done, NEW h \in Chunks, h[1] = MovingPage
  PROVE  Unused(h)
<1>1. slab_rebalance_signal = 2 /\ moving = "none"
  BY DEF TypeInv, RebalInv
<1>2. PICK s, p : s = slab_rebal.s_clsid /\ p = MovingPage
  OBVIOUS
<1>3. s \in Classes /\ p \in Pages /\ Contains(slab_list[s], p)
  BY <1>1, <1>2, MovingFacts
<1>4. PICK i \in Nat \ {0} : h = <<p, i>>
  BY <1>2, ChunkPage
<1>5. ChunkInv(h)
  BY DEF HeapInv
<1>6. CASE i \in 1..PerSlab[s]
  <2>1. slab_rebal.pos = PerSlab[s] + 1 /\ slab_rebal.busy_items = 0
    BY <1>2 DEF TypeInv, RebalInv
  <2>2. PerSlab[s] \in Nat
    BY <1>3, ClassFacts
  <2>3. i \in 1..(slab_rebal.pos - 1)
    BY <1>6, <2>1, <2>2
  <2>4. item[<<p, i>>].slabs_clsid = 255
    BY <1>1, <1>2, <2>1, <2>3 DEF HeapInv, MoverInv
  <2> QED
    BY <1>4, <1>5, <2>4, UnusedFacts
<1>7. CASE i \notin 1..PerSlab[s]
  <2>1. ASSUME NEW c \in Classes, Owned(h, c)
        PROVE  FALSE
    <3>1. Contains(slab_list[c], p) /\ i \in 1..PerSlab[c]
      BY <1>3, <1>4, <2>1, OwnedPage
    <3>2. slab_list[c] \in Seq(Pages) /\ slab_list[s] \in Seq(Pages)
      BY <1>3 DEF TypeInv, PagesInv
    <3>3. p \in ToSet(slab_list[c]) /\ p \in ToSet(slab_list[s])
      BY <1>3, <3>1, <3>2, ToSetFacts
    <3>4. c = s
      BY <1>3, <3>3 DEF TypeInv, PagesInv
    <3> QED
      BY <1>7, <3>1, <3>4
  <2> QED
    BY <1>5, <2>1, UnusedFacts
<1> QED
  BY <1>6, <1>7

\* The page has gone to the other class.
LEMMA FinishPages ==
  ASSUME TypeInv, NEW s \in Classes, NEW d \in Classes, NEW p \in Pages, NEW new,
         Finish(s, d, p, new)
  PROVE  /\ \A h \in Chunks, c \in Classes : Owned(h, c) /\ h[1] # p => Owned(h, c)'
         /\ \A h \in Chunks : Contains(PageChunks(p, d), h) => Owned(h, d)'
<1>1. /\ PagesInv'
      /\ \A c \in Classes : \A q :
            Contains(slab_list'[c], q)
            <=> (Contains(slab_list[c], q) /\ q # p) \/ (c = d /\ q = p)
  BY MovedPages DEF Finish
<1>2. \A c \in Classes : slab_list'[c] \in Seq(Pages) /\ slab_list[c] \in Seq(Pages)
  BY <1>1 DEF TypeInv, PagesInv
<1>3. \A c \in Classes : \A h : h \in ChunksIn(slab_list'[c], c) <=>
         \E q \in Pages : Contains(slab_list'[c], q) /\ Contains(PageChunks(q, c), h)
  BY <1>2, ChunksInFacts
<1>4. ASSUME NEW h \in Chunks, NEW c \in Classes, Owned(h, c), h[1] # p
      PROVE  Owned(h, c)'
  <2>1. PICK q \in Pages : Contains(slab_list[c], q) /\ Contains(PageChunks(q, c), h)
    BY <1>2, <1>4, ChunksInFacts DEF Owned
  <2>2. \E i \in 1..PerSlab[c] : h = <<q, i>>
    BY <2>1, PageFacts
  <2>3. q # p
    BY <1>4, <2>2
  <2>4. h \in ChunksIn(slab_list'[c], c)
    BY <1>1, <1>3, <2>1, <2>3
  <2> QED
    BY <2>4 DEF Owned
<1>5. ASSUME NEW h \in Chunks, Contains(PageChunks(p, d), h)
      PROVE  Owned(h, d)'
  <2>1. h \in ChunksIn(slab_list'[d], d)
    BY <1>1, <1>3, <1>5
  <2> QED
    BY <2>1 DEF Owned
<1> QED
  BY <1>4, <1>5

LEMMA RebalanceFinishHeap ==
  ASSUME TypeInv, HeapInv, RebalanceFinish
  PROVE  HeapInv'
<1>1. PICK s \in Classes, d \in Classes, p \in Pages, new \in Seq(Chunks) : Finish(s, d, p, new)
  BY FinishFacts
<1>2. /\ s = slab_rebal.s_clsid /\ p = MovingPage /\ slab_rebal.done /\ moving = "none"
      /\ slab_rebalance_signal = 2 /\ slab_rebalance_signal' = 0 /\ moving' = "none"
      /\ IsInjective(new) /\ \A h : Contains(new, h) <=> Contains(PageChunks(p, d), h)
      /\ slots' = [slots EXCEPT ![d] = new \o slots[d]]
      /\ item' = [h \in Chunks |-> IF Contains(new, h) THEN Slabbed(Blank)
                                   ELSE IF h[1] = p THEN Blank ELSE item[h]]
      /\ lru' = lru /\ op' = op
  BY <1>1 DEF Finish
<1>3. \A h \in Chunks : h[1] = p => Unused(h)
  BY <1>2, PageUnused
<1>4. \A h : Contains(new, h) => h \in Chunks /\ h[1] = p
  BY <1>2, PageFacts, ToSetFacts
<1>5. ListInv /\ \A h \in Chunks : ChunkInv(h)
  BY DEF HeapInv
<1>6. \A c \in Classes : slots[c] \in Seq(Chunks) /\ slots'[c] = IF c = d THEN new \o slots[c] ELSE slots[c]
  BY <1>2 DEF TypeInv, MemoryInv
<1>7. \A h : ~(Contains(new, h) /\ Contains(slots[d], h))
  BY <1>3, <1>4 DEF Unused
<1>8. /\ \A h : Contains(slots'[d], h) <=> Contains(new, h) \/ Contains(slots[d], h)
      /\ IsInjective(slots'[d])
  <2>1. IsInjective(slots[d]) /\ slots[d] \in Seq(Chunks)
    BY <1>5, <1>6 DEF ListInv
  <2>2. /\ \A h : Contains(new \o slots[d], h) <=> Contains(new, h) \/ Contains(slots[d], h)
        /\ IsInjective(new \o slots[d])
    BY <1>2, <1>7, <2>1, ConcatFacts
  <2> QED
    BY <1>6, <2>2
<1>9. ListInv'
  BY <1>2, <1>5, <1>6, <1>8 DEF ListInv
<1>10. \A h : ~AtMover(h) /\ ~AtMover(h)'
  BY <1>2 DEF AtMover
<1>11. ASSUME NEW h \in Chunks, h[1] = p
       PROVE  ChunkInv(h)'
  <2>1. Unused(h)
    BY <1>3, <1>11
  <2>2. item'[h] = IF Contains(new, h) THEN Slabbed(Blank) ELSE Blank
    BY <1>2, <1>11
  <2>3. /\ item'[h].refcount = 0 /\ "LINKED" \notin item'[h].flags /\ item'[h].slabs_clsid = 0
        /\ Contains(new, h) => "SLABBED" \in item'[h].flags
    BY <2>2, BlankFacts
  <2>4. SlotInv(h)'
    <3>1. ASSUME NEW c \in Classes, Contains(slots'[c], h)
          PROVE  Owned(h, c)' /\ "SLABBED" \in item'[h].flags
      <4>1. ~Contains(slots[c], h)
        BY <2>1 DEF Unused
      <4>2. c = d /\ Contains(new, h)
        BY <1>6, <1>8, <3>1, <4>1
      <4>3. Owned(h, d)'
        BY <1>1, <1>2, <4>2, FinishPages
      <4> QED
        BY <2>3, <4>2, <4>3
    <3> QED
      BY <2>3, <3>1 DEF SlotInv
  <2>5. ClearInv(h)'
    <3>1. PICK c : c = item'[h].slabs_clsid
      OBVIOUS
    <3>2. c = 0
      BY <2>3, <3>1
    <3>3. c # 255
      BY <3>2
    <3> QED
      BY <3>1, <3>3 DEF ClearInv
  <2>6. ~Linked(h)'
    BY <2>3 DEF Linked
  <2> QED
    BY <1>2, <1>10, <2>1, <2>3, <2>4, <2>5, <2>6, ClearedChunk
<1>12. ASSUME NEW h \in Chunks, h[1] # p
       PROVE  ChunkInv(h)'
  <2>1. ~Contains(new, h)
    BY <1>4, <1>12
  <2>2. item'[h] = item[h]
    BY <1>2, <1>12, <2>1
  <2>3. \A c \in Classes : Contains(slots'[c], h) => Contains(slots[c], h)
    BY <1>6, <1>8, <2>1
  <2>4. \A c \in Classes : Owned(h, c) => Owned(h, c)'
    BY <1>1, <1>12, FinishPages
  <2>5. \A v \in Workers : Aside(op[v], op'[v], h)
    BY <1>2, AsideSame
  <2>6. item[h].slabs_clsid # 255
    <3>1. ~Contains(PageChunks(p, s), h)
      BY <1>12, PageFacts
    <3> QED
      BY <1>2, <1>5, <3>1 DEF ChunkInv, ClearInv
  <2>7. ClearInv(h)'
    BY <2>2, <2>6 DEF ClearInv
  <2>8. \A c \in Classes : Contains(lru'[c], h) <=> Contains(lru[c], h)
    BY <1>2
  <2> QED
    BY <1>5, <1>10, <2>2, <2>3, <2>4, <2>5, <2>7, <2>8, SameChunk
<1>13. DistinctInv' /\ SearchInv'
  BY <1>2, HeldLists
<1>14. MoverInv'
  BY <1>2 DEF MoverInv
<1> QED
  BY <1>9, <1>11, <1>12, <1>13, <1>14 DEF HeapInv

-----------------------------------------------------------------------------
(***************************************************************************)
(* The memory, from the beginning and step by step.                        *)
(***************************************************************************)
LEMMA InitHeap ==
  ASSUME Init
  PROVE  HeapInv
<1>1. /\ slab_list = InitialLists /\ slots = InitialSlots /\ op = [w \in Workers |-> Idle]
      /\ slab_rebalance_signal = 0 /\ moving = "none"
  BY DEF Init
<1>2. MemoryInv /\ \A c \in Classes : IsInjective(lru[c])
  BY InitFacts
<1>3. \A v \in Workers : op[v] = Idle
  BY <1>1
<1>4. \A v \in Workers : \A h : ~HasRef(op[v], h) /\ ~IsNew(op[v], h) /\ ~Frees(op[v], h)
  BY <1>3 DEF HasRef, IsNew, Frees
<1>5. ASSUME NEW h \in Chunks
      PROVE  ChunkInv(h)
  <2>1. CASE \E c \in Classes : Contains(lru[c], h)
    <3>1. PICK c \in Classes : Contains(lru[c], h)
      BY <2>1
    <3>2. /\ item[h].flags = {"LINKED"} /\ item[h].refcount = 1 /\ item[h].slabs_clsid = c
          /\ h \in ChunksIn(InitialLists[c], c) /\ \A d \in Classes : ~Contains(slots[d], h)
      BY <3>1, InitFacts
    <3>3. Linked(h) /\ Live(h)
      BY <1>1, <3>2 DEF Linked, Live, Owned
    <3>4. CountInv(h)
      <4>1. Cardinality(Holders(h)) = 0
        <5>1. Holders(h) = {}
          BY <1>4 DEF Holders
        <5> QED
          BY <5>1, FS_EmptySet
      <4>2. One(Linked(h)) = 1 /\ One(AtMover(h)) = 0
        BY <1>1, <3>3 DEF One, AtMover
      <4>3. Refs(h) = 1
        BY <4>1, <4>2, RefsFacts
      <4> QED
        BY <3>2, <4>3 DEF CountInv
    <3>5. LinkedInv(h)
      <4>1. \A d \in Classes : Contains(lru[d], h) => item[h].slabs_clsid = d
        BY InitFacts
      <4> QED
        BY <3>1, <3>2, <3>3, <4>1 DEF LinkedInv
    <3>6. SlotInv(h)
      BY <3>2 DEF SlotInv
    <3>7. HandleInv(h) /\ NewInv(h) /\ FreedInv(h)
      BY <1>4 DEF HandleInv, NewInv, FreedInv
    <3>8. ClearInv(h)
      BY <3>2, ClassFacts DEF ClearInv
    <3> QED
      BY <3>4, <3>5, <3>6, <3>7, <3>8 DEF ChunkInv
  <2>2. CASE \A c \in Classes : ~Contains(lru[c], h)
    <3>1. /\ item[h].refcount = 0 /\ item[h].slabs_clsid = 0 /\ "LINKED" \notin item[h].flags
          /\ \A c \in Classes : Contains(slots[c], h) => "SLABBED" \in item[h].flags
      BY <2>2, InitFacts
    <3>2. ~Linked(h)
      BY <3>1 DEF Linked
    <3>3. CountInv(h)
      <4>1. Cardinality(Holders(h)) = 0
        <5>1. Holders(h) = {}
          BY <1>4 DEF Holders
        <5> QED
          BY <5>1, FS_EmptySet
      <4>2. One(Linked(h)) = 0 /\ One(AtMover(h)) = 0
        BY <1>1, <3>2 DEF One, AtMover
      <4>3. Refs(h) = 0
        BY <4>1, <4>2, RefsFacts
      <4> QED
        BY <3>1, <4>3 DEF CountInv
    <3>4. LinkedInv(h)
      BY <2>2, <3>2 DEF LinkedInv
    <3>5. SlotInv(h)
      <4>1. ASSUME NEW c \in Classes, Contains(slots[c], h)
            PROVE  Owned(h, c)
        <5>1. slots[c] \in Seq(Chunks)
          BY <1>2 DEF MemoryInv
        <5>2. h \in ToSet(slots[c])
          BY <4>1, <5>1, ToSetFacts
        <5>3. h \in ChunksIn(InitialLists[c], c)
          BY <1>1, <5>2, InitialMemoryAssumption
        <5> QED
          BY <1>1, <5>3 DEF Owned
      <4> QED
        BY <3>1, <4>1 DEF SlotInv
    <3>6. HandleInv(h) /\ NewInv(h) /\ FreedInv(h)
      BY <1>4 DEF HandleInv, NewInv, FreedInv
    <3>7. ClearInv(h)
      <4>1. PICK c : c = item[h].slabs_clsid
        OBVIOUS
      <4>2. c = 0
        BY <3>1, <4>1
      <4>3. c # 255
        BY <4>2
      <4> QED
        BY <4>1, <4>3 DEF ClearInv
    <3> QED
      BY <3>3, <3>4, <3>5, <3>6, <3>7 DEF ChunkInv
  <2> QED
    BY <2>1, <2>2
<1>6. ListInv
  BY <1>1, <1>2, InitialMemoryAssumption DEF ListInv
<1>7. DistinctInv /\ SearchInv
  BY <1>3 DEF DistinctInv, Distinct, SearchInv, AtLinked
<1>8. MoverInv
  BY <1>1 DEF MoverInv
<1> QED
  BY <1>5, <1>6, <1>7, <1>8 DEF HeapInv

\* What has gone wrong between threads is not forgotten.
LEMMA RacedStays ==
  ASSUME [Next]_vars
  PROVE  raced \subseteq raced'
<1>1. CASE UNCHANGED vars
  BY <1>1 DEF vars
<1>2. ASSUME NEW w \in Workers, NEW do \in {"set", "append", "get", "delete"}, NEW k \in Keys,
             NEW c \in UsedClasses, Begin(w, do, k, c)
      PROVE  raced \subseteq raced'
  BY <1>2 DEF Begin
<1>3. ASSUME NEW w \in Workers, ClientGoesOn(w)
      PROVE  raced \subseteq raced'
  BY <1>3 DEF ClientGoesOn
<1>4. ASSUME NEW w \in Workers, Worker(w)
      PROVE  raced \subseteq raced'
  <2>1. CASE SkipBusy(w) \/ Found(w)
    <3>1. UnlockHold(w)
      BY <2>1 DEF SkipBusy, Found
    <3> QED
      BY <3>1 DEF UnlockHold
  <2>2. CASE DoItemGet(w)
    <3>1. raced' \in {raced, raced \cup {"unlink"}, raced \cup {"unlink", "lists"}}
      BY <2>2 DEF DoItemGet
    <3> QED
      BY <3>1
  <2>3. CASE AllocStart(w) \/ SkipLocked(w) \/ Exhausted(w) \/ InitItem(w) \/ ItemLock(w)
    <3>1. raced' = raced
      BY <2>3 DEF AllocStart, SkipLocked, Exhausted, InitItem, ItemLock
    <3> QED
      BY <3>1
  <2>4. CASE Unlink(w) \/ Link(w) \/ Drop(w) \/ ItemRemove(w) \/ Unlock(w) \/ FreeItem(w)
    <3>1. raced' = raced
      BY <2>4 DEF Unlink, Link, Drop, ItemRemove, Unlock, FreeItem
    <3> QED
      BY <3>1
  <2> QED
    BY <1>4, <2>1, <2>2, <2>3, <2>4 DEF Worker
<1>5. ASSUME NEW src \in Classes, NEW dst \in Classes, Reassign(src, dst)
      PROVE  raced \subseteq raced'
  BY <1>5 DEF Reassign
<1>6. CASE Rebalancer
  <2>1. raced' = raced
    BY <1>6 DEF Rebalancer, RebalanceStart, MovePass, MoveItem, MoveEnd, RebalanceFinish
  <2> QED
    BY <2>1
<1> QED
  BY <1>1, <1>2, <1>3, <1>4, <1>5, <1>6 DEF Next, Step

\* Every step of every thread keeps the accounts, unless do_item_get() unlinks an
\* item in the middle of a search or of another update of its list.
LEMMA HeapStep ==
  ASSUME TypeInv, HeapInv, [Next]_vars, "unlink" \notin raced'
  PROVE  HeapInv'
<1>1. CASE UNCHANGED vars
  <2>1. /\ op' = op /\ item' = item /\ slots' = slots /\ slab_list' = slab_list /\ lru' = lru
        /\ slab_rebalance_signal' = slab_rebalance_signal /\ slab_rebal' = slab_rebal
        /\ moving' = moving
    BY <1>1 DEF vars, memvars, movevars
  <2>2. MovingPage' = MovingPage /\ Pos' = Pos /\ \A h : AtMover(h)' <=> AtMover(h)
    BY <2>1 DEF MovingPage, Pos, AtMover
  <2>3. ASSUME NEW h \in Chunks
        PROVE  ChunkInv(h)'
    <3>1. ChunkInv(h) /\ item'[h] = item[h] /\ (AtMover(h)' <=> AtMover(h))
      BY <2>1, <2>2 DEF HeapInv
    <3>2. /\ \A c \in Classes : Contains(lru'[c], h) <=> Contains(lru[c], h)
          /\ \A c \in Classes : Contains(slots'[c], h) => Contains(slots[c], h)
          /\ \A c \in Classes : Owned(h, c) => Owned(h, c)'
      BY <2>1 DEF Owned
    <3>3. \A v \in Workers : Aside(op[v], op'[v], h)
      BY <2>1, AsideSame
    <3>4. ClearInv(h)'
      BY <2>1, <2>2, <3>1 DEF ChunkInv, ClearInv
    <3> QED
      BY <3>1, <3>2, <3>3, <3>4, SameChunk
  <2>4. ListInv' /\ DistinctInv' /\ SearchInv'
    BY <2>1, HeldLists DEF HeapInv, ListInv
  <2>5. MoverInv'
    BY <2>1, <2>2 DEF HeapInv, MoverInv, Frees
  <2> QED
    BY <2>3, <2>4, <2>5 DEF HeapInv
<1>2. ASSUME NEW w \in Workers, NEW do \in {"set", "append", "get", "delete"}, NEW k \in Keys,
             NEW c \in UsedClasses, Begin(w, do, k, c)
      PROVE  HeapInv'
  BY <1>2, BeginHeap
<1>3. ASSUME NEW w \in Workers, ClientGoesOn(w)
      PROVE  HeapInv'
  BY <1>3, ClientGoesOnHeap
<1>4. ASSUME NEW w \in Workers, Worker(w)
      PROVE  HeapInv'
  <2>1. CASE AllocStart(w)
    BY <2>1, AllocStartHeap
  <2>2. CASE SkipLocked(w)
    BY <2>2, SkipLockedHeap
  <2>3. CASE SkipBusy(w)
    BY <2>3, SkipBusyHeap
  <2>4. CASE Found(w)
    BY <2>4, FoundHeap
  <2>5. CASE Exhausted(w)
    BY <2>5, ExhaustedHeap
  <2>6. CASE InitItem(w)
    BY <2>6, InitItemHeap
  <2>7. CASE ItemLock(w)
    BY <2>7, ItemLockHeap
  <2>8. CASE DoItemGet(w)
    BY <2>8, DoItemGetHeap
  <2>9. CASE Unlink(w)
    BY <2>9, UnlinkStepHeap
  <2>10. CASE Link(w)
    BY <2>10, LinkHeap
  <2>11. CASE Drop(w)
    BY <2>11, DropHeap
  <2>12. CASE ItemRemove(w)
    BY <2>12, ItemRemoveHeap
  <2>13. CASE Unlock(w)
    BY <2>13, UnlockHeap
  <2>14. CASE FreeItem(w)
    BY <2>14, FreeItemHeap
  <2> QED
    BY <1>4, <2>1, <2>2, <2>3, <2>4, <2>5, <2>6, <2>7, <2>8, <2>9, <2>10, <2>11, <2>12, <2>13,
       <2>14 DEF Worker
<1>5. ASSUME NEW src \in Classes, NEW dst \in Classes, Reassign(src, dst)
      PROVE  HeapInv'
  BY <1>5, ReassignHeap
<1>6. CASE Rebalancer
  BY <1>6, RebalanceStartHeap, MovePassHeap, MoveItemHeap, MoveEndHeap, RebalanceFinishHeap
     DEF Rebalancer
<1> QED
  BY <1>1, <1>2, <1>3, <1>4, <1>5, <1>6 DEF Next, Step

-----------------------------------------------------------------------------
(***************************************************************************)
(* The inductive invariant, and what it says.                              *)
(***************************************************************************)
LEMMA InitInv == Init => IInv
<1>1. Init => LockHeldUnlessStaleUnlock
  BY DEF Init, LockHeldUnlessStaleUnlock, InItemLock
<1> QED
  BY <1>1, InitTypes, InitHeap DEF IInv

LEMMA NextInv == IInv /\ [Next]_vars => IInv'
<1> SUFFICES ASSUME IInv, [Next]_vars
             PROVE  IInv'
  OBVIOUS
<1>1. TypeInv /\ LockHeldUnlessStaleUnlock
  BY DEF IInv
<1>2. TypeInv' /\ LockHeldUnlessStaleUnlock'
  BY <1>1, TypesStep, LocksNext
<1>3. ASSUME "unlink" \notin raced'
      PROVE  HeapInv'
  <2>1. "unlink" \notin raced
    BY <1>3, RacedStays
  <2>2. HeapInv
    BY <2>1 DEF IInv
  <2> QED
    BY <1>1, <1>3, <2>2, HeapStep
<1> QED
  BY <1>2, <1>3 DEF IInv

\* The inductive invariant holds always.
LEMMA Invariant == Spec => []IInv
BY InitInv, NextInv, PTL DEF Spec

\* The chunk headers, the page lists and the locks have their types, a page is in
\* one class, and do_slabs_newslab() never has more pages than mem_limit and one
\* for each class; no reference count becomes negative unless do_item_get() has
\* raced with a search.
THEOREM TypeCorrect == Spec => []TypeOK
<1>1. IInv => TypeOK
  <2> SUFFICES ASSUME IInv
               PROVE  TypeOK
    OBVIOUS
  <2>1. ASSUME NEW h \in Chunks
        PROVE  /\ item[h].flags \subseteq {"SLABBED", "LINKED"}
               /\ item[h].refcount \in Nat \/ "unlink" \in raced
               /\ item[h].slabs_clsid \in Classes \cup {0, 255}
               /\ item[h].key \in Keys \cup {None}
    <3>1. item[h] \in Item
      BY DEF IInv, TypeInv, MemoryInv
    <3>2. ASSUME "unlink" \notin raced
          PROVE  item[h].refcount \in Nat
      <4>1. TypeInv /\ CountInv(h)
        BY <3>2 DEF IInv, HeapInv, ChunkInv
      <4> QED
        BY <4>1, CountFacts
    <3> QED
      BY <3>1, <3>2, ItemFields
  <2>2. \A c \in Classes : ToSet(slab_list[c]) \subseteq Pages /\ IsInjective(slab_list[c])
    <3>1. \A c \in Classes : slab_list[c] \in Seq(Pages) /\ IsInjective(slab_list[c])
      BY DEF IInv, TypeInv, PagesInv
    <3> QED
      BY <3>1, ToSetFacts
  <2>3. \A c, d \in Classes : c # d => ToSet(slab_list[c]) \cap ToSet(slab_list[d]) = {}
    BY DEF IInv, TypeInv, PagesInv
  <2>4. /\ item_locks \in [Keys -> Workers \cup {None}]
        /\ cache_lock \in Workers \cup {Mover, None}
        /\ slab_rebalance_signal \in 0..2 /\ moving \in {"none", "DONE", "BUSY"}
        /\ cache_lock = Mover <=> moving # "none"
        /\ raced \subseteq {"unlock", "unlink", "lists"}
    BY DEF IInv, TypeInv, CacheInv, RebalInv
  <2> QED
    BY <2>1, <2>2, <2>3, <2>4 DEF TypeOK
<1> QED
  BY <1>1, Invariant, PTL

\* A worker that is between item_lock() and item_unlock() has the lock of its key,
\* however the allocations and the rebalancer use trylock, until do_item_alloc()
\* has released a hold_lock left over from an earlier item of its search.
THEOREM LockHeldAlways == Spec => []LockHeldUnlessStaleUnlock
<1>1. IInv => LockHeldUnlessStaleUnlock
  BY DEF IInv
<1> QED
  BY <1>1, Invariant, PTL

\* Reference counts are exact, the LRU lists hold the linked chunks and the free
\* lists chunks of their class that nobody refers to, while slab_rebalance_move(),
\* do_item_alloc(), do_item_get() and the rest take chunks from each other, up to
\* an unlink by do_item_get() in the middle of a search or of another update of
\* the list.
THEOREM ChunksAccountedAlways == Spec => []ChunksAccountedUnlessUnlinkRaced
<1>1. IInv => ChunksAccountedUnlessUnlinkRaced
  <2> SUFFICES ASSUME IInv, "unlink" \notin raced
               PROVE  /\ \A h \in Chunks : item[h].refcount = Refs(h)
                      /\ UNION {ToSet(lru[c]) : c \in Classes} = {h \in Chunks : Linked(h)}
                      /\ \A c \in Classes :
                            /\ IsInjective(slots[c])
                            /\ ToSet(slots[c]) \subseteq ChunksIn(slab_list[c], c)
                            /\ \A i \in DOMAIN slots[c] : Refs(slots[c][i]) = 0
    BY DEF ChunksAccountedUnlessUnlinkRaced
  <2>1. HeapInv /\ MemoryInv
    BY DEF IInv, TypeInv
  <2>2. \A h \in Chunks : item[h].refcount = Refs(h) /\ LinkedInv(h) /\ SlotInv(h)
    BY <2>1 DEF HeapInv, ChunkInv, CountInv
  <2>3. \A c \in Classes : lru[c] \in Seq(Chunks) /\ slots[c] \in Seq(Chunks)
    BY <2>1 DEF MemoryInv
  <2>4. UNION {ToSet(lru[c]) : c \in Classes} = {h \in Chunks : Linked(h)}
    <3>1. \A c \in Classes : \A h : h \in ToSet(lru[c]) <=> h \in Chunks /\ Contains(lru[c], h)
      BY <2>3, ToSetFacts
    <3>2. \A h \in Chunks : Linked(h) <=> \E c \in Classes : Contains(lru[c], h)
      BY <2>2 DEF LinkedInv, Live, Owned
    <3> QED
      BY <3>1, <3>2
  <2>5. ASSUME NEW c \in Classes
        PROVE  /\ IsInjective(slots[c]) /\ ToSet(slots[c]) \subseteq ChunksIn(slab_list[c], c)
               /\ \A i \in DOMAIN slots[c] : Refs(slots[c][i]) = 0
    <3>1. IsInjective(slots[c])
      BY <2>1 DEF HeapInv, ListInv
    <3>2. \A h \in Chunks : Contains(slots[c], h) => h \in ChunksIn(slab_list[c], c) /\ Refs(h) = 0
      BY <2>2 DEF SlotInv, Owned
    <3>3. ToSet(slots[c]) \subseteq ChunksIn(slab_list[c], c)
      BY <2>3, <3>2, ToSetFacts
    <3>4. \A i \in DOMAIN slots[c] : slots[c][i] \in Chunks /\ Contains(slots[c], slots[c][i])
      BY <2>3 DEF Contains
    <3> QED
      BY <3>1, <3>2, <3>3, <3>4
  <2> QED
    BY <2>2, <2>4, <2>5
<1> QED
  BY <1>1, Invariant, PTL

\* When slab_rebalance_finish() memsets the page, no free list, no LRU list and no
\* worker has a chunk of it, with the same exception.
THEOREM PageClearAlways == Spec => []PageClearUnlessUnlinkRaced
<1>1. IInv => PageClearUnlessUnlinkRaced
  <2> SUFFICES ASSUME IInv, slab_rebal.done, "unlink" \notin raced,
                      NEW h \in Chunks, h[1] = MovingPage
               PROVE  /\ \A w \in Workers : ~Refers(w, h) /\ (op[w] # Idle => op[w].free # h)
                      /\ \A c \in Classes : ~Contains(slots[c], h) /\ ~Contains(lru[c], h)
    BY DEF PageClearUnlessUnlinkRaced
  <2>1. TypeInv /\ HeapInv
    BY DEF IInv
  <2>2. Unused(h)
    BY <2>1, PageUnused
  <2> QED
    BY <2>2 DEF Unused, HasRef, Frees, Refers
<1> QED
  BY <1>1, Invariant, PTL

=============================================================================
