----------------------------- MODULE SlabMover -----------------------------
(***************************************************************************)
(* The slab rebalancer (slabs.c) takes a page from one slab class and      *)
(* gives it to another while the workers (thread.c, items.c, memcached.c)  *)
(* go on allocating, linking, sending and freeing the chunks of that page. *)
(*                                                                         *)
(* A worker here has one connection at a time, whose client it may have to *)
(* wait for.  Item locks are the granular ones (WorkerThreads has the      *)
(* switch to the global lock, during which the rebalancer is paused), and  *)
(* two keys have different locks.  An operation that takes a lock and      *)
(* gives it back with nothing in between that another thread could see is  *)
(* one step; slabs_lock is held for longer only by the mover, who holds    *)
(* cache_lock as well.  do_item_get() unlinks without cache_lock: where it *)
(* falls into an update of the same list the model says so (raced) and     *)
(* ends.  Nothing expires or is flushed (see ItemStore).                   *)
(***************************************************************************)
EXTENDS Naturals, Sequences, SequencesExt, FiniteSets

CONSTANTS
    Workers,
    Keys,
    None,           \* NULL; the holder of a free lock; the key of a cleared chunk
    Mover,          \* slab_rebalance_thread(), as the holder of cache_lock
    PerSlab,        \* <<n, ...>>: chunks in a page, by class
    InitialLists,   \* <<list, ...>>: pages of each class when the model begins
    InitialSlots,   \* <<list, ...>>: their free lists then
    InitialItems,   \* <<list, ...>>: their stored keys, the newest first
    StoredChunks,   \* the chunks those are in
    UsedClasses,    \* classes of the items that clients store
    MemLimit,       \* mem_limit, in pages
    MaxTries,       \* items do_item_alloc() looks at from the tail: 5
    MaxOps,         \* bound: commands begun
    MaxRebalances   \* bound: reassignments begun

Classes == DOMAIN PerSlab

\* mem_limit does not hold for the first page of a class.
Pages == 1..(MemLimit + Len(PerSlab))

PageChunks(p, c) == [i \in 1..PerSlab[c] |-> <<p, i>>]
Chunks == UNION {ToSet(PageChunks(p, c)) : p \in Pages, c \in Classes}

ASSUME SlabMoverAssumption ==
    /\ PerSlab \in Seq(Nat \ {0}) /\ InitialLists \in [Classes -> Seq(Pages)]
    /\ InitialSlots \in [Classes -> Seq(Chunks)]
    /\ InitialItems \in [Classes -> Seq(Keys)] /\ StoredChunks \subseteq Chunks
    /\ UsedClasses \subseteq Classes
    /\ MemLimit \in Nat /\ MaxTries \in Nat \ {0}
    /\ MaxOps \in Nat /\ MaxRebalances \in Nat
    /\ IsFiniteSet(Workers)
    /\ None \notin Keys \cup Chunks \cup Workers /\ Mover \notin Workers \cup {None}
    /\ Len(PerSlab) < 255     \* POWER_LARGEST is 200; 255 marks what has been cleared

VARIABLES
    item,           \* of each chunk: it_flags, refcount, slabs_clsid, key
    slots,          \* free list of each class, its first chunk first
    slab_list,      \* pages of each class
    lru,            \* LRU list of each class, its head first
    item_locks,
    cache_lock,
    op,             \* the command of each worker
    ops,            \* commands begun
    slab_rebalance_signal,
    slab_rebal,     \* s_clsid, d_clsid, the next chunk, busy_items, done
    moving,         \* what the mover found of the chunk, before it acts on it
    rebalances,     \* reassignments begun
    raced           \* what has gone wrong between threads (history): "unlock",
                    \* do_item_alloc() released the lock of another; "unlink",
                    \* do_item_get() unlinked an item in the middle of its search;
                    \* "lists", in the middle of another update of the list

memvars == <<item, slots, slab_list, lru>>
movevars == <<slab_rebalance_signal, slab_rebal, moving, rebalances>>
vars == <<memvars, item_locks, cache_lock, op, ops, movevars, raced>>

\* memset() over a page, and what do_slabs_free() makes of a chunk.
Blank == [flags |-> {}, refcount |-> 0, slabs_clsid |-> 0, key |-> None]
Slabbed(i) == [i EXCEPT !.flags = @ \cup {"SLABBED"}, !.slabs_clsid = 0]

Idle == [do |-> "none"]
NotMoving == [s_clsid |-> 0, d_clsid |-> 0, pos |-> 0, busy_items |-> 0, done |-> FALSE]

ChunksIn(list, c) == UNION {ToSet(PageChunks(p, c)) : p \in ToSet(list)}

\* The memory the model begins with: the first pages, each in one class; free
\* lists of chunks of the class that are not stored in; each key stored once.
ASSUME InitialMemoryAssumption ==
    /\ \A c \in Classes : IsInjective(InitialLists[c]) /\ IsInjective(InitialSlots[c])
    /\ \A c, d \in Classes : c # d => ToSet(InitialLists[c]) \cap ToSet(InitialLists[d]) = {}
    /\ \E n \in 0..(MemLimit + Cardinality({c \in Classes : InitialLists[c] # <<>>})) :
          UNION {ToSet(InitialLists[c]) : c \in Classes} = 1..n
    /\ \A c \in Classes :
          ToSet(InitialSlots[c]) \subseteq ChunksIn(InitialLists[c], c) \ StoredChunks
    /\ \A c, d \in Classes : \A i \in DOMAIN InitialItems[c], j \in DOMAIN InitialItems[d] :
          InitialItems[c][i] = InitialItems[d][j] => c = d /\ i = j

StoredKeys == UNION {ToSet(InitialItems[c]) : c \in Classes}

\* Some keys have been stored, and what else was has been freed again.
Init ==
    /\ slab_list = InitialLists
    /\ slots = InitialSlots
    /\ \E chunk \in [StoredKeys -> StoredChunks] :
          /\ IsInjective(chunk)
          /\ \A c \in Classes : \A k \in ToSet(InitialItems[c]) :
                chunk[k] \in ChunksIn(InitialLists[c], c)
          /\ lru = [c \in Classes |-> [i \in DOMAIN InitialItems[c] |-> chunk[InitialItems[c][i]]]]
          /\ item = [h \in Chunks |->
                        IF \E k \in StoredKeys : chunk[k] = h
                        THEN [flags |-> {"LINKED"}, refcount |-> 1,
                              slabs_clsid |-> CHOOSE c \in Classes : Contains(lru[c], h),
                              key |-> CHOOSE k \in StoredKeys : chunk[k] = h]
                        ELSE IF \E c \in Classes : Contains(slots[c], h)
                        THEN Slabbed(Blank) ELSE Blank]
    /\ item_locks = [k \in Keys |-> None]
    /\ cache_lock = None
    /\ op = [w \in Workers |-> Idle]
    /\ ops = 0
    /\ slab_rebalance_signal = 0
    /\ slab_rebal = NotMoving
    /\ moving = "none"
    /\ rebalances = 0
    /\ raced = {}

-----------------------------------------------------------------------------
(***************************************************************************)
(* Pieces.                                                                 *)
(***************************************************************************)
\* Where a worker is; it frees what it has dropped before it goes on.
At(w, where) == op[w] # Idle /\ op[w].at = where /\ op[w].free = None

Linked(h) == "LINKED" \in item[h].flags

\* do_item_unlink_nolock(): the table's reference goes with the link.
Unlinked(h) ==
    IF Linked(h)
    THEN /\ item' = [item EXCEPT ![h].flags = @ \ {"LINKED"}, ![h].refcount = @ - 1]
         /\ lru' = [c \in Classes |-> RemoveFirst(lru[c], h)]
    ELSE UNCHANGED <<item, lru>>

\* do_item_remove(): the last reference frees the chunk.
Dropped(h) == IF item[h].refcount = 1 THEN h ELSE None

\* The chunks of the page that is being taken away: slab_start, slab_end.
MovingPage == slab_list[slab_rebal.s_clsid][1]
InMovingPage(h) == slab_rebalance_signal = 2 /\ h[1] = MovingPage

-----------------------------------------------------------------------------
(***************************************************************************)
(* Commands.  set and append allocate before they read their value; get    *)
(* and delete look the key up.                                             *)
(***************************************************************************)
Begin(w, do, k, c) ==
    /\ op[w] = Idle /\ ops < MaxOps
    /\ ops' = ops + 1
    /\ op' = [op EXCEPT ![w] =
                [do |-> do, key |-> k, cls |-> c,
                 at |-> IF do \in {"set", "append"} THEN "alloc" ELSE "lock",
                 it |-> None, old |-> None, new |-> None, free |-> None,
                 search |-> None, tries |-> 0, hold |-> None]]
    /\ UNCHANGED <<memvars, item_locks, cache_lock, movevars, raced>>

-----------------------------------------------------------------------------
(***************************************************************************)
(* do_item_alloc(), under cache_lock.  The append of do_store_item() calls *)
(* it inside the item lock of its key, item_alloc() outside of any.        *)
(***************************************************************************)
InAppend(w) == op[w].old # None
CurKey(w) == IF InAppend(w) THEN op[w].key ELSE None

AllocStart(w) ==
    /\ At(w, "alloc") /\ cache_lock = None
    /\ cache_lock' = w
    /\ LET list == lru[op[w].cls]
       IN  op' = [op EXCEPT ![w].at = "search", ![w].tries = MaxTries,
                            ![w].search = IF list = <<>> THEN None ELSE Last(list)]
    /\ UNCHANGED <<memvars, item_locks, ops, movevars, raced>>

Searching(w) == At(w, "search") /\ op[w].search # None /\ op[w].tries > 0

\* search->prev.  An item that do_item_get() has taken off the list meanwhile,
\* without cache_lock, leads to whatever its prev has become.
Prevs(w) ==
    LET list == lru[op[w].cls]
        h == op[w].search
    IN  IF Contains(list, h)
        THEN {IF h = Head(list) THEN None ELSE list[SelectInSeq(list, LAMBDA g : g = h) - 1]}
        ELSE {None} \cup ToSet(list) \cup ToSet(slots[op[w].cls])

SearchOn(w, hold) ==
    \E p \in Prevs(w) :
        op' = [op EXCEPT ![w].search = p, ![w].tries = @ - 1, ![w].hold = hold]

KeyLocked(w, h) ==
    item[h].key \in {k \in Keys \ {CurKey(w)} : item_locks[k] # None}

SkipLocked(w) ==
    /\ Searching(w) /\ KeyLocked(w, op[w].search)
    /\ SearchOn(w, None)
    /\ UNCHANGED <<memvars, item_locks, cache_lock, ops, movevars, raced>>

\* hold_lock after the item's lock has been taken, which is not done for the
\* caller's own key: it still has the value of the item before, and is
\* unlocked again.
HoldLock(w) ==
    IF item[op[w].search].key = CurKey(w) THEN op[w].hold ELSE item[op[w].search].key

\* Mutant: the lock of the item is unlocked even when it is the caller's own.
UnlockHold_Own(w) ==
    IF item[op[w].search].key = None
    THEN UNCHANGED <<item_locks, raced>>
    ELSE /\ item_locks' = [item_locks EXCEPT ![item[op[w].search].key] = None]
         /\ UNCHANGED raced

UnlockHold(w) ==
    IF HoldLock(w) = None
    THEN UNCHANGED <<item_locks, raced>>
    ELSE /\ item_locks' = [item_locks EXCEPT ![HoldLock(w)] = None]
         /\ raced' = IF item_locks[HoldLock(w)] = None THEN raced ELSE raced \cup {"unlock"}

\* Mutant: the reference taken to look at the item stays.
SkipBusy_Leak(w) ==
    /\ Searching(w) /\ ~KeyLocked(w, op[w].search)
    /\ item[op[w].search].refcount # 1
    /\ item' = [item EXCEPT ![op[w].search].refcount = @ + 1]
    /\ UnlockHold(w)
    /\ SearchOn(w, HoldLock(w))
    /\ UNCHANGED <<slots, slab_list, lru, cache_lock, ops, movevars>>

SkipBusy(w) ==
    /\ Searching(w) /\ ~KeyLocked(w, op[w].search)
    /\ item[op[w].search].refcount # 1
    /\ UnlockHold(w)
    /\ SearchOn(w, HoldLock(w))
    /\ UNCHANGED <<memvars, cache_lock, ops, movevars>>

\* do_slabs_newslab(): a page is split into the free list chunk by chunk.
NextPage == 1 + Cardinality(UNION {ToSet(slab_list[c]) : c \in Classes})
MayGrow(c) == NextPage <= MemLimit \/ slab_list[c] = <<>>

\* The caller has the only reference; cache_lock is released.
Take(w, h) ==
    /\ op' = [op EXCEPT ![w].at = "init", ![w].search = None, ![w].tries = 0, ![w].hold = None,
                        ![w].it = IF InAppend(w) THEN @ ELSE h,
                        ![w].new = IF InAppend(w) THEN h ELSE @]
    /\ cache_lock' = None

\* do_slabs_alloc()
SlabsAlloc(w) ==
    LET c == op[w].cls
        free == IF slots[c] = <<>> THEN Reverse(PageChunks(NextPage, c)) ELSE slots[c]
    IN  /\ slots[c] # <<>> \/ MayGrow(c)
        /\ slots' = [slots EXCEPT ![c] = Tail(free)]
        /\ slab_list' = IF slots[c] = <<>> THEN [slab_list EXCEPT ![c] = Append(@, NextPage)]
                        ELSE slab_list
        /\ item' = [h \in Chunks |->
                       IF h = Head(free) THEN [Slabbed(item[h]) EXCEPT !.refcount = 1]
                       ELSE IF h \in ToSet(free) THEN Slabbed(item[h]) ELSE item[h]]
        /\ Take(w, Head(free))
        /\ UNCHANGED lru

CannotAlloc(w) == slots[op[w].cls] = <<>> /\ ~MayGrow(op[w].cls)

\* An item that only the table refers to: a free chunk is taken after all, or
\* this one is evicted.
Found(w) ==
    /\ Searching(w) /\ ~KeyLocked(w, op[w].search)
    /\ item[op[w].search].refcount = 1
    /\ UnlockHold(w)
    /\ \/ SlabsAlloc(w)
       \/ LET h == op[w].search
          IN  /\ CannotAlloc(w)
              /\ item' = [item EXCEPT ![h].flags = @ \ {"LINKED"}, ![h].slabs_clsid = 0]
              /\ lru' = [c \in Classes |-> RemoveFirst(lru[c], h)]
              /\ Take(w, h)
              /\ UNCHANGED <<slots, slab_list>>
    /\ UNCHANGED <<ops, movevars>>

\* Nothing to evict.  Without memory append is not stored, and an update is
\* refused; a set removes the item there is, as delete does.
Refused(w) ==
    LET o == [op[w] EXCEPT !.search = None, !.tries = 0, !.hold = None]
    IN  IF InAppend(w) THEN {[o EXCEPT !.at = "drop"]}
        ELSE {Idle} \cup (IF o.do = "set" THEN {[o EXCEPT !.do = "delete", !.at = "lock"]} ELSE {})

Exhausted(w) ==
    /\ At(w, "search") /\ (op[w].search = None \/ op[w].tries = 0)
    /\ \/ SlabsAlloc(w)
       \/ /\ CannotAlloc(w)
          /\ \E o \in Refused(w) : op' = [op EXCEPT ![w] = o]
          /\ cache_lock' = None
          /\ UNCHANGED memvars
    /\ UNCHANGED <<item_locks, ops, movevars, raced>>

\* What follows without a lock; then the value is read, or appended to.
InitItem(w) ==
    /\ At(w, "init")
    /\ LET h == IF InAppend(w) THEN op[w].new ELSE op[w].it
       IN  item' = [item EXCEPT ![h].flags = {}, ![h].slabs_clsid = op[w].cls,
                                ![h].key = op[w].key]
    /\ op' = [op EXCEPT ![w].at = IF InAppend(w) THEN "unlink" ELSE "reading"]
    /\ UNCHANGED <<slots, slab_list, lru, item_locks, cache_lock, ops, movevars, raced>>

-----------------------------------------------------------------------------
(***************************************************************************)
(* The operations of thread.c on the items.                                *)
(***************************************************************************)
\* The client has sent the value, read the reply, or left.
ClientGoesOn(w) ==
    /\ \E next \in {"store", "remove"} :
          /\ At(w, "reading") \/ (At(w, "writing") /\ next = "remove")
          /\ op' = [op EXCEPT ![w].at = next]
    /\ UNCHANGED <<memvars, item_locks, cache_lock, ops, movevars, raced>>

\* item_lock() of item_get(), store_item() and item_remove()
ItemLock(w) ==
    /\ At(w, "lock") \/ At(w, "store") \/ At(w, "remove")
    /\ item_locks[op[w].key] = None
    /\ item_locks' = [item_locks EXCEPT ![op[w].key] = w]
    /\ op' = [op EXCEPT ![w].at = IF @ = "remove" THEN "removing" ELSE "get"]
    /\ UNCHANGED <<memvars, cache_lock, ops, movevars, raced>>

ItemUnlock(w) == item_locks' = [item_locks EXCEPT ![op[w].key] = None]

\* The command ends with item_unlock(), after what it has to free.
End(w, freed) ==
    IF freed = None
    THEN op' = [op EXCEPT ![w] = Idle] /\ ItemUnlock(w)
    ELSE /\ op' = [op EXCEPT ![w].it = None, ![w].free = freed, ![w].at = "unlock"]
         /\ UNCHANGED item_locks

\* What is done with the item that do_item_get() returns.
GetFound(w, h) ==
    /\ item' = [item EXCEPT ![h].refcount = @ + 1]
    /\ IF op[w].do \in {"get", "delete"}
       THEN /\ op' = [op EXCEPT ![w].it = h,
                                ![w].at = IF op[w].do = "get" THEN "writing" ELSE "delete"]
            /\ ItemUnlock(w)
       ELSE /\ op' = [op EXCEPT ![w].old = h,
                                ![w].at = IF op[w].do = "set" THEN "unlink" ELSE "alloc"]
            /\ UNCHANGED item_locks
    /\ UNCHANGED lru

GetNothing(w, freed) ==
    IF op[w].do \in {"get", "delete"}
    THEN End(w, freed)
    ELSE /\ op' = [op EXCEPT ![w].free = freed,
                             ![w].at = IF op[w].do = "set" THEN "link" ELSE "drop"]
         /\ UNCHANGED item_locks

\* item_link_q() or item_unlink_q() of h may be going on in worker v, or in
\* the mover.
Relinks(v, h) ==
    \/ At(v, "link") /\ h \in {op[v].it, op[v].new}
    \/ At(v, "unlink") /\ h = op[v].old
    \/ At(v, "delete") /\ h = op[v].it
    \/ Searching(v) /\ h = op[v].search
    \/ At(v, "get") /\ InMovingPage(h) /\ Linked(h) /\ item[h].key = op[v].key

MoverRelinks(h) ==
    InMovingPage(h) /\ h[2] = slab_rebal.pos /\ moving = "none" /\ Linked(h)

\* Another thread may be writing to the list of the moving page's class.
ListInUse(w) ==
    \E h \in Chunks : /\ item[h].slabs_clsid = slab_rebal.s_clsid
                      /\ MoverRelinks(h) \/ \E v \in Workers \ {w} : Relinks(v, h)

\* do_item_get().  An item of the moving page is unlinked, with no cache_lock,
\* and its reference dropped: not found.
DoItemGet(w) ==
    /\ At(w, "get")
    /\ LET found == {h \in Chunks : Linked(h) /\ item[h].key = op[w].key}
       IN  \/ found = {} /\ GetNothing(w, None) /\ UNCHANGED <<item, lru, raced>>
           \/ \E h \in found : ~InMovingPage(h) /\ GetFound(w, h) /\ UNCHANGED raced
           \/ /\ \E h \in found : InMovingPage(h) /\ Unlinked(h) /\ GetNothing(w, Dropped(h))
              /\ \/ raced' = IF cache_lock \in Workers THEN raced \cup {"unlink"} ELSE raced
                 \/ ListInUse(w) /\ raced' = raced \cup {"unlink", "lists"}
    /\ UNCHANGED <<slots, slab_list, cache_lock, ops, movevars>>

\* do_item_unlink() of item_replace(), and item_unlink()
Unlink(w) ==
    /\ cache_lock = None
    /\ \/ /\ At(w, "unlink")
          /\ op[w].old # None
          /\ Unlinked(op[w].old)
          /\ op' = [op EXCEPT ![w].at = "link"]
       \/ /\ At(w, "delete") /\ item_locks[op[w].key] = None
          /\ Unlinked(op[w].it)
          /\ op' = [op EXCEPT ![w].at = "remove"]
    /\ UNCHANGED <<slots, slab_list, item_locks, cache_lock, ops, movevars, raced>>

\* do_item_link()
Link(w) ==
    /\ At(w, "link") /\ cache_lock = None
    /\ LET h == IF op[w].new # None THEN op[w].new ELSE op[w].it
       IN  /\ item' = [item EXCEPT ![h].flags = @ \cup {"LINKED"}, ![h].refcount = @ + 1]
           /\ lru' = [lru EXCEPT ![op[w].cls] = <<h>> \o @]
    /\ op' = [op EXCEPT ![w].at = "drop"]
    /\ UNCHANGED <<slots, slab_list, item_locks, cache_lock, ops, movevars, raced>>

DropRef(h) == item' = [item EXCEPT ![h].refcount = @ - 1]

\* do_store_item() drops what it found and what it made, store_item() unlocks.
Drop(w) ==
    /\ At(w, "drop")
    /\ \/ /\ op[w].old # None
          /\ DropRef(op[w].old)
          /\ UNCHANGED item_locks
          /\ op' = [op EXCEPT ![w].old = None, ![w].free = Dropped(op[w].old)]
       \/ /\ op[w].old = None /\ op[w].new # None
          /\ DropRef(op[w].new)
          /\ UNCHANGED item_locks
          /\ op' = [op EXCEPT ![w].new = None, ![w].free = Dropped(op[w].new)]
       \/ /\ op[w].old = None /\ op[w].new = None
          /\ ItemUnlock(w)
          /\ op' = [op EXCEPT ![w].at = "remove"]
          /\ UNCHANGED item
    /\ UNCHANGED <<slots, slab_list, lru, cache_lock, ops, movevars, raced>>

\* item_remove() of c->item, of what has been sent, or of what was unlinked
ItemRemove(w) ==
    /\ At(w, "removing")
    /\ DropRef(op[w].it)
    /\ End(w, Dropped(op[w].it))
    /\ UNCHANGED <<slots, slab_list, lru, cache_lock, ops, movevars, raced>>

Unlock(w) ==
    /\ At(w, "unlock")
    /\ ItemUnlock(w)
    /\ op' = [op EXCEPT ![w] = Idle]
    /\ UNCHANGED <<memvars, cache_lock, ops, movevars, raced>>

\* item_free(), which waits for slabs_lock
FreeItem(w) ==
    /\ op[w] # Idle /\ op[w].free # None
    /\ cache_lock # Mover
    /\ LET h == op[w].free
       IN  /\ item' = [item EXCEPT ![h] = Slabbed(@)]
           /\ slots' = [slots EXCEPT ![item[h].slabs_clsid] = <<h>> \o @]
    /\ op' = [op EXCEPT ![w].free = None]
    /\ UNCHANGED <<slab_list, lru, item_locks, cache_lock, ops, movevars, raced>>

-----------------------------------------------------------------------------
(***************************************************************************)
(* The rebalancer.                                                         *)
(***************************************************************************)
\* do_slabs_reassign(), from the command or slab_maintenance_thread(); a
\* source of -1 is any class with a page to spare.
Reassign(src, dst) ==
    /\ slab_rebalance_signal = 0 /\ rebalances < MaxRebalances
    /\ src # dst /\ Len(slab_list[src]) >= 2
    /\ slab_rebal' = [slab_rebal EXCEPT !.s_clsid = src, !.d_clsid = dst]
    /\ slab_rebalance_signal' = 1
    /\ rebalances' = rebalances + 1
    /\ UNCHANGED <<memvars, item_locks, cache_lock, op, ops, moving, raced>>

\* slab_rebalance_start(); the list of the other class may fail to grow.
RebalanceStart ==
    /\ slab_rebalance_signal = 1 /\ cache_lock = None
    /\ \/ /\ slab_rebalance_signal' = 2
          /\ slab_rebal' = [slab_rebal EXCEPT !.pos = 1, !.done = FALSE]
       \/ /\ slab_rebalance_signal' = 0
          /\ UNCHANGED slab_rebal
    /\ UNCHANGED <<memvars, item_locks, cache_lock, op, ops, moving, rebalances, raced>>

Pos == <<MovingPage, slab_rebal.pos>>

\* Mutant: what was busy on the first way through is never forgotten.
Advance_Sticky(busy) ==
    LET b == IF slab_rebal.busy_items + busy > 0 THEN 1 ELSE 0
    IN  slab_rebal' =
            IF slab_rebal.pos < PerSlab[slab_rebal.s_clsid]
            THEN [slab_rebal EXCEPT !.pos = @ + 1, !.busy_items = b]
            ELSE IF b > 0 THEN [slab_rebal EXCEPT !.pos = 1, !.busy_items = b]
            ELSE [slab_rebal EXCEPT !.pos = @ + 1, !.done = TRUE]

\* Mutant: one way through the page is enough.
Advance_Once(busy) ==
    slab_rebal' = IF slab_rebal.pos < PerSlab[slab_rebal.s_clsid]
                  THEN [slab_rebal EXCEPT !.pos = @ + 1, !.busy_items = @ + busy]
                  ELSE [slab_rebal EXCEPT !.pos = @ + 1, !.done = TRUE]

\* On to the next chunk; from the top again if one was busy.
Advance(busy) ==
    LET b == slab_rebal.busy_items + busy
    IN  slab_rebal' =
            IF slab_rebal.pos < PerSlab[slab_rebal.s_clsid]
            THEN [slab_rebal EXCEPT !.pos = @ + 1, !.busy_items = b]
            ELSE IF b > 0 THEN [slab_rebal EXCEPT !.pos = 1, !.busy_items = 0]
            ELSE [slab_rebal EXCEPT !.pos = @ + 1, !.done = TRUE]

Moves == slab_rebalance_signal = 2 /\ ~slab_rebal.done /\ moving = "none" /\ cache_lock = None
Trylock(h) == item[h].key \notin {k \in Keys : item_locks[k] # None}

\* slab_rebalance_move(): the chunk is clear already, or its lock is held.
MovePass ==
    /\ Moves
    /\ \/ item[Pos].slabs_clsid = 255 /\ Advance(0)
       \/ item[Pos].slabs_clsid # 255 /\ ~Trylock(Pos) /\ Advance(1)
    /\ UNCHANGED <<memvars, item_locks, cache_lock, op, ops, slab_rebalance_signal, moving,
                   rebalances, raced>>

\* Under the item lock: refcount_incr(), the decision, and what it takes off
\* the lists.
MoveItem ==
    /\ Moves
    /\ item[Pos].slabs_clsid # 255 /\ Trylock(Pos)
    /\ cache_lock' = Mover
    /\ \/ /\ item[Pos].refcount = 0 /\ "SLABBED" \in item[Pos].flags
          /\ moving' = "DONE"
          /\ slots' = [slots EXCEPT ![slab_rebal.s_clsid] = RemoveFirst(@, Pos)]
          /\ item' = [item EXCEPT ![Pos].refcount = 1]
          /\ UNCHANGED lru
       \/ /\ item[Pos].refcount = 1 /\ Linked(Pos)
          /\ moving' = "DONE"
          /\ item' = [item EXCEPT ![Pos].flags = @ \ {"LINKED"}]
          /\ lru' = [c \in Classes |-> RemoveFirst(lru[c], Pos)]
          /\ UNCHANGED slots
       \/ /\ ~(item[Pos].refcount = 0 /\ "SLABBED" \in item[Pos].flags)
          /\ ~(item[Pos].refcount = 1 /\ Linked(Pos))
          /\ moving' = "BUSY"
          /\ item' = [item EXCEPT ![Pos].refcount = @ + 1]
          /\ UNCHANGED <<slots, lru>>
    /\ UNCHANGED <<slab_list, item_locks, op, ops, slab_rebalance_signal, slab_rebal, rebalances,
                   raced>>

\* After item_trylock_unlock().
MoveEnd ==
    /\ moving # "none"
    /\ IF moving = "DONE"
       THEN item' = [item EXCEPT ![Pos] = [Blank EXCEPT !.slabs_clsid = 255]] /\ Advance(0)
       ELSE item' = [item EXCEPT ![Pos].refcount = @ - 1] /\ Advance(1)
    /\ moving' = "none"
    /\ cache_lock' = None
    /\ UNCHANGED <<slots, slab_list, lru, item_locks, op, ops, slab_rebalance_signal, rebalances,
                   raced>>

\* Mutant: the class still counts the page it has lost.
RebalanceFinish_Counted ==
    /\ slab_rebal.done /\ cache_lock = None
    /\ LET s == slab_rebal.s_clsid
           d == slab_rebal.d_clsid
           new == PageChunks(MovingPage, d)
       IN  /\ slab_list' = [slab_list EXCEPT ![s] = [@ EXCEPT ![1] = Last(slab_list[s])],
                                             ![d] = Append(@, MovingPage)]
           /\ item' = [h \in Chunks |-> IF h \in ToSet(new) THEN Slabbed(Blank) ELSE item[h]]
           /\ slots' = [slots EXCEPT ![d] = Reverse(new) \o @]
    /\ slab_rebal' = NotMoving
    /\ slab_rebalance_signal' = 0
    /\ UNCHANGED <<lru, item_locks, cache_lock, op, ops, moving, rebalances, raced>>

\* slab_rebalance_finish(): the last page of the list takes the place of the
\* first, which is cleared and split for the other class.
RebalanceFinish ==
    /\ slab_rebal.done /\ cache_lock = None
    /\ LET s == slab_rebal.s_clsid
           d == slab_rebal.d_clsid
           new == PageChunks(MovingPage, d)
       IN  /\ slab_list' = [slab_list EXCEPT
                               ![s] = Front([@ EXCEPT ![1] = Last(slab_list[s])]),
                               ![d] = Append(@, MovingPage)]
           /\ item' = [h \in Chunks |->
                          IF h \in ToSet(new) THEN Slabbed(Blank)
                          ELSE IF h[1] = MovingPage THEN Blank ELSE item[h]]
           /\ slots' = [slots EXCEPT ![d] = Reverse(new) \o @]
    /\ slab_rebal' = NotMoving
    /\ slab_rebalance_signal' = 0
    /\ UNCHANGED <<lru, item_locks, cache_lock, op, ops, moving, rebalances, raced>>

-----------------------------------------------------------------------------
Worker(w) ==
    \/ AllocStart(w)
    \/ SkipLocked(w)
    \/ SkipBusy(w)
    \/ Found(w)
    \/ Exhausted(w)
    \/ InitItem(w)
    \/ ItemLock(w)
    \/ DoItemGet(w)
    \/ Unlink(w)
    \/ Link(w)
    \/ Drop(w)
    \/ ItemRemove(w)
    \/ Unlock(w)
    \/ FreeItem(w)

Rebalancer ==
    \/ RebalanceStart
    \/ MovePass
    \/ MoveItem
    \/ MoveEnd
    \/ RebalanceFinish

\* Once two threads have written to one list there is no telling what it holds.
Intact == "lists" \notin raced

Step ==
    \/ \E w \in Workers, do \in {"set", "append", "get", "delete"}, k \in Keys, c \in UsedClasses :
           Begin(w, do, k, c)
    \/ \E w \in Workers : ClientGoesOn(w)
    \/ \E w \in Workers : Worker(w)
    \/ \E src, dst \in Classes : Reassign(src, dst)
    \/ Rebalancer

Next == Intact /\ Step

\* A thread that wants a mutex gets it at some time: the rebalancer sleeps
\* after a busy chunk to let the others in.  Clients owe nothing.
Fairness ==
    /\ \A w \in Workers : SF_vars(Intact /\ Worker(w))
    /\ WF_vars(Intact /\ Rebalancer)

Spec == Init /\ [][Next]_vars /\ Fairness

-----------------------------------------------------------------------------
(***************************************************************************)
(* Properties.                                                             *)
(***************************************************************************)
\* Every variable has its type, the pages are shared out among the classes,
\* and the mover is inside slab_rebalance_move() when it has found something.
TypeOK ==
    /\ \A h \in Chunks : /\ item[h].flags \subseteq {"SLABBED", "LINKED"}
                         /\ item[h].refcount \in Nat \/ "unlink" \in raced
                         /\ item[h].slabs_clsid \in Classes \cup {0, 255}
                         /\ item[h].key \in Keys \cup {None}
    /\ \A c \in Classes : ToSet(slab_list[c]) \subseteq Pages /\ IsInjective(slab_list[c])
    /\ \A c, d \in Classes : c # d => ToSet(slab_list[c]) \cap ToSet(slab_list[d]) = {}
    /\ item_locks \in [Keys -> Workers \cup {None}]
    /\ cache_lock \in Workers \cup {Mover, None}
    /\ slab_rebalance_signal \in 0..2 /\ moving \in {"none", "DONE", "BUSY"}
    /\ (cache_lock = Mover) = (moving # "none")
    /\ raced \subseteq {"unlock", "unlink", "lists"}

Refers(w, h) == op[w] # Idle /\ h \in {op[w].it, op[w].old, op[w].new}

\* References there are to a chunk: the table's, the workers', the mover's.
Refs(h) ==
    (IF Linked(h) THEN 1 ELSE 0)
    + Cardinality({w \in Workers : Refers(w, h)})
    + (IF moving # "none" /\ h = Pos THEN 1 ELSE 0)

\* Whatever the rebalancer, the allocation and do_item_get() do to a chunk at
\* the same time, its reference count is exact, the LRU lists hold the linked
\* chunks and the free list of a class holds chunks of its own pages, once
\* each, that nobody refers to.  Excepted is what follows once do_item_get(),
\* without cache_lock, has unlinked an item in the middle of a search of
\* do_item_alloc(), after which its chunk may be used twice, or in the middle
\* of another update of its list, after which the list may be broken.
ChunksAccountedUnlessUnlinkRaced ==
    "unlink" \notin raced =>
        /\ \A h \in Chunks : item[h].refcount = Refs(h)
        /\ UNION {ToSet(lru[c]) : c \in Classes} = {h \in Chunks : Linked(h)}
        /\ \A c \in Classes :
              /\ IsInjective(slots[c])
              /\ ToSet(slots[c]) \subseteq ChunksIn(slab_list[c], c)
              /\ \A i \in DOMAIN slots[c] : Refs(slots[c][i]) = 0

\* "At this point the stolen slab is completely clear": when it is memset no
\* list holds a chunk of it and no worker has one in hand (with the exception
\* of ChunksAccountedUnlessUnlinkRaced).
PageClearUnlessUnlinkRaced ==
    slab_rebal.done /\ "unlink" \notin raced =>
        \A h \in Chunks : h[1] = MovingPage =>
            /\ \A w \in Workers : ~Refers(w, h) /\ (op[w] # Idle => op[w].free # h)
            /\ \A c \in Classes : ~Contains(slots[c], h) /\ ~Contains(lru[c], h)

InItemLock(w) ==
    op[w] # Idle /\ (op[w].at \in {"get", "unlink", "link", "drop", "removing", "unlock"}
                     \/ (op[w].at \in {"alloc", "search", "init"} /\ InAppend(w)))

\* A worker that is between item_lock() and item_unlock() has the lock, and
\* so is alone there, unless do_item_alloc() has unlocked a hold_lock that was
\* left over from an earlier item of its search.
LockHeldUnlessStaleUnlock ==
    \A w \in Workers : InItemLock(w) => item_locks[op[w].key] = w \/ "unlock" \in raced

\* A chunk nobody refers to and that no list holds: the mover's reference was
\* the last one when it gave it up, and it does not free.
Leaked(h) ==
    /\ item[h].refcount = 0 /\ item[h].flags = {} /\ item[h].slabs_clsid \in Classes
    /\ \A w \in Workers : op[w] # Idle => op[w].free # h

\* Once no client keeps an item waiting, a rebalance that has been asked for
\* comes to its end, unless it has leaked a chunk of its page or a list broke.
RebalanceEnds ==
    <>[](\A w \in Workers : ~At(w, "reading") /\ ~At(w, "writing"))
        => (slab_rebalance_signal # 0
               ~> \/ slab_rebalance_signal = 0 \/ ~Intact
                  \/ \E h \in Chunks : InMovingPage(h) /\ Leaked(h))
=============================================================================
