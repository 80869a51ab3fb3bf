------------------------------ MODULE ItemStore ------------------------------
(***************************************************************************)
(* The item store of a server (items.c, assoc.c, the free list of slabs.c, *)
(* the item wrappers of thread.c) and the commands of memcached.c that use *)
(* it.                                                                     *)
(*                                                                         *)
(* An item lives in a chunk.  A chunk is on the free list, or linked (in   *)
(* the hash table and in the LRU list), or only held: a connection holds   *)
(* the item it is uploading (c->item) and the items it is sending          *)
(* (c->ilist), and a chunk goes back to the free list when its reference   *)
(* count drops to 0.  The commands run one at a time, as they do with      *)
(* RamCube's single worker thread (num_threads is set to 1); connections   *)
(* interleave between commands, with uploads and replies half done.        *)
(*                                                                         *)
(* The heap (item, assoc, lru, slots, ...) is one record so that a C       *)
(* function is an operator from heap to heap; functions that also return   *)
(* an item give a record [h, it], with Nil for NULL.  There is one slab    *)
(* class.  The bytes of a value are a member of Vals.                      *)
(***************************************************************************)
EXTENDS Integers, Sequences, FiniteSets

CONSTANTS
    Keys, Conns,
    Vals,                   \* values
    NoKey, NoVal,           \* neither a key nor a value
    Numeric,                \* the values incr accepts
    Bump(_),                \* what incr makes of a value
    Join(_, _),             \* what append makes of a value and the bytes it is given
    SameLock(_, _),         \* two keys share an item lock
    NChunks,                \* chunks of the slab class
    RefMod,                 \* 2^16: refcount is an unsigned short
    MaxGet,                 \* bound: hits of one get command, entries of c->ilist
    Tries,                  \* 5: items do_item_alloc looks at
    TAIL_REPAIR_TIME, ITEM_UPDATE_INTERVAL,
    evict_to_free,          \* settings.evict_to_free
    REALTIME_MAXDELTA,      \* 30 days: longer ones are times of the day
    process_started,        \* the time of the day that is 0 in current_time
    Lifetimes,              \* exptime arguments of commands, 0 is never
    Delays,                 \* arguments of flush_all, 0 is now
    Comms,                  \* storage commands clients use
    CasIds,                 \* CAS ids clients give with a cas or an append
    MaxTime, MaxCas         \* bounds: current_time, CAS ids

Chunks == 1..NChunks
Nil == 0
Entries == 1..MaxGet
Handles == Conns \X (0..MaxGet)   \* <<c, 0>> is c->item, <<c, i>> an entry of c->ilist

Comm == {"set", "add", "replace", "append", "cas"}

ASSUME ItemStoreAssumption ==
    /\ IsFiniteSet(Conns)
    /\ NoKey \notin Keys /\ NoVal \notin Vals
    /\ NChunks \in Nat
    /\ Numeric \subseteq Vals
    /\ \A v \in Numeric : Bump(v) \in Vals
    /\ \A v, w \in Vals : Join(v, w) \in Vals
    /\ RefMod \in Nat /\ RefMod > 3
    /\ MaxGet \in Nat
    /\ REALTIME_MAXDELTA \in Nat /\ process_started \in Nat
    /\ Tries \in Nat /\ TAIL_REPAIR_TIME \in Nat /\ ITEM_UPDATE_INTERVAL \in Nat
    /\ evict_to_free \in BOOLEAN
    /\ Lifetimes \subseteq Nat /\ Delays \subseteq Nat /\ Comms \subseteq Comm
    /\ CasIds \subseteq Nat
    /\ MaxTime \in Nat /\ MaxCas \in Nat

VARIABLES
    heap,           \* the heap, see Heap
    ref,            \* the chunk each handle refers to, or Nil
    cmd,            \* c->cmd, "none" when there is no upload to read it for
    current_time,
    oldest_live,    \* settings.oldest_live
    flushing,       \* the worker is in do_item_flush_expired
    turn,           \* the connection whose c->ilist it is filling or emptying
    truth,          \* value the last command about each key left, or NoVal (history)
    told,           \* [key, cas, val] that clients were sent (history)
    undone          \* a flush in force was replaced by one that is not (history)

vars == <<heap, ref, cmd, current_time, oldest_live, flushing, turn, truth, told, undone>>

Item == [key : Keys \cup {NoKey}, val : Vals \cup {NoVal}, cas : Nat, time : Nat,
         exptime : Nat, refcount : Nat, linked : BOOLEAN, slabbed : BOOLEAN]

\* item: the chunks.  assoc: the hash chain of each key, in the order assoc_find
\* meets it.  lru: heads[id] first.  slots: the free list, top first.  damaged:
\* do_item_alloc took an item away from whoever held it, or a count wrapped around.
Heap == [item : [Chunks -> Item], assoc : [Keys -> Seq(Chunks)], lru : Seq(Chunks),
         slots : Seq(Chunks), cas_id : Nat, damaged : BOOLEAN]

FreeItem == [key |-> NoKey, val |-> NoVal, cas |-> 0, time |-> 0, exptime |-> 0,
             refcount |-> 0, linked |-> FALSE, slabbed |-> TRUE]

-----------------------------------------------------------------------------
(***************************************************************************)
(* items.c                                                                 *)
(***************************************************************************)

\* refcount_incr and refcount_decr wrap around.
Wrap(n) == IF n >= RefMod THEN n - RefMod ELSE IF n < 0 THEN n + RefMod ELSE n
Incr(h, x) == [h EXCEPT !.item[x].refcount = Wrap(@ + 1)]
Decr(h, x) == [h EXCEPT !.item[x].refcount = Wrap(@ - 1)]

\* x becomes the head of a list.
Push(s, x) == <<x>> \o s

\* item_free, slabs_free: what a free chunk still contains does not matter.
ItemFree(h, x) == [h EXCEPT !.item[x] = FreeItem, !.slots = Push(@, x)]

DoItemRemove(h, x) ==
    LET g == Decr(h, x)
    IN  IF g.item[x].refcount = 0 THEN ItemFree(g, x) ELSE g

\* item_unlink_q: the list without x.
Without(s, x) ==
    IF \E i \in DOMAIN s : s[i] = x
    THEN LET i == CHOOSE i \in DOMAIN s : s[i] = x
         IN  [j \in 1..(Len(s) - 1) |-> IF j < i THEN s[j] ELSE s[j + 1]]
    ELSE s

\* item_link_q of an item that item_unlink_q took out, or of a new one: it
\* becomes the head.
Relink(s, x) == Push(Without(s, x), x)

\* assoc_delete: the first item of the chain with that key goes.
AssocDelete(assoc, k) == [assoc EXCEPT ![k] = IF @ = <<>> THEN @ ELSE Tail(@)]

\* Mutant of DoItemUnlink: the item stays in the hash table.
DoItemUnlink_Lru(h, x) ==
    IF h.item[x].linked
    THEN DoItemRemove([h EXCEPT !.item[x].linked = FALSE, !.lru = Without(@, x)], x)
    ELSE h

\* do_item_unlink, do_item_unlink_nolock.
DoItemUnlink(h, x) ==
    IF h.item[x].linked
    THEN DoItemRemove([h EXCEPT !.item[x].linked = FALSE,
                                !.assoc = AssocDelete(@, h.item[x].key),
                                !.lru = Without(@, x)], x)
    ELSE h

\* Mutant of DoItemLink: the item keeps the CAS id it has.
DoItemLink_OldCas(h, x) ==
    Incr([h EXCEPT !.item[x].linked = TRUE, !.item[x].time = current_time,
                   !.assoc[h.item[x].key] = Push(@, x), !.lru = Push(@, x)], x)

\* do_item_link: a new CAS id, the head of its chain and of the LRU list.
DoItemLink(h, x) ==
    Incr([h EXCEPT !.item[x].linked = TRUE, !.item[x].time = current_time,
                   !.item[x].cas = h.cas_id + 1, !.cas_id = h.cas_id + 1,
                   !.assoc[h.item[x].key] = Push(@, x),
                   !.lru = Push(@, x)], x)

DoItemReplace(h, x, new) == DoItemLink(DoItemUnlink(h, x), new)

\* do_item_update: current_time - ITEM_UPDATE_INTERVAL is unsigned, and large
\* before the first interval is over.
DoItemUpdate(h, x) ==
    IF /\ \/ current_time < ITEM_UPDATE_INTERVAL
          \/ h.item[x].time < current_time - ITEM_UPDATE_INTERVAL
       /\ h.item[x].linked
    THEN [h EXCEPT !.lru = Relink(@, x), !.item[x].time = current_time]
    ELSE h

\* Flushed, or expired, at the time a command looks.
Flushed(i) == oldest_live # 0 /\ oldest_live <= current_time /\ i.time <= oldest_live
Expired(i) == i.exptime # 0 /\ i.exptime <= current_time

\* do_item_get: a flushed or expired item is unlinked instead of returned.
DoItemGet(h, k) ==
    IF h.assoc[k] = <<>> THEN [h |-> h, it |-> Nil]
    ELSE LET x == Head(h.assoc[k])
             g == Incr(h, x)
         IN  IF Flushed(g.item[x]) \/ Expired(g.item[x])
             THEN [h |-> DoItemRemove(DoItemUnlink(g, x), x), it |-> Nil]
             ELSE [h |-> g, it |-> x]

-----------------------------------------------------------------------------
(***************************************************************************)
(* do_item_alloc.  cur is the key whose item lock the caller has, NoKey if *)
(* none.                                                                   *)
(***************************************************************************)

\* The LRU positions from the tail up at which the search ends: not an item whose
\* lock is taken (by the caller itself, for another key), and not one that is
\* held, unless it is old enough for tail repair.
Stops(h, cur) ==
    {i \in DOMAIN h.lru :
        LET m == h.item[h.lru[i]]
        IN  /\ i + Tries > Len(h.lru)
            /\ ~(cur # NoKey /\ m.key # cur /\ SameLock(m.key, cur))
            /\ m.refcount = 1 \/ m.time + TAIL_REPAIR_TIME < current_time}

\* The item the search ends at, Nil if it ends without one.
Search(h, cur) ==
    IF Stops(h, cur) = {} THEN Nil
    ELSE h.lru[CHOOSE i \in Stops(h, cur) : \A j \in Stops(h, cur) : j <= i]

\* Fields that are not set here are set before they are read.
NewItem(k, exptime) ==
    [FreeItem EXCEPT !.key = k, !.exptime = exptime, !.refcount = 1, !.slabbed = FALSE]

Initialised(h, x, k, exptime) ==
    [h |-> [h EXCEPT !.item[x] = NewItem(k, exptime)], it |-> x]

\* slabs_alloc with no page left to add.
SlabsAlloc(h, k, exptime) ==
    IF h.slots = <<>> THEN [h |-> h, it |-> Nil]
    ELSE Initialised([h EXCEPT !.slots = Tail(@)], Head(h.slots), k, exptime)

\* Tail repair: the references of others are struck out and the item unlinked,
\* which frees it.  slabs_free clears prev, so the search ends here.
TailRepair(h, x) ==
    [DoItemUnlink([h EXCEPT !.item[x].refcount = 1], x) EXCEPT !.damaged = TRUE]

\* An expired or evicted item is unlinked under a reference of the search, which
\* is dropped without freeing: the chunk is the new item's.
Reclaim(h, x) == Decr(DoItemUnlink(Incr(h, x), x), x)

Reclaimable(m) ==
    \/ m.exptime # 0 /\ m.exptime < current_time
    \/ m.time <= oldest_live /\ oldest_live <= current_time

DoItemAlloc(h, k, exptime, cur) ==
    LET x == Search(h, cur)
    IN  IF x = Nil THEN SlabsAlloc(h, k, exptime)
        ELSE IF h.item[x].refcount # 1 THEN SlabsAlloc(TailRepair(h, x), k, exptime)
        ELSE IF Reclaimable(h.item[x])
             THEN Initialised(Reclaim(h, x), x, k, exptime)
        ELSE IF h.slots # <<>> THEN SlabsAlloc(h, k, exptime)
        ELSE IF evict_to_free THEN Initialised(Reclaim(h, x), x, k, exptime)
        ELSE [h |-> h, it |-> Nil]

-----------------------------------------------------------------------------
(***************************************************************************)
(* memcached.c: do_store_item and do_add_delta.                            *)
(***************************************************************************)

\* do_item_remove of an item or of NULL.
Drop(h, x) == IF x = Nil THEN h ELSE DoItemRemove(h, x)

\* Link x, in the place of old if there is one.
Store(h, old, x) == IF old = Nil THEN DoItemLink(h, x) ELSE DoItemReplace(h, old, x)

\* do_store_item of the uploaded item x: a heap and an answer.
DoStoreItem(h, x, comm) ==
    LET m   == h.item[x]
        got == DoItemGet(h, m.key)
        old == got.it
        Answer(g, a) == [h |-> g, a |-> a]
        stored == Answer(Drop(Store(got.h, old, x), old), "STORED")
        new == DoItemAlloc(got.h, m.key, got.h.item[old].exptime, m.key)
        joined == [new.h EXCEPT !.item[new.it].val = Join(got.h.item[old].val, m.val)]
    IN  CASE comm = "add" /\ old # Nil ->
                 Answer(Drop(DoItemUpdate(got.h, old), old), "NOT_STORED")
          [] comm \in {"replace", "append"} /\ old = Nil -> Answer(got.h, "NOT_STORED")
          [] comm = "cas" /\ old = Nil -> Answer(got.h, "NOT_FOUND")
          [] comm = "cas" /\ old # Nil ->
                 IF m.cas = got.h.item[old].cas THEN stored
                 ELSE Answer(Drop(got.h, old), "EXISTS")
          [] comm = "append" /\ old # Nil /\ m.cas \notin {0, got.h.item[old].cas} ->
                 Answer(Drop(got.h, old), "EXISTS")
          [] comm = "append" /\ old # Nil /\ m.cas \in {0, got.h.item[old].cas} ->
                 IF new.it = Nil THEN Answer(Drop(new.h, old), "NOT_STORED")
                 ELSE Answer(Drop(Drop(DoItemReplace(joined, old, new.it), old), new.it),
                             "STORED")
          [] OTHER -> stored

\* Mutant of AddDeltaInPlace: the value is changed whoever else reads it.
AddDeltaInPlace_Always(m) == TRUE

\* do_add_delta changes the value in place only if refcount is 1, and it has just
\* taken a reference itself.
AddDeltaInPlace(m) == m.refcount = 1

\* The new version replaces the old one, which is given the new CAS id too.
ReplaceBumped(h, it, new) ==
    LET g == DoItemReplace(h, it, new)
    IN  [g EXCEPT !.item[it].cas = g.item[new].cas]

\* do_add_delta of key k: a heap and an answer.
DoAddDelta(h, k) ==
    LET got == DoItemGet(h, k)
        it  == got.it
        v   == got.h.item[it].val
        new == DoItemAlloc(got.h, k, got.h.item[it].exptime, k)
        bumped == ReplaceBumped([new.h EXCEPT !.item[new.it].val = Bump(v)], it, new.it)
        inplace == [got.h EXCEPT !.item[it].val = Bump(v), !.cas_id = @ + 1,
                                 !.item[it].cas = got.h.cas_id + 1]
        Answer(g, a) == [h |-> g, a |-> a]
    IN  IF it = Nil THEN Answer(got.h, "NOT_FOUND")
        ELSE IF v \notin Numeric THEN Answer(Drop(got.h, it), "NON_NUMERIC")
        ELSE IF AddDeltaInPlace(got.h.item[it])
             THEN Answer(Drop(DoItemUpdate(inplace, it), it), "OK")
        ELSE IF new.it = Nil THEN Answer(Drop(new.h, it), "EOM")
        ELSE Answer(Drop(Drop(bumped, new.it), it), "OK")

-----------------------------------------------------------------------------
Init ==
    /\ heap = [item |-> [x \in Chunks |-> FreeItem], assoc |-> [k \in Keys |-> <<>>],
               lru |-> <<>>, slots |-> [i \in 1..NChunks |-> i], cas_id |-> 0,
               damaged |-> FALSE]
    /\ ref = [r \in Handles |-> Nil]
    /\ cmd = [c \in Conns |-> "none"]
    /\ current_time = 2
    /\ oldest_live = 0
    /\ flushing = FALSE
    /\ turn = <<>>
    /\ truth = [k \in Keys |-> NoVal]
    /\ told = {}
    /\ undone = FALSE

\* The worker serves the next event.  Once tail repair has freed an item in use, or
\* a count has wrapped around, the heap is damaged and the model ends.
Idle == ~heap.damaged /\ ~flushing /\ turn = <<>>

\* The event is a command of c: nothing of c is in progress.
Ready(c) ==
    /\ Idle
    /\ ref[<<c, 0>>] = Nil
    /\ \A i \in Entries : ref[<<c, i>>] = Nil

\* The refcount_incr of do_item_get, the only one of an item that connections may
\* hold any number of references to, does not wrap around.
Countable(h, k) ==
    h.assoc[k] # <<>> => h.item[Head(h.assoc[k])].refcount + 1 < RefMod

\* It does: the command is left in the middle, after the increment.
WrapAround(c, k) ==
    /\ ~heap.damaged /\ ~flushing
    /\ \/ Ready(c)
       \/ turn = <<"get", c>>
       \/ turn = <<>> /\ ref[<<c, 0>>] # Nil /\ heap.item[ref[<<c, 0>>]].key = k
    /\ ~Countable(heap, k)
    /\ heap' = [Incr(heap, Head(heap.assoc[k])) EXCEPT !.damaged = TRUE]
    /\ UNCHANGED <<ref, cmd, current_time, oldest_live, flushing, turn, truth, told, undone>>

\* realtime(): seconds from now, or a time of the day, which is 1 if it is not after
\* the start.
Realtime(exptime) ==
    IF exptime = 0 THEN 0
    ELSE IF exptime <= REALTIME_MAXDELTA THEN exptime + current_time
    ELSE IF exptime <= process_started THEN 1
    ELSE exptime - process_started

\* process_update_command: space for the value.  If there is none the data is
\* swallowed, and a set removes the old item all the same.
UpdateCommand(c, k, comm, lifetime, cas) ==
    /\ Ready(c)
    /\ LET new == DoItemAlloc(heap, k, Realtime(lifetime), NoKey)
           got == DoItemGet(new.h, k)
           old == got.it
       IN  IF new.it # Nil
           THEN /\ heap' = [new.h EXCEPT !.item[new.it].cas = cas]
                /\ ref' = [ref EXCEPT ![<<c, 0>>] = new.it]
                /\ cmd' = [cmd EXCEPT ![c] = comm]
                /\ UNCHANGED truth
           ELSE /\ comm = "set" => Countable(new.h, k)
                /\ heap' = IF comm # "set" THEN new.h
                           ELSE IF old = Nil THEN got.h
                           ELSE DoItemRemove(DoItemUnlink(got.h, old), old)
                /\ truth' = IF comm = "set" THEN [truth EXCEPT ![k] = NoVal] ELSE truth
                /\ UNCHANGED <<ref, cmd>>
    /\ UNCHANGED <<current_time, oldest_live, flushing, turn, told, undone>>

\* Mutant of Uploaded: the item is stored before its data has been read.
Uploaded_Late(h, x, v) == h

\* conn_nread: the data is read into the item.
Uploaded(h, x, v) == [h EXCEPT !.item[x].val = v]

\* complete_nread_ascii: the data has arrived, and may not end in a line end.
CompleteNread(c, v, good) ==
    /\ Idle /\ ref[<<c, 0>>] # Nil
    /\ heap.cas_id < MaxCas
    /\ LET x == ref[<<c, 0>>]
           k == heap.item[x].key
           h == Uploaded(heap, x, v)
           r == IF good THEN DoStoreItem(h, x, cmd[c]) ELSE [h |-> h, a |-> "CLIENT_ERROR"]
       IN  /\ good => Countable(h, k)
           /\ heap' = DoItemRemove(r.h, x)
           /\ truth' = CASE r.a = "STORED" /\ cmd[c] = "append" ->
                                [truth EXCEPT ![k] = IF @ = NoVal THEN @ ELSE Join(@, v)]
                         [] r.a = "STORED" /\ cmd[c] # "append" -> [truth EXCEPT ![k] = v]
                         [] r.a = "NOT_FOUND" -> [truth EXCEPT ![k] = NoVal]
                         [] OTHER -> truth
    /\ ref' = [ref EXCEPT ![<<c, 0>>] = Nil]
    /\ cmd' = [cmd EXCEPT ![c] = "none"]
    /\ UNCHANGED <<current_time, oldest_live, flushing, turn, told, undone>>

\* process_get_command: one key, the first or a later one, and more may follow.  A
\* hit is kept in the next entry of c->ilist until all are sent.
GetCommand(c, k, i) ==
    /\ Ready(c) \/ (~heap.damaged /\ ~flushing /\ turn = <<"get", c>>)
    /\ ref[<<c, i>>] = Nil /\ \A j \in 1..(i - 1) : ref[<<c, j>>] # Nil
    /\ Countable(heap, k)
    /\ turn' \in {<<>>} \cup (IF i < MaxGet THEN {<<"get", c>>} ELSE {})
    /\ LET got == DoItemGet(heap, k)
           m == got.h.item[got.it]
       IN  IF got.it = Nil
           THEN /\ heap' = got.h
                /\ truth' = [truth EXCEPT ![k] = NoVal]
                /\ UNCHANGED <<ref, told>>
           ELSE /\ heap' = DoItemUpdate(got.h, got.it)
                /\ ref' = [ref EXCEPT ![<<c, i>>] = got.it]
                /\ told' = told \cup {[key |-> k, cas |-> m.cas, val |-> m.val]}
                /\ UNCHANGED truth
    /\ UNCHANGED <<cmd, current_time, oldest_live, flushing, undone>>

\* Releasing the items of c->ilist is next, if there are any.
Releasing(c) == IF \E i \in Entries : ref[<<c, i>>] # Nil THEN <<"release", c>> ELSE <<>>

\* conn_mwrite, all written: the items that were sent are released.
Sent(c) ==
    /\ Idle /\ \E i \in Entries : ref[<<c, i>>] # Nil
    /\ turn' = Releasing(c)
    /\ UNCHANGED <<heap, ref, cmd, current_time, oldest_live, flushing, truth, told, undone>>

\* One round of the loop over c->ilist, here and in conn_cleanup.
Release(c, i) ==
    /\ ~heap.damaged /\ ~flushing /\ turn = <<"release", c>>
    /\ ref[<<c, i>>] # Nil /\ \A j \in 1..(i - 1) : ref[<<c, j>>] = Nil
    /\ heap' = DoItemRemove(heap, ref[<<c, i>>])
    /\ ref' = [ref EXCEPT ![<<c, i>>] = Nil]
    /\ turn' = IF \E j \in Entries : j # i /\ ref[<<c, j>>] # Nil THEN turn ELSE <<>>
    /\ UNCHANGED <<cmd, current_time, oldest_live, flushing, truth, told, undone>>

\* Mutant of ConnCleanup: the item being uploaded is not released.
ConnCleanup_Leak(c) ==
    /\ UNCHANGED heap
    /\ turn' = Releasing(c)

\* conn_cleanup: what c holds is released.
ConnCleanup(c) ==
    /\ heap' = Drop(heap, ref[<<c, 0>>])
    /\ turn' = Releasing(c)

\* The client leaves in the middle of an upload or a reply.
Close(c) ==
    /\ Idle /\ ~Ready(c)
    /\ ConnCleanup(c)
    /\ ref' = [ref EXCEPT ![<<c, 0>>] = Nil]
    /\ cmd' = [cmd EXCEPT ![c] = "none"]
    /\ UNCHANGED <<current_time, oldest_live, flushing, truth, told, undone>>

\* process_delete_command.
DeleteCommand(c, k) ==
    /\ Ready(c) /\ Countable(heap, k)
    /\ LET got == DoItemGet(heap, k)
       IN  heap' = IF got.it = Nil THEN got.h
                   ELSE DoItemRemove(DoItemUnlink(got.h, got.it), got.it)
    /\ truth' = [truth EXCEPT ![k] = NoVal]
    /\ UNCHANGED <<ref, cmd, current_time, oldest_live, flushing, turn, told, undone>>

\* process_touch_command.
TouchCommand(c, k, lifetime) ==
    /\ Ready(c) /\ Countable(heap, k)
    /\ LET got == DoItemGet(heap, k)
           touched == [got.h EXCEPT !.item[got.it].exptime = Realtime(lifetime)]
       IN  heap' = IF got.it = Nil THEN got.h
                   ELSE DoItemRemove(DoItemUpdate(touched, got.it), got.it)
    /\ UNCHANGED <<ref, cmd, current_time, oldest_live, flushing, turn, truth, told, undone>>

\* process_arithmetic_command with incr.
ArithmeticCommand(c, k) ==
    /\ Ready(c) /\ Countable(heap, k) /\ heap.cas_id < MaxCas
    /\ LET r == DoAddDelta(heap, k)
       IN  /\ heap' = r.h
           /\ truth' = CASE r.a = "OK" -> [truth EXCEPT ![k] = IF @ \in Numeric THEN Bump(@) ELSE NoVal]
                         [] r.a = "NOT_FOUND" -> [truth EXCEPT ![k] = NoVal]
                         [] OTHER -> truth
    /\ UNCHANGED <<ref, cmd, current_time, oldest_live, flushing, turn, told, undone>>

InForce(flush) == flush # 0 /\ flush <= current_time

\* flush_all: now, later, or at a time of the day, which may be over.
FlushAll(c, delay) ==
    /\ Ready(c)
    /\ oldest_live' = IF delay > 0 THEN Realtime(delay) - 1 ELSE current_time - 1
    /\ flushing' = TRUE
    /\ truth' = IF InForce(oldest_live') THEN [k \in Keys |-> NoVal] ELSE truth
    /\ undone' = (undone \/ (InForce(oldest_live) /\ ~InForce(oldest_live')))
    /\ UNCHANGED <<heap, ref, cmd, current_time, turn, told>>

\* Mutant of SweepsOn: the comparison is reversed.
SweepsOn_Reversed(h) ==
    oldest_live # 0 /\ h.lru # <<>> /\ h.item[Head(h.lru)].time <= oldest_live

\* The loop of do_item_flush_expired goes on: the head of the LRU list, which is
\* the next item since the ones before are gone, is not older than oldest_live.
SweepsOn(h) ==
    oldest_live # 0 /\ h.lru # <<>> /\ h.item[Head(h.lru)].time >= oldest_live

\* One round of the loop, or its end.  The clock may tick in between.
FlushExpired ==
    /\ ~heap.damaged /\ flushing
    /\ heap' = IF SweepsOn(heap) THEN DoItemUnlink(heap, Head(heap.lru)) ELSE heap
    /\ flushing' = SweepsOn(heap)
    /\ UNCHANGED <<ref, cmd, current_time, oldest_live, turn, truth, told, undone>>

\* clock_handler.
Tick ==
    /\ current_time < MaxTime
    /\ current_time' = current_time + 1
    /\ UNCHANGED <<heap, ref, cmd, oldest_live, flushing, turn, truth, told, undone>>

Next ==
    \/ \E c \in Conns, k \in Keys, comm \in Comms, t \in Lifetimes :
          \E cas \in CASE comm = "cas" -> CasIds [] comm = "append" -> {0} \cup CasIds [] OTHER -> {0} :
              UpdateCommand(c, k, comm, t, cas)
    \/ \E c \in Conns, v \in Vals, good \in BOOLEAN : CompleteNread(c, v, good)
    \/ \E c \in Conns, k \in Keys, i \in Entries : GetCommand(c, k, i)
    \/ \E c \in Conns, k \in Keys : WrapAround(c, k)
    \/ \E c \in Conns : Sent(c)
    \/ \E c \in Conns, i \in Entries : Release(c, i)
    \/ \E c \in Conns : Close(c)
    \/ \E c \in Conns, k \in Keys : DeleteCommand(c, k)
    \/ \E c \in Conns, k \in Keys, t \in Lifetimes : TouchCommand(c, k, t)
    \/ \E c \in Conns, k \in Keys : ArithmeticCommand(c, k)
    \/ \E c \in Conns, d \in Delays : FlushAll(c, d)
    \/ FlushExpired
    \/ Tick

Spec == Init /\ [][Next]_vars

-----------------------------------------------------------------------------
(***************************************************************************)
(* Properties.                                                             *)
(***************************************************************************)

\* Every variable has its type.
TypeOK ==
    /\ heap \in Heap
    /\ ref \in [Handles -> Chunks \cup {Nil}]
    /\ cmd \in [Conns -> Comm \cup {"none"}]
    /\ current_time \in Nat /\ oldest_live \in Nat
    /\ truth \in [Keys -> Vals \cup {NoVal}]
    /\ told \in SUBSET [key : Keys, cas : Nat, val : Vals]
    /\ undone \in BOOLEAN /\ flushing \in BOOLEAN
    /\ turn \in {<<>>} \cup ({"get", "release"} \X Conns)

One(b) == IF b THEN 1 ELSE 0
HeldBy(x) == {r \in Handles : ref[r] = x}

\* The reference count of a chunk is one for the hash table and the LRU list
\* together and one for each connection that holds it, and the free list has
\* exactly the chunks nobody refers to: none is freed in use, none is lost.
RefsExact(h) ==
    /\ \A x \in Chunks :
          h.item[x].refcount = One(h.item[x].linked) + Cardinality(HeldBy(x))
    /\ \A x \in Chunks :
          (h.item[x].refcount = 0) <=> (\E i \in DOMAIN h.slots : h.slots[i] = x)
    /\ \A i, j \in DOMAIN h.slots : i # j => h.slots[i] # h.slots[j]

\* RefsExact as long as tail repair has not struck out references and no count has
\* wrapped around.
RefsExactUnlessDamaged == heap.damaged \/ RefsExact(heap)

\* The hash table and the LRU list contain the same items, the linked ones, and
\* no key twice: a second item under a key would be served again after the first
\* one is deleted, because assoc_delete goes by the key.
LinkedOnce ==
    heap.damaged \/
    /\ \A k \in Keys : Len(heap.assoc[k]) <= 1
    /\ \A x \in Chunks :
          LET linked == heap.item[x].linked
          IN  /\ linked <=> (\E i \in DOMAIN heap.lru : heap.lru[i] = x)
              /\ linked <=> (\E k \in Keys : heap.assoc[k] = <<x>> /\ heap.item[x].key = k)
    /\ \A i, j \in DOMAIN heap.lru : i # j => heap.lru[i] # heap.lru[j]

\* What a get of k would return now.
Visible(k) ==
    IF heap.assoc[k] = <<>> THEN NoVal
    ELSE LET m == heap.item[Head(heap.assoc[k])]
         IN  IF Flushed(m) \/ Expired(m) THEN NoVal ELSE m.val

\* A get returns what the last command about the key left, or nothing: no value
\* comes back that was overwritten, deleted, flushed or already reported missing.
NeverStale ==
    heap.damaged \/ flushing \/ \A k \in Keys : Visible(k) \in {NoVal, truth[k]}

\* The same as long as no flush that is in force is replaced by one that is not: one
\* in the future, or of a time before the start, which switches flushing off.
NeverStaleUnlessUndone == undone \/ NeverStale

\* A CAS id that a client was sent stands for the value it was sent with: if the
\* key has that id now it has that value, so a "cas" with it cannot overwrite a
\* value the client has not seen.
CasMeansValue ==
    heap.damaged \/
    \A t \in told : \A x \in Chunks :
        LET m == heap.item[x]
        IN  m.linked /\ m.key = t.key /\ m.cas = t.cas => m.val = t.val

\* The item a connection is sending keeps its key and value until it is released,
\* whatever the other connections do meanwhile.
SentItemStable ==
    [][\A c \in Conns, i \in Entries :
          LET x == ref[<<c, i>>]
          IN  (x # Nil /\ ref'[<<c, i>>] = x /\ ~heap'.damaged) =>
                  /\ heap'.item[x].key = heap.item[x].key
                  /\ heap'.item[x].val = heap.item[x].val]_vars
=============================================================================
