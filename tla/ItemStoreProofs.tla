--------------------------- MODULE ItemStoreProofs ---------------------------
(***************************************************************************)
(* Type correctness, RefsExactUnlessDamaged, LinkedOnce, CasMeansValue,   *)
(* SentItemStable and NeverStaleUnlessUndone of ItemStore, for every value *)
(* of its constants.  ItemHeapProofs says what each C function does to a   *)
(* sound heap; here the references that heap soundness counts are tied to  *)
(* the connections' handles, and every action is shown to keep the         *)
(* inductive invariant IInv and, on top of it, two more: ContentInv, about *)
(* what items contain, and FreshInv, about what a get returns.             *)
(***************************************************************************)
EXTENDS ItemHeapProofs

\* How many handles refer to each chunk.
Held(f) == [x \in Chunks |-> Cardinality({r \in Handles : f[r] = x})]

\* What a connection is uploading is not linked, and no other handle refers to it.
Uploads(h, f) ==
    \A c \in Conns : f[<<c, 0>>] # Nil =>
        /\ ~h.item[f[<<c, 0>>]].linked
        /\ h.item[f[<<c, 0>>]].key \in Keys
        /\ \A r \in Handles : r # <<c, 0>> => f[r] # f[<<c, 0>>]

\* The inductive invariant.
StoreInv == heap.damaged \/ (Sound(heap, Held(ref)) /\ Uploads(heap, ref))
IInv == TypeOK /\ current_time >= 1 /\ StoreInv

Refs == [Handles -> Chunks \cup {Nil}]
Turns == {<<>>} \cup ({"get", "release"} \X Conns)

-----------------------------------------------------------------------------
\* The handles of a connection.
LEMMA HandleFacts ==
  /\ \A c \in Conns : <<c, 0>> \in Handles
  /\ \A c \in Conns, i \in Entries : <<c, i>> \in Handles /\ i # 0
<1>1. 0 \in 0..MaxGet /\ \A i \in Entries : i \in 0..MaxGet /\ i # 0
  BY ItemStoreAssumption DEF Entries
<1> QED
  BY <1>1 DEF Handles

\* There are finitely many handles.
LEMMA HandlesFinite == IsFiniteSet(Handles)
<1>1. IsFiniteSet(0..MaxGet)
  BY ItemStoreAssumption, FS_Interval
<1> QED
  BY <1>1, ItemStoreAssumption, FS_Product DEF Handles

\* A chunk is held by a number of handles, each of which counts.
LEMMA HeldFacts ==
  ASSUME NEW f \in Refs
  PROVE  /\ Held(f) \in [Chunks -> Nat]
         /\ \A r \in Handles : f[r] # Nil => f[r] \in Chunks /\ Held(f)[f[r]] >= 1
<1>1. ASSUME NEW x \in Chunks
      PROVE  Held(f)[x] \in Nat /\ IsFiniteSet({r \in Handles : f[r] = x})
  <2> DEFINE S == {r \in Handles : f[r] = x}
  <2>1. S \subseteq Handles
    OBVIOUS
  <2> HIDE DEF S
  <2>2. IsFiniteSet(S)
    BY <2>1, HandlesFinite, FS_Subset
  <2>3. Cardinality(S) \in Nat
    BY <2>2, FS_CardinalityType
  <2>4. Held(f)[x] = Cardinality(S)
    BY DEF Held, S
  <2> QED
    BY <2>2, <2>3, <2>4 DEF S
<1>2. Held(f) \in [Chunks -> Nat]
  BY <1>1 DEF Held
<1>3. ASSUME NEW r \in Handles, f[r] # Nil
      PROVE  f[r] \in Chunks /\ Held(f)[f[r]] >= 1
  <2> DEFINE x == f[r]
             S == {q \in Handles : f[q] = x}
  <2>1. x \in Chunks
    BY <1>3 DEF Refs
  <2>2. r \in S
    OBVIOUS
  <2>3. Held(f)[x] = Cardinality(S)
    BY <2>1 DEF Held
  <2>4. IsFiniteSet(S) /\ Cardinality(S) \in Nat
    BY <1>1, <2>1, FS_CardinalityType
  <2> HIDE DEF S, x
  <2>5. Cardinality(S) # 0
    BY <2>2, <2>4, FS_EmptySet
  <2> QED
    BY <2>1, <2>3, <2>4, <2>5 DEF x
<1> QED
  BY <1>2, <1>3

\* What is being uploaded is held once.
LEMMA UploadHeldOnce ==
  ASSUME NEW h, NEW f \in Refs, Uploads(h, f), NEW c \in Conns, f[<<c, 0>>] # Nil
  PROVE  Held(f)[f[<<c, 0>>]] = 1
<1> DEFINE a == <<c, 0>>
           x == f[a]
           S == {r \in Handles : f[r] = x}
<1>1. a \in Handles /\ x \in Chunks
  BY HandleFacts DEF Refs
<1>2. \A r \in Handles : r # a => f[r] # x
  BY DEF Uploads
<1>3. S = {a}
  BY <1>1, <1>2
<1>4. Held(f)[x] = Cardinality(S)
  BY <1>1 DEF Held
<1> HIDE DEF a, x, S
<1>5. Cardinality({a}) = 1
  BY FS_Singleton
<1> QED
  BY <1>3, <1>4, <1>5 DEF x, a

\* A handle that referred to nothing now refers to x.
LEMMA HoldFacts ==
  ASSUME NEW f \in Refs, NEW r \in Handles, f[r] = Nil, NEW x \in Chunks
  PROVE  /\ [f EXCEPT ![r] = x] \in Refs
         /\ Held([f EXCEPT ![r] = x]) = Plus(Held(f), x)
<1> DEFINE g == [f EXCEPT ![r] = x]
<1>1. g \in Refs
  BY DEF Refs
<1>2. ASSUME NEW y \in Chunks PROVE Held(g)[y] = Plus(Held(f), x)[y]
  <2> DEFINE S == {q \in Handles : f[q] = y}
             T == {q \in Handles : g[q] = y}
  <2>1. Held(f)[y] = Cardinality(S) /\ Held(g)[y] = Cardinality(T)
    BY DEF Held
  <2>2. IsFiniteSet(S)
    <3>1. S \subseteq Handles
      OBVIOUS
    <3> HIDE DEF S
    <3> QED
      BY <3>1, HandlesFinite, FS_Subset
  <2>3. CASE y = x
    <3>1. T = S \cup {r} /\ r \notin S
      BY <2>3, NilFacts DEF Refs
    <3> HIDE DEF S, T
    <3>2. Cardinality(T) = Cardinality(S) + 1
      BY <2>2, <3>1, FS_AddElement
    <3> QED
      BY <2>1, <2>3, <3>2, HeldFacts, PlusFacts
  <2>4. CASE y # x
    <3>1. T = S
      BY <2>4, NilFacts DEF Refs
    <3> HIDE DEF S, T
    <3> QED
      BY <2>1, <2>4, <3>1, HeldFacts, PlusFacts
  <2> QED
    BY <2>3, <2>4
<1>3. Held(g) \in [Chunks -> Nat] /\ Plus(Held(f), x) \in [Chunks -> Nat]
  BY <1>1, HeldFacts, PlusFacts
<1> HIDE DEF g
<1>4. Held(g) = Plus(Held(f), x)
  BY <1>2, <1>3
<1> QED
  BY <1>1, <1>4 DEF g

\* A handle lets go of a chunk.
LEMMA ReleaseFacts ==
  ASSUME NEW f \in Refs, NEW r \in Handles, f[r] # Nil
  PROVE  /\ [f EXCEPT ![r] = Nil] \in Refs
         /\ Held([f EXCEPT ![r] = Nil]) = Minus(Held(f), f[r])
<1> DEFINE x == f[r]
           g == [f EXCEPT ![r] = Nil]
<1>1. x \in Chunks /\ g \in Refs /\ g[r] = Nil
  BY DEF Refs
<1>2. [g EXCEPT ![r] = x] = f
  BY DEF Refs
<1> HIDE DEF x, g
<1>3. Held(f) = Plus(Held(g), x)
  BY <1>1, <1>2, HoldFacts
<1>4. Held(g) \in [Chunks -> Nat]
  BY <1>1, HeldFacts
<1>5. Minus(Held(f), x) = Held(g)
  BY <1>1, <1>3, <1>4, MinusPlus
<1> QED
  BY <1>1, <1>5 DEF x, g

-----------------------------------------------------------------------------
\* What the invariant says while the heap is not damaged.
LEMMA Serving ==
  ASSUME IInv, ~heap.damaged
  PROVE  /\ Sound(heap, Held(ref)) /\ Uploads(heap, ref)
         /\ ref \in Refs /\ Held(ref) \in [Chunks -> Nat] /\ 3 < RefMod
         /\ current_time \in Nat /\ heap \in Heap /\ ~heap.damaged
         /\ \A r \in Handles : ref[r] # Nil => ref[r] \in Chunks /\ Held(ref)[ref[r]] >= 1
<1>1. ref \in Refs /\ current_time \in Nat /\ heap \in Heap
  BY DEF IInv, TypeOK, Refs, Turns
<1>2. Sound(heap, Held(ref)) /\ Uploads(heap, ref)
  BY DEF IInv, StoreInv
<1> QED
  BY <1>1, <1>2, HeldFacts, ItemStoreAssumption

\* Uploads go on or end, and the chunks of those that go on are left alone.
LEMMA UploadsKept ==
  ASSUME NEW f \in Refs, NEW f2, NEW h, NEW g, NEW x, Uploads(h, f),
         Keeps(h, g, Held(f), x),
         \A r \in Handles : f2[r] \in {Nil, f[r]},
         \A c \in Conns : f2[<<c, 0>>] # Nil => f2[<<c, 0>>] # x
  PROVE  Uploads(g, f2)
<1> SUFFICES ASSUME NEW c \in Conns, f2[<<c, 0>>] # Nil
             PROVE  /\ ~g.item[f2[<<c, 0>>]].linked
                    /\ g.item[f2[<<c, 0>>]].key \in Keys
                    /\ \A r \in Handles : r # <<c, 0>> => f2[r] # f2[<<c, 0>>]
  BY DEF Uploads
<1> DEFINE a == <<c, 0>>
           y == f[a]
<1>1. a \in Handles
  BY HandleFacts
<1>2. f2[a] = y /\ y # Nil /\ y # x
  BY <1>1
<1>3. y \in Chunks /\ Held(f)[y] >= 1
  BY <1>1, <1>2, HeldFacts
<1>4. /\ ~h.item[y].linked /\ h.item[y].key \in Keys
      /\ \A r \in Handles : r # a => f[r] # y
  BY <1>2 DEF Uploads
<1>5. g.item[y] = h.item[y]
  BY <1>2, <1>3, <1>4 DEF Keeps
<1> HIDE DEF y, a
<1>6. \A r \in Handles : r # a => f2[r] # y
  BY <1>2, <1>4
<1> QED
  BY <1>2, <1>4, <1>5, <1>6 DEF a

\* What a step does to the contents of items: Newer, and an item that is being sent
\* before and after the step keeps its key and value.
Step(h, g, f, f2) ==
    /\ Newer(h, g)
    /\ \A c \in Conns, i \in Entries :
          LET y == f[<<c, i>>]
          IN  y # Nil /\ f2[<<c, i>>] = y =>
                  g.item[y].key = h.item[y].key /\ g.item[y].val = h.item[y].val
Advance == heap'.damaged \/ Step(heap, heap', ref, ref')

\* What is held before or after a step is kept by it.
LEMMA StepFacts ==
  ASSUME NEW h, NEW g, NEW f \in Refs, NEW f2
  PROVE  /\ Fair(h, g, Held(f)) => Step(h, g, f, f2)
         /\ Fair(h, g, Held(f)) => Step(h, g, f2, f)
<1>1. ASSUME NEW c \in Conns, NEW i \in Entries, f[<<c, i>>] # Nil
      PROVE  f[<<c, i>>] \in Chunks /\ Held(f)[f[<<c, i>>]] >= 1
  BY <1>1, HandleFacts, HeldFacts
<1>2. ASSUME Fair(h, g, Held(f)), NEW c \in Conns, NEW i \in Entries, f[<<c, i>>] # Nil
      PROVE  LET y == f[<<c, i>>]
             IN  g.item[y].key = h.item[y].key /\ g.item[y].val = h.item[y].val
  BY <1>1, <1>2 DEF Fair, Calm
<1> QED
  BY <1>2 DEF Step, Fair

\* No linked item has a CAS id that was not given yet, and the ids that clients were
\* sent stand for the values they were sent with.
CasInv(h, T) ==
    /\ \A y \in Chunks : h.item[y].linked => h.item[y].cas <= h.cas_id
    /\ \A t \in T :
          /\ t.cas <= h.cas_id
          /\ \A y \in Chunks :
                h.item[y].linked /\ h.item[y].key = t.key /\ h.item[y].cas = t.cas =>
                    h.item[y].val = t.val

\* What clients are told.
Told == [key : Keys, cas : Nat, val : Vals]

\* New CAS ids are new.
LEMMA CasKept ==
  ASSUME NEW h \in Heap, NEW g \in Heap, NEW T \in SUBSET Told, Newer(h, g), CasInv(h, T)
  PROVE  CasInv(g, T)
<1>1. h.cas_id \in Nat /\ g.cas_id \in Nat /\ h.cas_id <= g.cas_id
  BY DEF Heap, Newer
<1>2. ASSUME NEW y \in Chunks PROVE h.item[y].cas \in Nat /\ g.item[y].cas \in Nat
  <2>1. h.item[y] \in Item /\ g.item[y] \in Item
    BY DEF Heap
  <2> QED
    BY <2>1 DEF Item
<1>3. ASSUME NEW y \in Chunks, g.item[y].linked PROVE g.item[y].cas <= g.cas_id
  BY <1>1, <1>2, <1>3 DEF Newer, CasInv
<1>4. ASSUME NEW t \in T PROVE t.cas <= g.cas_id
  <2>1. t.cas \in Nat /\ t.cas <= h.cas_id
    BY DEF Told, CasInv
  <2> QED
    BY <1>1, <2>1
<1>5. ASSUME NEW t \in T, NEW y \in Chunks, g.item[y].linked,
             g.item[y].key = t.key, g.item[y].cas = t.cas
      PROVE  g.item[y].val = t.val
  <2>1. t.cas \in Nat /\ t.cas <= h.cas_id
    BY DEF Told, CasInv
  <2>2. ~(h.cas_id < g.item[y].cas)
    BY <1>1, <1>5, <2>1
  <2>3. /\ h.item[y].linked /\ g.item[y].key = h.item[y].key
        /\ g.item[y].val = h.item[y].val /\ g.item[y].cas = h.item[y].cas
    BY <1>5, <2>2 DEF Newer
  <2> QED
    BY <1>5, <2>3 DEF CasInv
<1> QED
  BY <1>3, <1>4, <1>5 DEF CasInv

\* A heap, damaged or sound, makes the invariant, given the types of the rest.
LEMMA Conclude ==
  ASSUME Damaged(heap') \/ (Sound(heap', Held(ref')) /\ Uploads(heap', ref')),
         ref' \in Refs, cmd' \in [Conns -> Comm \cup {"none"}],
         current_time' \in Nat, current_time' >= 1, oldest_live' \in Nat,
         truth' \in [Keys -> Vals \cup {NoVal}],
         told' \in SUBSET [key : Keys, cas : Nat, val : Vals],
         undone' \in BOOLEAN, flushing' \in BOOLEAN, turn' \in Turns
  PROVE  IInv'
  BY DEF Damaged, Sound, IInv, TypeOK, StoreInv, Refs, Turns

\* A command that takes the item of k and unlinks it.
LEMMA DeleteSound ==
  ASSUME NEW h, NEW held, Sound(h, held), NEW k \in Keys, Countable(h, k)
  PROVE  LET got == DoItemGet(h, k)
             g == IF got.it = Nil THEN got.h
                  ELSE DoItemRemove(DoItemUnlink(got.h, got.it), got.it)
         IN  Sound(g, held) /\ Keeps(h, g, held, Nil) /\ Fair(h, g, held)
<1> DEFINE got == DoItemGet(h, k)
           f == got.h
           x == got.it
           u == DoItemUnlink(f, x)
<1>1. held \in [Chunks -> Nat] /\ RefMod \in Nat
  BY ItemStoreAssumption DEF Sound
<1>2. /\ x = Nil => Sound(f, held)
      /\ x # Nil => /\ x \in Chunks /\ Sound(f, Plus(held, x)) /\ f.item[x].linked
      /\ \A y \in Chunks : ~h.item[y].linked => f.item[y] = h.item[y]
      /\ Fair(h, f, held)
  BY GetSound
<1> HIDE DEF got
<1>3. CASE x = Nil
  BY <1>2, <1>3 DEF Keeps, got
<1>4. CASE x # Nil
  <2> DEFINE more == Plus(held, x)
  <2> HIDE DEF f, x, more
  <2>2. Sound(f, more) /\ x \in Chunks
    BY <1>2, <1>4 DEF more
  <2>3. Sound(u, more) /\ Only(f, u, x) /\ Fair(f, u, more)
    BY <2>2, UnlinkSound
  <2> HIDE DEF u
  <2>4. Sound(Drop(u, x), held) /\ Only(u, Drop(u, x), x) /\ Fair(u, Drop(u, x), held)
    BY <1>1, <2>2, <2>3, DropSound DEF more
  <2>5. Drop(u, x) = DoItemRemove(u, x)
    BY <1>4 DEF Drop
  <2>6. \A y \in Chunks : ~h.item[y].linked => y # x
    BY <1>2, <1>4
  <2>7. Keeps(h, DoItemRemove(u, x), held, Nil)
    BY <1>2, <2>3, <2>4, <2>5, <2>6 DEF Keeps, Only
  <2>8. Fair(h, DoItemRemove(u, x), held)
    <3>1. \A y \in Chunks : held[y] >= 1 => more[y] >= 1
      <4>1. more[x] = held[x] + 1 /\ \A y \in Chunks : y # x => more[y] = held[y]
        BY <1>1, <2>2, PlusFacts DEF more
      <4> QED
        BY <1>1, <4>1
    <3>2. Fair(f, u, held)
      BY <2>3, <3>1, FairFewer
    <3>3. h \in Heap /\ f \in Heap /\ u \in Heap /\ DoItemRemove(u, x) \in Heap
      BY <2>2, <2>3, <2>4, <2>5 DEF Sound
    <3>4. Fair(h, u, held)
      BY <1>2, <3>2, <3>3, FairTwice
    <3> QED
      BY <2>4, <2>5, <3>3, <3>4, FairTwice
  <2> QED
    BY <1>4, <2>4, <2>5, <2>7, <2>8 DEF u, f, x, got
<1> QED
  BY <1>3, <1>4

-----------------------------------------------------------------------------
(***************************************************************************)
(* Every action keeps the invariant.                                       *)
(***************************************************************************)

\* process_delete_command.
LEMMA DeleteKeeps ==
  ASSUME IInv, NEW c \in Conns, NEW k \in Keys, DeleteCommand(c, k)
  PROVE  IInv' /\ Advance
<1>1. ~heap.damaged /\ Countable(heap, k)
  BY DEF DeleteCommand, Ready, Idle
<1>2. Sound(heap', Held(ref)) /\ Keeps(heap, heap', Held(ref), Nil)
      /\ Fair(heap, heap', Held(ref))
  BY <1>1, Serving, DeleteSound DEF DeleteCommand
<1>3. Uploads(heap', ref)
  BY <1>1, <1>2, Serving, NilFacts, UploadsKept
<1>4. /\ ref' = ref /\ cmd' = cmd /\ current_time' = current_time
      /\ oldest_live' = oldest_live /\ told' = told /\ undone' = undone
      /\ flushing' = flushing /\ turn' = turn
      /\ truth' = [truth EXCEPT ![k] = NoVal]
  BY DEF DeleteCommand
<1>5. truth' \in [Keys -> Vals \cup {NoVal}]
  BY <1>4 DEF IInv, TypeOK
<1>6. IInv'
  BY <1>2, <1>3, <1>4, <1>5, Conclude DEF IInv, TypeOK, Refs, Turns
<1>7. Advance
  BY <1>1, <1>2, Serving, StepFacts DEF Advance
<1> QED
  BY <1>6, <1>7

\* process_arithmetic_command.
LEMMA ArithmeticKeeps ==
  ASSUME IInv, NEW c \in Conns, NEW k \in Keys, ArithmeticCommand(c, k)
  PROVE  IInv' /\ Advance
<1>1. ~heap.damaged /\ Countable(heap, k)
  BY DEF ArithmeticCommand, Ready, Idle
<1>2. Done(heap, heap', Held(ref), Nil)
  BY <1>1, Serving, AddDeltaSound DEF ArithmeticCommand
<1>3. Keeps(heap, heap', Held(ref), Nil) => Uploads(heap', ref)
  BY <1>1, Serving, NilFacts, UploadsKept
<1>4. /\ ref' = ref /\ cmd' = cmd /\ current_time' = current_time
      /\ oldest_live' = oldest_live /\ told' = told /\ undone' = undone
      /\ flushing' = flushing /\ turn' = turn
  BY DEF ArithmeticCommand
<1>5. truth' \in [Keys -> Vals \cup {NoVal}]
  <2>1. truth \in [Keys -> Vals \cup {NoVal}]
    BY DEF IInv, TypeOK
  <2>2. (IF truth[k] \in Numeric THEN Bump(truth[k]) ELSE NoVal) \in Vals \cup {NoVal}
    BY ItemStoreAssumption
  <2>3. \/ truth' = [truth EXCEPT ![k] = IF truth[k] \in Numeric THEN Bump(truth[k]) ELSE NoVal]
        \/ truth' = [truth EXCEPT ![k] = NoVal]
        \/ truth' = truth
    BY DEF ArithmeticCommand
  <2> QED
    BY <2>1, <2>2, <2>3
<1>6. IInv'
  BY <1>2, <1>3, <1>4, <1>5, Conclude DEF Done, IInv, TypeOK, Refs, Turns
<1>7. Advance
  BY <1>1, <1>2, Serving, StepFacts DEF Advance, Done, Damaged
<1> QED
  BY <1>6, <1>7

\* flush_all.
LEMMA FlushAllKeeps ==
  ASSUME IInv, NEW c \in Conns, NEW delay \in Delays, FlushAll(c, delay)
  PROVE  IInv'
<1>1. delay \in Nat
  BY ItemStoreAssumption
<1>2. oldest_live' \in Nat
  <2>1. current_time \in Nat /\ current_time >= 1
    BY DEF IInv, TypeOK
  <2>2. delay > 0 => Realtime(delay) \in Nat /\ Realtime(delay) >= 1
    BY <1>1, <2>1, ItemStoreAssumption DEF Realtime
  <2>3. oldest_live' = IF delay > 0 THEN Realtime(delay) - 1 ELSE current_time - 1
    BY DEF FlushAll
  <2> QED
    BY <2>1, <2>2, <2>3
<1>3. /\ truth' \in [Keys -> Vals \cup {NoVal}] /\ undone' \in BOOLEAN
      /\ flushing' \in BOOLEAN
  BY DEF FlushAll, InForce, IInv, TypeOK
<1>4. UNCHANGED <<heap, ref, cmd, current_time, turn, told>>
  BY DEF FlushAll
<1> QED
  BY <1>2, <1>3, <1>4 DEF IInv, TypeOK, StoreInv

\* clock_handler.
LEMMA TickKeeps ==
  ASSUME IInv, Tick
  PROVE  IInv'
<1>1. current_time' \in Nat /\ current_time' >= 1
  BY DEF Tick, IInv, TypeOK
<1>2. UNCHANGED <<heap, ref, cmd, oldest_live, flushing, turn, truth, told, undone>>
  BY DEF Tick
<1> QED
  BY <1>1, <1>2 DEF IInv, TypeOK, StoreInv

\* do_item_flush_expired.
LEMMA FlushExpiredKeeps ==
  ASSUME IInv, FlushExpired
  PROVE  IInv' /\ Advance
<1>1. ~heap.damaged
  BY DEF FlushExpired
<1>2. /\ ref' = ref /\ cmd' = cmd /\ current_time' = current_time
      /\ oldest_live' = oldest_live /\ told' = told /\ undone' = undone
      /\ truth' = truth /\ turn' = turn
  BY DEF FlushExpired
<1>3. flushing' \in BOOLEAN
  BY DEF FlushExpired, SweepsOn
<1>4. Sound(heap', Held(ref)) /\ Keeps(heap, heap', Held(ref), Nil)
      /\ Fair(heap, heap', Held(ref))
  <2> DEFINE x == Head(heap.lru)
  <2>1. CASE heap' = heap
    BY <1>1, <2>1, Serving, FairSame DEF Keeps
  <2>2. CASE heap' # heap
    <3>1. heap.lru # <<>> /\ heap' = DoItemUnlink(heap, x)
      BY <2>2 DEF FlushExpired, SweepsOn
    <3>2. heap.lru \in Seq(Chunks)
      BY <1>1, Serving DEF Heap
    <3>3. x \in Chunks /\ In(heap.lru, x)
      BY <3>1, <3>2, TailFacts
    <3> HIDE DEF x
    <3>4. heap.item[x].linked
      BY <1>1, <3>3, Serving DEF Sound, LruList
    <3>6. Sound(heap', Held(ref)) /\ Only(heap, heap', x) /\ Fair(heap, heap', Held(ref))
      BY <1>1, <3>1, <3>3, Serving, UnlinkSound
    <3> QED
      BY <3>4, <3>6 DEF Keeps, Only
  <2> QED
    BY <2>1, <2>2
<1>5. Uploads(heap', ref)
  BY <1>1, <1>4, Serving, NilFacts, UploadsKept
<1>6. IInv'
  BY <1>2, <1>3, <1>4, <1>5, Conclude DEF IInv, TypeOK, Refs, Turns
<1>7. Advance
  BY <1>1, <1>4, Serving, StepFacts DEF Advance
<1> QED
  BY <1>6, <1>7

\* What a handle refers to is dropped, and the handle cleared.
LEMMA ReleaseSound ==
  ASSUME NEW h, NEW f \in Refs, NEW r \in Handles, f[r] # Nil, Sound(h, Held(f))
  PROVE  /\ [f EXCEPT ![r] = Nil] \in Refs
         /\ Sound(DoItemRemove(h, f[r]), Held([f EXCEPT ![r] = Nil]))
         /\ Only(h, DoItemRemove(h, f[r]), f[r])
         /\ Fair(h, DoItemRemove(h, f[r]), Held([f EXCEPT ![r] = Nil]))
<1> DEFINE x == f[r]
           held == Held(f)
           less == Held([f EXCEPT ![r] = Nil])
<1>1. x \in Chunks /\ held[x] >= 1
  BY HeldFacts
<1>2. less = Minus(held, x) /\ [f EXCEPT ![r] = Nil] \in Refs
  BY ReleaseFacts
<1> HIDE DEF x, held, less
<1>3. Sound(h, held)
  BY DEF held
<1>4. Sound(DoItemRemove(h, x), Minus(held, x)) /\ Only(h, DoItemRemove(h, x), x)
  BY <1>1, <1>3, RemoveSound
<1>5. Fair(h, DoItemRemove(h, x), Minus(held, x))
  BY <1>1, <1>3, RemoveFair
<1> QED
  BY <1>2, <1>4, <1>5 DEF x, less

\* Dropping what a handle refers to leaves the other uploads alone.
LEMMA ReleaseKeepsUploads ==
  ASSUME NEW h, NEW f \in Refs, NEW r \in Handles,
         f[r] # Nil, Sound(h, Held(f)), Uploads(h, f)
  PROVE  Uploads(DoItemRemove(h, f[r]), [f EXCEPT ![r] = Nil])
<1> DEFINE x == f[r]
           f2 == [f EXCEPT ![r] = Nil]
           g == DoItemRemove(h, x)
<1>1. /\ \A q \in Handles : f2[q] \in {Nil, f[q]}
      /\ \A q \in Handles : q # r => f2[q] = f[q]
      /\ f2[r] = Nil
  BY DEF Refs
<1>2. Only(h, g, x)
  BY ReleaseSound
<1>3. Keeps(h, g, Held(f), x)
  BY <1>2 DEF Keeps, Only
<1>4. ASSUME NEW c \in Conns, f2[<<c, 0>>] # Nil PROVE f2[<<c, 0>>] # x
  <2>1. <<c, 0>> \in Handles /\ <<c, 0>> # r
    BY <1>1, <1>4, HandleFacts
  <2>2. f2[<<c, 0>>] = f[<<c, 0>>]
    BY <1>1, <2>1
  <2> QED
    BY <1>4, <2>1, <2>2 DEF Uploads
<1> HIDE DEF f2, g, x
<1>5. Uploads(g, f2)
  BY <1>1, <1>3, <1>4, UploadsKept
<1> QED
  BY <1>5 DEF f2, g, x

\* conn_mwrite, all written.
LEMMA SentKeeps ==
  ASSUME IInv, NEW c \in Conns, Sent(c)
  PROVE  IInv'
<1>1. turn' \in Turns
  BY DEF Sent, Releasing, Turns
<1>2. UNCHANGED <<heap, ref, cmd, current_time, oldest_live, flushing, truth, told, undone>>
  BY DEF Sent
<1> QED
  BY <1>1, <1>2 DEF IInv, TypeOK, StoreInv, Turns

\* An entry of c->ilist is released.
LEMMA ReleaseKeeps ==
  ASSUME IInv, NEW c \in Conns, NEW i \in Entries, Release(c, i)
  PROVE  IInv' /\ Advance
<1> DEFINE b == <<c, i>>
<1>1. ~heap.damaged /\ ref[b] # Nil /\ b \in Handles
  BY HandleFacts DEF Release
<1>2. /\ heap' = DoItemRemove(heap, ref[b])
      /\ ref' = [ref EXCEPT ![b] = Nil]
      /\ cmd' = cmd /\ current_time' = current_time
      /\ oldest_live' = oldest_live /\ told' = told /\ undone' = undone
      /\ truth' = truth /\ flushing' = flushing
  BY DEF Release
<1>a. turn' \in Turns
  BY DEF Release, IInv, TypeOK, Turns
<1>3. Sound(heap', Held(ref')) /\ ref' \in Refs /\ Fair(heap, heap', Held(ref'))
  BY <1>1, <1>2, Serving, ReleaseSound
<1>4. Uploads(heap', ref')
  BY <1>1, <1>2, Serving, ReleaseKeepsUploads
<1>5. IInv'
  BY <1>2, <1>3, <1>4, <1>a, Conclude DEF IInv, TypeOK
<1>6. Advance
  BY <1>3, StepFacts DEF Advance
<1> QED
  BY <1>5, <1>6

\* conn_cleanup: the item being uploaded is released.
LEMMA CloseKeeps ==
  ASSUME IInv, NEW c \in Conns, Close(c)
  PROVE  IInv' /\ Advance
<1> DEFINE a == <<c, 0>>
           f2 == [ref EXCEPT ![a] = Nil]
<1>1. ~heap.damaged /\ a \in Handles
  BY HandleFacts DEF Close, Idle
<1>2. /\ heap' = Drop(heap, ref[a]) /\ ref' = f2
      /\ cmd' = [cmd EXCEPT ![c] = "none"] /\ current_time' = current_time
      /\ oldest_live' = oldest_live /\ told' = told /\ undone' = undone
      /\ truth' = truth /\ flushing' = flushing
  BY DEF Close, ConnCleanup
<1>3. Sound(heap, Held(ref)) /\ Uploads(heap, ref) /\ ref \in Refs
  BY <1>1, Serving
<1>4. Sound(heap', Held(f2)) /\ f2 \in Refs /\ Uploads(heap', f2) /\ Fair(heap, heap', Held(f2))
  <2>1. CASE ref[a] = Nil
    <3>1. f2 = ref /\ heap' = heap
      BY <2>1, <1>1, <1>2, <1>3 DEF Drop, Refs
    <3>2. Fair(heap, heap, Held(ref))
      BY <1>3, FairSame DEF Sound
    <3> QED
      BY <1>3, <3>1, <3>2
  <2>2. CASE ref[a] # Nil
    <3>1. heap' = DoItemRemove(heap, ref[a])
      BY <1>2, <2>2 DEF Drop
    <3>2. Sound(heap', Held(f2)) /\ f2 \in Refs /\ Fair(heap, heap', Held(f2))
      BY <1>1, <1>3, <2>2, <3>1, ReleaseSound
    <3>3. Uploads(heap', f2)
      BY <1>1, <1>3, <2>2, <3>1, ReleaseKeepsUploads
    <3> QED
      BY <3>2, <3>3
  <2> QED
    BY <2>1, <2>2
<1>5. cmd' \in [Conns -> Comm \cup {"none"}] /\ turn' \in Turns
  BY <1>2 DEF IInv, TypeOK, Close, ConnCleanup, Releasing, Turns
<1>6. IInv'
  BY <1>2, <1>4, <1>5, Conclude DEF IInv, TypeOK
<1>7. Advance
  BY <1>2, <1>4, StepFacts DEF Advance
<1> QED
  BY <1>6, <1>7

\* A count wraps around: the heap is damaged.
LEMMA WrapAroundKeeps ==
  ASSUME IInv, NEW c \in Conns, NEW k \in Keys, WrapAround(c, k)
  PROVE  IInv' /\ Advance
<1> DEFINE x == Head(heap.assoc[k])
           g == Incr(heap, x)
<1>1. heap \in Heap /\ heap.assoc[k] # <<>>
  BY DEF IInv, TypeOK, WrapAround, Countable
<1>2. x \in Chunks
  <2>1. heap.assoc[k] \in Seq(Chunks)
    BY <1>1 DEF Heap
  <2> QED
    BY <1>1, <2>1
<1>3. heap' = [g EXCEPT !.damaged = TRUE]
  BY DEF WrapAround
<1> HIDE DEF x
<1>4. g \in Heap
  BY <1>1, <1>2, IncrType
<1> HIDE DEF g
<1>5. Damaged(heap')
  BY <1>3, <1>4 DEF Damaged, Heap
<1>6. IInv'
  BY <1>5, Conclude DEF WrapAround, IInv, TypeOK, Refs, Turns
<1> QED
  BY <1>5, <1>6 DEF Advance, Damaged

\* An entry of c->ilist refers to a linked item.
LEMMA HoldKeepsUploads ==
  ASSUME NEW h, NEW g, NEW f \in Refs, NEW b \in Handles, NEW x \in Chunks,
         h.item[x].linked, \A c \in Conns : b # <<c, 0>>,
         Uploads(h, f), Keeps(h, g, Held(f), Nil)
  PROVE  Uploads(g, [f EXCEPT ![b] = x])
<1> DEFINE f2 == [f EXCEPT ![b] = x]
<1>1. /\ \A r \in Handles : r # b => f2[r] = f[r]
      /\ f2[b] = x
  BY DEF Refs
<1> HIDE DEF f2
<1>2. Uploads(g, f)
  BY NilFacts, UploadsKept
<1>3. ASSUME NEW c \in Conns, f[<<c, 0>>] # Nil PROVE f[<<c, 0>>] # x
  BY <1>3 DEF Uploads
<1>4. ASSUME NEW c \in Conns, f2[<<c, 0>>] # Nil
      PROVE  /\ ~g.item[f2[<<c, 0>>]].linked
             /\ g.item[f2[<<c, 0>>]].key \in Keys
             /\ \A r \in Handles : r # <<c, 0>> => f2[r] # f2[<<c, 0>>]
  <2> DEFINE a == <<c, 0>>
  <2>1. f2[a] = f[a]
    BY <1>1, HandleFacts
  <2>2. f[a] # Nil /\ f[a] # x
    BY <1>3, <1>4, <2>1
  <2>3. ~g.item[f[a]].linked /\ g.item[f[a]].key \in Keys
    BY <1>2, <2>2 DEF Uploads
  <2>4. \A r \in Handles : r # a => f[r] # f[a]
    BY <1>2, <2>2 DEF Uploads
  <2> HIDE DEF a
  <2>5. \A r \in Handles : r # a => f2[r] # f2[a]
    BY <1>1, <2>1, <2>2, <2>4
  <2> QED
    BY <2>1, <2>3, <2>5 DEF a
<1>5. Uploads(g, f2)
  BY <1>4 DEF Uploads
<1> QED
  BY <1>5 DEF f2

\* process_get_command.
LEMMA GetKeeps ==
  ASSUME IInv, NEW c \in Conns, NEW k \in Keys, NEW i \in Entries, GetCommand(c, k, i)
  PROVE  /\ IInv' /\ Advance
         /\ CasInv(heap, told) => CasInv(heap', told')
<1> DEFINE b == <<c, i>>
           got == DoItemGet(heap, k)
           f == got.h
           x == got.it
           m == f.item[x]
           g == DoItemUpdate(f, x)
           held == Held(ref)
<1>1. /\ ~heap.damaged /\ b \in Handles /\ ref[b] = Nil /\ Countable(heap, k)
      /\ Sound(heap, held) /\ Uploads(heap, ref) /\ ref \in Refs
      /\ held \in [Chunks -> Nat] /\ current_time \in Nat
  <2>1. ~heap.damaged /\ b \in Handles /\ ref[b] = Nil /\ Countable(heap, k)
    BY HandleFacts DEF GetCommand, Ready, Idle
  <2> QED
    BY <2>1, Serving
<1>2. /\ cmd' = cmd /\ current_time' = current_time /\ oldest_live' = oldest_live
      /\ undone' = undone /\ flushing' = flushing /\ turn' \in Turns
  BY DEF GetCommand, Turns
<1> HIDE DEF held
<1>3. /\ x = Nil => Sound(f, held)
      /\ x # Nil => /\ x \in Chunks /\ Sound(f, Plus(held, x))
                    /\ f.item[x].linked /\ f.item[x].key = k
      /\ \A y \in Chunks : ~heap.item[y].linked => f.item[y] = heap.item[y]
      /\ Fair(heap, f, held)
  BY <1>1, GetSound
<1>a. told \in SUBSET Told /\ heap \in Heap
  BY <1>1 DEF IInv, TypeOK, Told, Sound
<1>4. CASE x = Nil
  <2>1. heap' = f /\ ref' = ref /\ told' = told /\ truth' = [truth EXCEPT ![k] = NoVal]
    BY <1>4 DEF GetCommand
  <2>2. truth' \in [Keys -> Vals \cup {NoVal}]
    BY <2>1 DEF IInv, TypeOK
  <2> HIDE DEF x, f
  <2>3. Sound(heap', Held(ref')) /\ Uploads(heap', ref')
    <3>1. Keeps(heap, f, held, Nil)
      BY <1>3 DEF Keeps
    <3> QED
      BY <1>1, <1>3, <1>4, <2>1, <3>1, NilFacts, UploadsKept DEF held
  <2>4. IInv'
    BY <1>1, <1>2, <2>1, <2>2, <2>3, Conclude DEF IInv, TypeOK, Turns
  <2>5. Advance
    BY <1>1, <1>3, <2>1, StepFacts DEF Advance, held
  <2>6. CasInv(heap, told) => CasInv(heap', told')
    <3>1. heap' \in Heap /\ Newer(heap, heap')
      BY <1>3, <1>4, <2>1 DEF Sound, Fair
    <3> QED
      BY <1>a, <2>1, <3>1, CasKept
  <2> QED
    BY <2>1, <2>4, <2>5, <2>6
<1>5. CASE x # Nil
  <2>1. /\ heap' = g /\ ref' = [ref EXCEPT ![b] = x] /\ truth' = truth
        /\ told' = told \cup {[key |-> k, cas |-> m.cas, val |-> m.val]}
    BY <1>5 DEF GetCommand
  <2>2. told' \in SUBSET [key : Keys, cas : Nat, val : Vals]
    <3>1. m.val \in Vals /\ m \in Item
      BY <1>3, <1>5 DEF Sound, HashTable, Heap
    <3>2. m.cas \in Nat
      BY <3>1 DEF Item
    <3> HIDE DEF m
    <3>3. told \in SUBSET [key : Keys, cas : Nat, val : Vals]
      BY DEF IInv, TypeOK
    <3> QED
      BY <2>1, <3>1, <3>2, <3>3
  <2> DEFINE more == Plus(held, x)
  <2> HIDE DEF f, x, more
  <2>3. /\ Sound(g, more) /\ Only(f, g, x)
        /\ g.item[x].linked <=> f.item[x].linked
    BY <1>1, <1>3, <1>5, UpdateSound DEF more
  <2>a. \A busy : Fair(f, g, busy)
    BY <1>1, <1>3, <1>5, UpdateSound
  <2>4. Held(ref') = more /\ ref' \in Refs
    BY <1>1, <1>3, <1>5, <2>1, HoldFacts DEF more, held
  <2>5. Keeps(heap, g, held, Nil)
    BY <1>3, <1>5, <2>3 DEF Keeps, Only
  <2>6. Uploads(heap', ref')
    <3>1. heap.item[x].linked
      BY <1>3, <1>5
    <3>2. \A d \in Conns : b # <<d, 0>>
      BY HandleFacts
    <3> HIDE DEF g, b
    <3> QED
      BY <1>1, <1>3, <1>5, <2>1, <2>5, <3>1, <3>2, HoldKeepsUploads DEF held
  <2> HIDE DEF g
  <2>7. IInv'
    BY <1>2, <2>1, <2>2, <2>3, <2>4, <2>6, Conclude DEF IInv, TypeOK, Turns
  <2>8. f \in Heap /\ g \in Heap
    BY <1>3, <1>5, <2>3 DEF Sound
  <2>9. Advance
    <3>1. Fair(heap, g, held)
      BY <1>3, <1>a, <2>8, <2>a, FairTwice
    <3> QED
      BY <1>1, <2>1, <3>1, StepFacts DEF Advance, held
  <2>10. ASSUME CasInv(heap, told) PROVE CasInv(heap', told')
    <3>1. CasInv(f, told)
      BY <1>3, <1>a, <2>8, <2>10, CasKept DEF Fair
    <3>2. CasInv(g, told)
      BY <1>a, <2>8, <2>a, <3>1, CasKept DEF Fair
    <3>3. m.cas <= g.cas_id
      <4>1. m.cas <= f.cas_id
        BY <1>3, <1>5, <3>1 DEF CasInv
      <4> QED
        BY <2>3, <4>1 DEF Only
    <3>4. g.item[x].key = k /\ g.item[x].val = m.val
      <4>1. more[x] >= 1
        BY <1>1, <1>3, <1>5, PlusFacts DEF more
      <4> QED
        BY <1>3, <1>5, <2>a, <4>1 DEF Fair, Calm
    <3>5. ASSUME NEW y \in Chunks, g.item[y].linked, g.item[y].key = k
          PROVE  g.item[y].val = m.val
      <4>1. g.assoc[k] = <<y>> /\ g.assoc[k] = <<x>>
        BY <1>3, <1>5, <2>3, <3>4, <3>5, ZenonT(60) DEF Sound, HashTable
      <4>2. y = x
        BY <4>1
      <4> QED
        BY <3>4, <4>2
    <3> DEFINE new == [key |-> k, cas |-> m.cas, val |-> m.val]
    <3>6. new.key = k /\ new.cas = m.cas /\ new.val = m.val
      OBVIOUS
    <3>7. told' = told \cup {new} /\ heap' = g
      BY <2>1
    <3> HIDE DEF new, m
    <3> QED
      BY <3>2, <3>3, <3>5, <3>6, <3>7 DEF CasInv
  <2> QED
    BY <2>7, <2>9, <2>10
<1> QED
  BY <1>4, <1>5

\* process_touch_command.
LEMMA TouchKeeps ==
  ASSUME IInv, NEW c \in Conns, NEW k \in Keys, NEW lifetime \in Lifetimes,
         TouchCommand(c, k, lifetime)
  PROVE  IInv' /\ Advance
<1> DEFINE got == DoItemGet(heap, k)
           f == got.h
           x == got.it
           t == Realtime(lifetime)
           m == [f.item[x] EXCEPT !.exptime = t]
           touched == [f EXCEPT !.item[x] = m]
           g == DoItemUpdate(touched, x)
           held == Held(ref)
<1>1. /\ ~heap.damaged /\ Countable(heap, k)
      /\ Sound(heap, held) /\ Uploads(heap, ref) /\ ref \in Refs
      /\ held \in [Chunks -> Nat] /\ current_time \in Nat
  <2>1. ~heap.damaged /\ Countable(heap, k)
    BY DEF TouchCommand, Ready, Idle
  <2> QED
    BY <2>1, Serving
<1>2. /\ ref' = ref /\ cmd' = cmd /\ current_time' = current_time
      /\ oldest_live' = oldest_live /\ told' = told /\ truth' = truth
      /\ undone' = undone /\ flushing' = flushing /\ turn' = turn
  BY DEF TouchCommand
<1>a. t \in Nat
  BY <1>1, ItemStoreAssumption DEF Realtime
<1> HIDE DEF held, t
<1>3. /\ x = Nil => Sound(f, held)
      /\ x # Nil => /\ x \in Chunks /\ Sound(f, Plus(held, x)) /\ f.item[x].linked
      /\ \A y \in Chunks : ~heap.item[y].linked => f.item[y] = heap.item[y]
      /\ Fair(heap, f, held)
  BY <1>1, GetSound
<1>4. Sound(heap', held) /\ Keeps(heap, heap', held, Nil) /\ Fair(heap, heap', held)
  <2>1. CASE x = Nil
    <3>1. heap' = f
      BY <2>1 DEF TouchCommand
    <3> QED
      BY <1>3, <2>1, <3>1 DEF Keeps
  <2>2. CASE x # Nil
    <3>1. heap' = DoItemRemove(g, x)
      <4>1. touched = [f EXCEPT !.item[x].exptime = t]
        BY <1>3, <2>2 DEF Sound, Heap
      <4> QED
        BY <2>2, <4>1 DEF TouchCommand, t
    <3> DEFINE more == Plus(held, x)
    <3> HIDE DEF f, x, more
    <3>2. f.item[x] \in Item
      BY <1>3, <2>2 DEF Sound, Heap
    <3>3. /\ m \in Item /\ m.refcount = f.item[x].refcount /\ m.key = f.item[x].key
          /\ m.linked = f.item[x].linked /\ m.val = f.item[x].val
          /\ m.cas = f.item[x].cas
      BY <1>a, <3>2 DEF Item
    <3> HIDE DEF m
    <3>4. Sound(touched, more) /\ Only(f, touched, x)
      BY <1>3, <2>2, <3>3, RewriteSound DEF more
    <3>a. Fair(f, touched, held)
      <4>1. f \in Heap
        BY <1>3, <2>2 DEF Sound
      <4>2. touched.item[x] = m
        BY <1>3, <2>2, <4>1 DEF Heap
      <4> HIDE DEF touched
      <4> QED
        BY <1>3, <2>2, <3>3, <3>4, <4>1, <4>2, FairRest
    <3> HIDE DEF touched
    <3>5. Sound(g, more) /\ Only(touched, g, x)
      BY <1>1, <1>3, <2>2, <3>4, UpdateSound
    <3>b. \A busy : Fair(touched, g, busy)
      BY <1>1, <1>3, <2>2, <3>4, UpdateSound
    <3> HIDE DEF g
    <3>6. Sound(Drop(g, x), held) /\ Only(g, Drop(g, x), x) /\ Fair(g, Drop(g, x), held)
      BY <1>1, <1>3, <2>2, <3>5, DropSound DEF more
    <3>7. heap' = Drop(g, x)
      BY <2>2, <3>1 DEF Drop
    <3>8. Fair(heap, heap', held)
      <4>1. heap \in Heap /\ f \in Heap /\ touched \in Heap /\ g \in Heap /\ heap' \in Heap
        BY <1>1, <1>3, <2>2, <3>4, <3>5, <3>6, <3>7 DEF Sound
      <4>2. Fair(heap, touched, held)
        BY <1>3, <3>a, <4>1, FairTwice
      <4>3. Fair(heap, g, held)
        BY <3>b, <4>1, <4>2, FairTwice
      <4> QED
        BY <3>6, <3>7, <4>1, <4>3, FairTwice
    <3> QED
      BY <1>3, <2>2, <3>4, <3>5, <3>6, <3>7, <3>8 DEF Keeps, Only
  <2> QED
    BY <2>1, <2>2
<1>5. Sound(heap', Held(ref')) /\ Uploads(heap', ref')
  BY <1>1, <1>2, <1>4, NilFacts, UploadsKept DEF held
<1>6. IInv'
  BY <1>1, <1>2, <1>5, Conclude DEF IInv, TypeOK, Turns
<1>7. Advance
  BY <1>1, <1>4, StepFacts DEF Advance, held
<1> QED
  BY <1>6, <1>7

\* complete_nread_ascii.
LEMMA CompleteKeeps ==
  ASSUME IInv, NEW c \in Conns, NEW v \in Vals, NEW good \in BOOLEAN,
         CompleteNread(c, v, good)
  PROVE  IInv' /\ Advance
<1> DEFINE a == <<c, 0>>
           x == ref[a]
           k == heap.item[x].key
           m == [heap.item[x] EXCEPT !.val = v]
           h == [heap EXCEPT !.item[x] = m]
           g == IF good THEN DoStoreItem(h, x, cmd[c]).h ELSE h
           held == Held(ref)
           f2 == [ref EXCEPT ![a] = Nil]
<1>1. /\ ~heap.damaged /\ a \in Handles /\ x # Nil
      /\ Sound(heap, held) /\ Uploads(heap, ref) /\ ref \in Refs
      /\ held \in [Chunks -> Nat] /\ current_time \in Nat
      /\ x \in Chunks /\ held[x] = 1 /\ heap.item \in [Chunks -> Item]
  <2>1. ~heap.damaged /\ a \in Handles /\ x # Nil
    BY HandleFacts DEF CompleteNread, Idle
  <2>2. /\ Sound(heap, held) /\ Uploads(heap, ref) /\ ref \in Refs
        /\ held \in [Chunks -> Nat] /\ current_time \in Nat
        /\ x \in Chunks /\ heap.item \in [Chunks -> Item]
    BY <2>1, Serving DEF Heap
  <2>3. held[x] = 1
    BY <2>1, <2>2, UploadHeldOnce
  <2> QED
    BY <2>1, <2>2, <2>3
<1>2. ~heap.item[x].linked /\ k \in Keys
  BY <1>1 DEF Uploads
<1>3. /\ m \in Item /\ m.refcount = heap.item[x].refcount /\ m.key = k
      /\ m.linked = heap.item[x].linked /\ m.val = v
  <2>1. heap.item[x] \in Item
    BY <1>1
  <2> QED
    BY <2>1 DEF Item
<1>4. /\ ref' = f2 /\ cmd' = [cmd EXCEPT ![c] = "none"]
      /\ current_time' = current_time /\ oldest_live' = oldest_live
      /\ told' = told /\ undone' = undone /\ flushing' = flushing /\ turn' = turn
  BY DEF CompleteNread
<1>5. heap' = DoItemRemove(g, x) /\ (good => Countable(h, k))
  <2>1. h = Uploaded(heap, x, v)
    BY <1>1 DEF Uploaded, Heap
  <2> QED
    BY <2>1 DEF CompleteNread
<1>6. truth' \in [Keys -> Vals \cup {NoVal}]
  <2>1. truth \in [Keys -> Vals \cup {NoVal}]
    BY DEF IInv, TypeOK
  <2> DEFINE j == IF truth[k] = NoVal THEN truth[k] ELSE Join(truth[k], v)
  <2>2. j \in Vals \cup {NoVal}
    BY <1>2, <2>1, ItemStoreAssumption
  <2>3. \/ truth' = [truth EXCEPT ![k] = j]
        \/ truth' = [truth EXCEPT ![k] = v]
        \/ truth' = [truth EXCEPT ![k] = NoVal]
        \/ truth' = truth
    BY DEF CompleteNread
  <2> HIDE DEF j, k
  <2> QED
    BY <1>2, <2>1, <2>2, <2>3
<1> HIDE DEF m, held
<1>7. Sound(h, held) /\ Only(heap, h, x) /\ h.item[x] = m
  <2> DEFINE y == x
  <2>1. y \in Chunks /\ m.key = heap.item[y].key /\ m.refcount = heap.item[y].refcount
        /\ m.linked = heap.item[y].linked
        /\ (heap.item[y].linked => m.val = heap.item[y].val)
    BY <1>1, <1>2, <1>3
  <2>a. m \in Item /\ Sound(heap, held)
    BY <1>1, <1>3
  <2> HIDE DEF y
  <2>2. LET d == [heap EXCEPT !.item[y] = m]
        IN  Sound(d, held) /\ Only(heap, d, y) /\ d.item[y] = m
    BY <2>1, <2>a, RewriteSound
  <2> QED
    BY <2>2 DEF y
<1>8. Done(h, g, held, x)
  <2>1. CASE ~good
    <3>1. h.damaged = heap.damaged /\ h \in Heap
      BY <1>7 DEF Only, Sound
    <3>2. Fair(h, h, held)
      BY <3>1, FairSame
    <3> QED
      BY <1>7, <2>1, <3>2 DEF Done, Keeps
  <2>2. CASE good
    <3>1. Countable(h, k)
      BY <1>5, <2>2
    <3>2. ~h.item[x].linked /\ h.item[x].key = k /\ h.item[x].val \in Vals
      BY <1>2, <1>3, <1>7
    <3> HIDE DEF h, x, k
    <3>3. Done(h, DoStoreItem(h, x, cmd[c]).h, held, x)
      BY <1>1, <1>2, <1>7, <3>1, <3>2, StoreItemSound
    <3> QED
      BY <2>2, <3>3
  <2> QED
    BY <2>1, <2>2
<1> HIDE DEF g, h
<1>9. CASE Damaged(g)
  <2>1. Damaged(heap')
    BY <1>1, <1>5, <1>9, RemoveDamaged
  <2>2. ref' \in Refs
    BY <1>1, <1>4, ReleaseFacts
  <2>3. cmd' \in [Conns -> Comm \cup {"none"}]
    BY <1>4 DEF IInv, TypeOK
  <2>4. IInv'
    BY <1>4, <1>6, <2>1, <2>2, <2>3, Conclude DEF IInv, TypeOK, Turns
  <2> QED
    BY <2>1, <2>4 DEF Damaged, Advance
<1>10. CASE Sound(g, held) /\ Keeps(h, g, held, x) /\ Fair(h, g, held)
  <2>1. Sound(g, Held(ref))
    BY <1>10 DEF held
  <2>2. /\ Sound(heap', Held(ref')) /\ ref' \in Refs /\ Only(g, heap', x)
        /\ Fair(g, heap', Held(ref'))
    BY <1>1, <1>4, <1>5, <2>1, ReleaseSound
  <2>3. Keeps(heap, heap', Held(ref), x)
    BY <1>7, <1>10, <2>2 DEF Keeps, Only, held
  <2>4. Uploads(heap', ref')
    <3>1. \A r \in Handles : f2[r] = IF r = a THEN Nil ELSE ref[r]
      BY <1>1 DEF Refs
    <3>2. \A r \in Handles : r # a => ref[r] # x
      BY <1>1 DEF Uploads
    <3>3. \A r \in Handles : f2[r] \in {Nil, ref[r]}
      BY <3>1
    <3>4. \A d \in Conns : f2[<<d, 0>>] # Nil => f2[<<d, 0>>] # x
      BY <3>1, <3>2, HandleFacts
    <3> HIDE DEF f2, x
    <3>5. Uploads(heap', f2)
      BY <1>1, <2>3, <3>3, <3>4, UploadsKept
    <3> QED
      BY <1>4, <3>5
  <2>5. cmd' \in [Conns -> Comm \cup {"none"}]
    BY <1>4 DEF IInv, TypeOK
  <2>6. IInv'
    BY <1>4, <1>6, <2>2, <2>4, <2>5, Conclude DEF IInv, TypeOK, Turns
  <2>7. Advance
    <3> HIDE DEF x, f2
    <3>1. heap \in Heap /\ h \in Heap /\ g \in Heap /\ heap' \in Heap
      BY <1>1, <1>7, <1>10, <2>2 DEF Sound
    <3>2. Newer(heap, h)
      <4>1. ~h.item[x].linked /\ h.cas_id = heap.cas_id /\ heap.cas_id \in Nat
        BY <1>2, <1>3, <1>7, <3>1 DEF Only, Heap
      <4>2. \A y \in Chunks : y # x => h.item[y] = heap.item[y]
        BY <1>7 DEF Only
      <4> QED
        BY <4>1, <4>2 DEF Newer
    <3>3. Newer(heap, heap')
      <4>1. Newer(heap, g)
        BY <1>10, <3>1, <3>2, NewerTwice DEF Fair
      <4> QED
        BY <2>2, <3>1, <4>1, NewerTwice DEF Fair
    <3>4. ASSUME NEW d \in Conns, NEW i \in Entries, ref[<<d, i>>] # Nil,
                 ref'[<<d, i>>] = ref[<<d, i>>]
          PROVE  LET y == ref[<<d, i>>]
                 IN  heap'.item[y].key = heap.item[y].key /\ heap'.item[y].val = heap.item[y].val
      <4> DEFINE y == ref[<<d, i>>]
      <4>1. y # x
        <5>1. <<d, i>> \in Handles /\ <<d, i>> # a
          BY HandleFacts
        <5> QED
          BY <1>1, <5>1 DEF Uploads, x
      <4>2. y \in Chunks
        BY <1>1, <3>4, HeldFacts, HandleFacts
      <4> HIDE DEF y
      <4>3. h.item[y] = heap.item[y]
        BY <1>7, <4>1, <4>2 DEF Only
      <4>4. g.item[y].key = h.item[y].key /\ g.item[y].val = h.item[y].val
        <5>1. Step(h, g, ref, ref')
          BY <1>1, <1>10, StepFacts DEF held
        <5> QED
          BY <3>4, <5>1 DEF Step, y
      <4>5. heap'.item[y] = g.item[y]
        BY <2>2, <4>1, <4>2 DEF Only
      <4> QED
        BY <4>3, <4>4, <4>5 DEF y
    <3> QED
      BY <3>3, <3>4 DEF Advance, Step
  <2> QED
    BY <2>6, <2>7
<1> QED
  BY <1>8, <1>9, <1>10 DEF Done

\* process_update_command.
LEMMA UpdateKeeps ==
  ASSUME IInv, NEW c \in Conns, NEW k \in Keys, NEW comm \in Comms,
         NEW lifetime \in Lifetimes, NEW cas \in Nat,
         UpdateCommand(c, k, comm, lifetime, cas)
  PROVE  IInv' /\ Advance
<1> DEFINE a == <<c, 0>>
           t == Realtime(lifetime)
           new == DoItemAlloc(heap, k, t, NoKey)
           it == new.it
           g == new.h
           got == DoItemGet(g, k)
           held == Held(ref)
<1>1. /\ ~heap.damaged /\ a \in Handles /\ ref[a] = Nil
      /\ Sound(heap, held) /\ Uploads(heap, ref) /\ ref \in Refs
      /\ held \in [Chunks -> Nat] /\ current_time \in Nat
  <2>1. ~heap.damaged /\ a \in Handles /\ ref[a] = Nil
    BY HandleFacts DEF UpdateCommand, Ready, Idle
  <2> QED
    BY <2>1, Serving
<1>2. /\ current_time' = current_time /\ oldest_live' = oldest_live
      /\ told' = told /\ undone' = undone /\ flushing' = flushing /\ turn' = turn
  BY DEF UpdateCommand
<1>3. t \in Nat
  BY <1>1, ItemStoreAssumption DEF Realtime
<1>4. 3 < RefMod
  BY ItemStoreAssumption
<1>5. /\ truth' \in [Keys -> Vals \cup {NoVal}]
      /\ cmd' \in [Conns -> Comm \cup {"none"}]
  <2>1. comm \in Comm
    BY ItemStoreAssumption
  <2>2. truth' \in {truth, [truth EXCEPT ![k] = NoVal]}
        /\ cmd' \in {cmd, [cmd EXCEPT ![c] = comm]}
    BY DEF UpdateCommand
  <2> QED
    BY <2>1, <2>2 DEF IInv, TypeOK
<1> HIDE DEF held
<1>6. \/ Damaged(g) /\ it \in Chunks
      \/ Allocated(heap, new, held, k)
  <2> HIDE DEF t
  <2> QED
    BY <1>1, <1>3, <1>4, AllocSound
<1>7. CASE it # Nil
  <2> DEFINE e == [g EXCEPT !.item[it] = [g.item[it] EXCEPT !.cas = cas]]
  <2>1. it \in Chunks /\ g \in Heap
    BY <1>6, <1>7 DEF Allocated, Damaged, Sound
  <2>2. heap' = e /\ ref' = [ref EXCEPT ![a] = it]
    <3>1. heap' = [g EXCEPT !.item[it].cas = cas] /\ ref' = [ref EXCEPT ![a] = it]
      BY <1>7 DEF UpdateCommand
    <3> HIDE DEF new
    <3> QED
      BY <2>1, <3>1 DEF Heap
  <2> HIDE DEF new
  <2>3. ref' \in Refs /\ Held(ref') = Plus(held, it)
    BY <1>1, <2>1, <2>2, HoldFacts DEF held
  <2> DEFINE m == [g.item[it] EXCEPT !.cas = cas]
  <2>4. /\ m \in Item /\ m.refcount = g.item[it].refcount /\ m.key = g.item[it].key
        /\ m.linked = g.item[it].linked /\ m.val = g.item[it].val
    <3>1. g.item[it] \in Item
      BY <2>1 DEF Heap
    <3> QED
      BY <3>1 DEF Item
  <2>5. e = [g EXCEPT !.item[it] = m]
    OBVIOUS
  <2> HIDE DEF e, m
  <2>6. CASE Damaged(g)
    <3>1. Damaged(e)
      BY <2>1, <2>4, <2>5, <2>6 DEF Damaged, Heap
    <3>2. IInv'
      BY <1>2, <1>5, <2>2, <2>3, <3>1, Conclude DEF IInv, TypeOK, Turns
    <3> QED
      BY <2>2, <3>1, <3>2 DEF Damaged, Advance
  <2>7. CASE Allocated(heap, new, held, k)
    <3> DEFINE more == Plus(held, it)
    <3>1. /\ held[it] = 0 /\ Sound(g, more) /\ ~g.item[it].linked /\ g.item[it].key = k
          /\ \A y \in Chunks : held[y] > 0 => g.item[y] = heap.item[y]
          /\ Fair(heap, g, held)
      BY <1>7, <2>7 DEF Allocated
    <3> HIDE DEF more, g, it
    <3>2. LET d == [g EXCEPT !.item[it] = m]
          IN  Sound(d, more) /\ Only(g, d, it) /\ d.item[it] = m
      BY <2>1, <2>4, <3>1, RewriteSound
    <3>3. Sound(e, more) /\ Only(g, e, it) /\ e.item[it] = m
      BY <2>5, <3>2
    <3>4. Sound(heap', Held(ref'))
      BY <2>2, <2>3, <3>3 DEF more
    <3>5. Uploads(heap', ref')
      <4>1. \A r \in Handles : ref'[r] = IF r = a THEN it ELSE ref[r]
        BY <1>1, <2>2 DEF Refs
      <4>2. ASSUME NEW r \in Handles, ref[r] # Nil
            PROVE  ref[r] \in Chunks /\ held[ref[r]] >= 1 /\ held[ref[r]] > 0 /\ ref[r] # it
        <5>1. ref[r] \in Chunks /\ held[ref[r]] >= 1
          BY <1>1, <4>2, HeldFacts DEF held
        <5> QED
          BY <1>1, <3>1, <5>1
      <4>3. ASSUME NEW d \in Conns, d # c, ref[<<d, 0>>] # Nil
            PROVE  /\ ~heap'.item[ref[<<d, 0>>]].linked
                   /\ heap'.item[ref[<<d, 0>>]].key \in Keys
                   /\ \A r \in Handles : r # <<d, 0>> => ref[r] # ref[<<d, 0>>]
        <5> DEFINE y == ref[<<d, 0>>]
        <5>1. y \in Chunks /\ held[y] > 0 /\ y # it
          BY <4>2, <4>3, HandleFacts
        <5>2. /\ ~heap.item[y].linked /\ heap.item[y].key \in Keys
              /\ \A r \in Handles : r # <<d, 0>> => ref[r] # y
          BY <1>1, <4>3 DEF Uploads
        <5>3. heap'.item[y] = heap.item[y]
          BY <2>2, <3>1, <3>3, <5>1 DEF Only
        <5> QED
          BY <5>2, <5>3
      <4>4. ~heap'.item[it].linked /\ heap'.item[it].key \in Keys
        BY <2>2, <2>4, <3>1, <3>3
      <4>5. ASSUME NEW d \in Conns, ref'[<<d, 0>>] # Nil
            PROVE  /\ ~heap'.item[ref'[<<d, 0>>]].linked
                   /\ heap'.item[ref'[<<d, 0>>]].key \in Keys
                   /\ \A r \in Handles : r # <<d, 0>> => ref'[r] # ref'[<<d, 0>>]
        <5>1. CASE d = c
          <6>1. ref'[<<d, 0>>] = it
            BY <4>1, <5>1, <1>1
          <6>2. \A r \in Handles : r # a => ref'[r] # it
            BY <1>7, <4>1, <4>2
          <6> QED
            BY <4>4, <5>1, <6>1, <6>2
        <5>2. CASE d # c
          <6>1. <<d, 0>> \in Handles /\ <<d, 0>> # a
            BY <5>2, HandleFacts
          <6>2. ref'[<<d, 0>>] = ref[<<d, 0>>]
            BY <4>1, <6>1
          <6> DEFINE b == <<d, 0>>
          <6>3. ref[b] # it /\ \A r \in Handles : r # b => ref[r] # ref[b]
            BY <4>2, <4>3, <4>5, <5>2, <6>1, <6>2
          <6> HIDE DEF b
          <6>4. \A r \in Handles : r # b => ref'[r] # ref[b]
            BY <4>1, <6>3
          <6> QED
            BY <4>3, <4>5, <5>2, <6>2, <6>4 DEF b
        <5> QED
          BY <5>1, <5>2
      <4> QED
        BY <4>5 DEF Uploads
    <3>6. IInv'
      BY <1>2, <1>5, <2>3, <3>4, <3>5, Conclude DEF IInv, TypeOK, Turns
    <3>7. Advance
      <4>1. ~e.item[it].linked
        BY <2>4, <3>1, <3>3
      <4>2. Fair(g, e, held)
        BY <2>1, <3>1, <3>3, <4>1, FairGone
      <4>3. e \in Heap /\ heap \in Heap
        BY <1>1, <3>3 DEF Sound
      <4>4. Fair(heap, e, held)
        BY <2>1, <3>1, <4>2, <4>3, FairTwice
      <4> QED
        BY <1>1, <2>2, <4>4, StepFacts DEF Advance, held
    <3> QED
      BY <3>6, <3>7
  <2> QED
    BY <1>6, <2>6, <2>7
<1>8. CASE it = Nil
  <2>1. g = heap
    BY <1>6, <1>8, NilFacts DEF Allocated
  <2> DEFINE d == IF got.it = Nil THEN got.h
                  ELSE DoItemRemove(DoItemUnlink(got.h, got.it), got.it)
  <2>2. ref' = ref /\ (heap' = g \/ (heap' = d /\ Countable(g, k)))
    BY <1>8 DEF UpdateCommand
  <2> HIDE DEF new
  <2>3. heap' # g => Sound(d, held) /\ Keeps(heap, d, held, Nil) /\ Fair(heap, d, held)
    BY <1>1, <2>1, <2>2, DeleteSound
  <2> HIDE DEF d
  <2>a. Fair(heap, heap, held)
    BY <1>1, FairSame DEF Sound
  <2>4. Sound(heap', held) /\ Keeps(heap, heap', held, Nil) /\ Fair(heap, heap', held)
    BY <1>1, <2>1, <2>2, <2>3, <2>a DEF Keeps
  <2>5. Uploads(heap', ref)
    BY <1>1, <2>4, NilFacts, UploadsKept DEF held
  <2>6. IInv'
    BY <1>1, <1>2, <1>5, <2>2, <2>4, <2>5, Conclude DEF IInv, TypeOK, Turns, held
  <2>7. Advance
    BY <1>1, <2>4, StepFacts DEF Advance, held
  <2> QED
    BY <2>2, <2>6, <2>7
<1> QED
  BY <1>7, <1>8

-----------------------------------------------------------------------------
(***************************************************************************)
(* The theorems.                                                           *)
(***************************************************************************)

\* The initial state satisfies the invariant.
LEMMA InitInv == Init => IInv
<1> SUFFICES ASSUME Init PROVE IInv
  OBVIOUS
<1>1. NChunks \in Nat /\ RefMod \in Nat
  BY ItemStoreAssumption
<1>2. ref \in Refs /\ \A r \in Handles : ref[r] = Nil
  BY DEF Init, Refs
<1>3. heap \in Heap
  <2>1. heap.item \in [Chunks -> Item]
    BY FreeItemType DEF Init
  <2>2. heap.slots \in Seq(Chunks)
    BY <1>1 DEF Init, Chunks
  <2>3. <<>> \in Seq(Chunks)
    OBVIOUS
  <2> QED
    BY <2>1, <2>2, <2>3 DEF Init, Heap
<1>4. /\ cmd \in [Conns -> Comm \cup {"none"}] /\ current_time \in Nat /\ current_time >= 1
      /\ oldest_live \in Nat /\ truth \in [Keys -> Vals \cup {NoVal}]
      /\ told \in SUBSET [key : Keys, cas : Nat, val : Vals]
      /\ undone \in BOOLEAN /\ flushing \in BOOLEAN
      /\ turn \in {<<>>} \cup ({"get", "release"} \X Conns)
  <2>1. cmd = [c \in Conns |-> "none"] /\ truth = [k \in Keys |-> NoVal] /\ told = {}
    BY DEF Init
  <2>2. cmd \in [Conns -> Comm \cup {"none"}] /\ truth \in [Keys -> Vals \cup {NoVal}]
    BY <2>1
  <2>3. told \in SUBSET [key : Keys, cas : Nat, val : Vals]
    BY <2>1
  <2>4. current_time = 2 /\ oldest_live = 0
    BY DEF Init
  <2>5. /\ undone \in BOOLEAN /\ flushing \in BOOLEAN
        /\ turn \in {<<>>} \cup ({"get", "release"} \X Conns)
    BY DEF Init
  <2>6. current_time \in Nat /\ current_time >= 1 /\ oldest_live \in Nat
    BY <2>4
  <2> QED
    BY <2>2, <2>3, <2>5, <2>6
<1>5. Held(ref) \in [Chunks -> Nat] /\ \A x \in Chunks : Held(ref)[x] = 0
  <2>1. ASSUME NEW x \in Chunks PROVE Held(ref)[x] = 0
    <3>1. {r \in Handles : ref[r] = x} = {}
      BY <1>2, NilFacts
    <3> QED
      BY <3>1, FS_EmptySet DEF Held
  <2> QED
    BY <1>2, <2>1, HeldFacts
<1>6. \A x \in Chunks : heap.item[x] = FreeItem
  BY DEF Init
<1>7. \A x \in Chunks : heap.item[x].refcount = 0 /\ ~heap.item[x].linked
  BY <1>6 DEF FreeItem
<1>8. Counts(heap, Held(ref))
  <2>1. 0 < RefMod
    BY ItemStoreAssumption
  <2> QED
    BY <1>5, <1>7, <2>1 DEF Counts, One
<1>9. FreeList(heap)
  <2>1. heap.slots = [i \in 1..NChunks |-> i] /\ DOMAIN heap.slots = 1..NChunks
    BY DEF Init
  <2>2. \A x \in Chunks : In(heap.slots, x)
    BY <2>1 DEF In, Chunks
  <2>3. NoDup(heap.slots)
    BY <2>1 DEF NoDup
  <2> QED
    BY <1>7, <2>2, <2>3 DEF FreeList
<1>10. LruList(heap) /\ HashTable(heap)
  <2>1. heap.lru = <<>> /\ heap.assoc = [k \in Keys |-> <<>>]
    BY DEF Init
  <2> QED
    BY <1>7, <2>1 DEF LruList, HashTable, In, NoDup
<1>11. Uploads(heap, ref)
  <2>1. \A c \in Conns : ref[<<c, 0>>] = Nil
    BY <1>2, HandleFacts
  <2> QED
    BY <2>1 DEF Uploads
<1> QED
  BY <1>2, <1>3, <1>4, <1>5, <1>8, <1>9, <1>10, <1>11
     DEF IInv, TypeOK, StoreInv, Sound, Refs

\* Every step keeps the invariant.
LEMMA NextInv == IInv /\ [Next]_vars => IInv'
<1> SUFFICES ASSUME IInv, [Next]_vars PROVE IInv'
  OBVIOUS
<1>1. ASSUME NEW c \in Conns, NEW k \in Keys, NEW comm \in Comms, NEW t \in Lifetimes,
             NEW cas \in CASE comm = "cas" -> CasIds [] comm = "append" -> {0} \cup CasIds
                           [] OTHER -> {0},
             UpdateCommand(c, k, comm, t, cas)
      PROVE  IInv'
  <2>1. cas \in Nat
    BY ItemStoreAssumption
  <2> QED
    BY <1>1, <2>1, UpdateKeeps
<1>2. ASSUME NEW c \in Conns, NEW v \in Vals, NEW good \in BOOLEAN, CompleteNread(c, v, good)
      PROVE  IInv'
  BY <1>2, CompleteKeeps
<1>3. ASSUME NEW c \in Conns, NEW k \in Keys, NEW i \in Entries, GetCommand(c, k, i)
      PROVE  IInv'
  BY <1>3, GetKeeps
<1>4. ASSUME NEW c \in Conns, Sent(c) PROVE IInv'
  BY <1>4, SentKeeps
<1>a. ASSUME NEW c \in Conns, NEW i \in Entries, Release(c, i) PROVE IInv'
  BY <1>a, ReleaseKeeps
<1>b. ASSUME NEW c \in Conns, NEW k \in Keys, WrapAround(c, k) PROVE IInv'
  BY <1>b, WrapAroundKeeps
<1>5. ASSUME NEW c \in Conns, Close(c) PROVE IInv'
  BY <1>5, CloseKeeps
<1>6. ASSUME NEW c \in Conns, NEW k \in Keys, DeleteCommand(c, k)
      PROVE  IInv'
  BY <1>6, DeleteKeeps
<1>7. ASSUME NEW c \in Conns, NEW k \in Keys, NEW t \in Lifetimes, TouchCommand(c, k, t)
      PROVE  IInv'
  BY <1>7, TouchKeeps
<1>8. ASSUME NEW c \in Conns, NEW k \in Keys, ArithmeticCommand(c, k)
      PROVE  IInv'
  BY <1>8, ArithmeticKeeps
<1>9. ASSUME NEW c \in Conns, NEW d \in Delays, FlushAll(c, d) PROVE IInv'
  BY <1>9, FlushAllKeeps
<1>10. CASE FlushExpired
  BY <1>10, FlushExpiredKeeps
<1>11. CASE Tick
  BY <1>11, TickKeeps
<1>12. CASE UNCHANGED vars
  BY <1>12 DEF vars, IInv, TypeOK, StoreInv
<1> QED
  BY <1>1, <1>2, <1>3, <1>4, <1>5, <1>6, <1>7, <1>8, <1>9, <1>10, <1>11, <1>12, <1>a, <1>b
     DEF Next

\* Every variable keeps its type, in every behaviour and for every value of the
\* constants.
THEOREM TypeCorrect == Spec => []TypeOK
<1>1. IInv => TypeOK
  BY DEF IInv
<1> QED
  BY <1>1, InitInv, NextInv, PTL DEF Spec

\* The reference counts, the free list and the references of connections agree in
\* every behaviour (do_item_remove, item_free, conn_cleanup), until tail repair or a count that
\* wraps around.
THEOREM RefsExactAlways == Spec => []RefsExactUnlessDamaged
<1>1. ASSUME IInv PROVE RefsExactUnlessDamaged
  <2> SUFFICES ASSUME ~heap.damaged PROVE RefsExact(heap)
    BY DEF RefsExactUnlessDamaged
  <2>1. Counts(heap, Held(ref)) /\ FreeList(heap)
    BY <1>1 DEF IInv, StoreInv, Sound
  <2>2. \A x \in Chunks : Held(ref)[x] = Cardinality(HeldBy(x))
    BY DEF Held, HeldBy
  <2> QED
    BY <2>1, <2>2 DEF RefsExact, Counts, FreeList, In, NoDup
<1> QED
  BY <1>1, InitInv, NextInv, PTL DEF Spec

\* The hash table and the LRU list have the same items, each key once, in every
\* behaviour (do_item_link, do_item_unlink, do_item_replace), until tail repair or
\* a count that wraps around.
THEOREM LinkedOnceAlways == Spec => []LinkedOnce
<1>1. ASSUME IInv PROVE LinkedOnce
  <2> SUFFICES ASSUME ~heap.damaged PROVE LinkedOnce
    BY DEF LinkedOnce
  <2>1. LruList(heap) /\ HashTable(heap) /\ heap \in Heap
    BY <1>1 DEF IInv, StoreInv, Sound
  <2>2. ASSUME NEW k \in Keys PROVE Len(heap.assoc[k]) <= 1
    <3>1. CASE heap.assoc[k] = <<>>
      BY <3>1
    <3>2. CASE heap.assoc[k] # <<>>
      <4>1. PICK x \in Chunks : heap.assoc[k] = <<x>>
        BY <2>1, <3>2 DEF HashTable
      <4> QED
        BY <4>1
    <3> QED
      BY <3>1, <3>2
  <2>3. ASSUME NEW x \in Chunks
        PROVE  heap.item[x].linked <=>
                  (\E k \in Keys : heap.assoc[k] = <<x>> /\ heap.item[x].key = k)
    <3>1. ASSUME heap.item[x].linked
          PROVE  \E k \in Keys : heap.assoc[k] = <<x>> /\ heap.item[x].key = k
      BY <2>1, <3>1 DEF HashTable
    <3>2. ASSUME NEW k \in Keys, heap.assoc[k] = <<x>>
          PROVE  heap.item[x].linked
      <4>1. heap.assoc[k] # <<>>
        BY <3>2
      <4>2. PICK y \in Chunks : heap.assoc[k] = <<y>> /\ heap.item[y].linked
        BY <2>1, <4>1 DEF HashTable
      <4>3. y = x
        BY <3>2, <4>2
      <4> QED
        BY <4>2, <4>3
    <3> QED
      BY <3>1, <3>2
  <2> QED
    BY <2>1, <2>2, <2>3 DEF LinkedOnce, LruList, In, NoDup
<1> QED
  BY <1>1, InitInv, NextInv, PTL DEF Spec

\* The contents of items, as long as the heap is not damaged.
ContentInv == heap.damaged \/ CasInv(heap, told)

\* A step that only tells clients what they know keeps the contents right.
LEMMA ContentKept ==
  ASSUME IInv, IInv', ContentInv, ~heap.damaged, Advance, told' = told
  PROVE  ContentInv'
<1>1. CASE heap'.damaged
  BY <1>1 DEF ContentInv
<1>2. CASE ~heap'.damaged
  <2>1. heap \in Heap /\ heap' \in Heap /\ told \in SUBSET Told
    BY DEF IInv, TypeOK, Told
  <2>2. CasInv(heap, told) /\ Newer(heap, heap')
    BY <1>2 DEF ContentInv, Advance, Step
  <2>3. CasInv(heap', told)
    BY <2>1, <2>2, CasKept
  <2> QED
    BY <1>2, <2>3 DEF ContentInv
<1> QED
  BY <1>1, <1>2

\* Every step advances, and keeps the contents right.
LEMMA NextContent == IInv /\ ContentInv /\ [Next]_vars => ContentInv' /\ Advance
<1> SUFFICES ASSUME IInv, ContentInv, [Next]_vars PROVE ContentInv' /\ Advance
  OBVIOUS
<1>a. IInv'
  BY NextInv
<1>b. ref \in Refs /\ heap \in Heap /\ heap.cas_id \in Nat
  BY DEF IInv, TypeOK, Refs, Heap
<1>c. ASSUME heap' = heap, ref' = ref, told' = told
      PROVE  ContentInv' /\ Advance
  <2>1. Fair(heap, heap', Held(ref))
    BY <1>b, <1>c, FairSame
  <2>2. Advance
    BY <1>b, <1>c, <2>1, StepFacts DEF Advance
  <2> QED
    BY <1>c, <2>2 DEF ContentInv
<1>d. ASSUME Advance, ~heap.damaged, told' = told
      PROVE  ContentInv' /\ Advance
  BY <1>a, <1>d, ContentKept
<1>1. ASSUME NEW c \in Conns, NEW k \in Keys, NEW comm \in Comms, NEW t \in Lifetimes,
             NEW cas \in CASE comm = "cas" -> CasIds [] comm = "append" -> {0} \cup CasIds
                           [] OTHER -> {0},
             UpdateCommand(c, k, comm, t, cas)
      PROVE  ContentInv' /\ Advance
  <2>1. cas \in Nat
    BY ItemStoreAssumption
  <2>2. ~heap.damaged /\ told' = told
    BY <1>1 DEF UpdateCommand, Ready, Idle
  <2> QED
    BY <1>1, <1>d, <2>1, <2>2, UpdateKeeps
<1>2. ASSUME NEW c \in Conns, NEW v \in Vals, NEW good \in BOOLEAN, CompleteNread(c, v, good)
      PROVE  ContentInv' /\ Advance
  <2>1. ~heap.damaged /\ told' = told
    BY <1>2 DEF CompleteNread, Idle
  <2> QED
    BY <1>2, <1>d, <2>1, CompleteKeeps
<1>3. ASSUME NEW c \in Conns, NEW k \in Keys, NEW i \in Entries, GetCommand(c, k, i)
      PROVE  ContentInv' /\ Advance
  <2>1. ~heap.damaged
    BY <1>3 DEF GetCommand, Ready, Idle
  <2> QED
    BY <1>3, <2>1, GetKeeps DEF ContentInv
<1>4. ASSUME NEW c \in Conns, Sent(c) PROVE ContentInv' /\ Advance
  BY <1>4, <1>c DEF Sent
<1>13. ASSUME NEW c \in Conns, NEW i \in Entries, Release(c, i)
       PROVE  ContentInv' /\ Advance
  <2>1. ~heap.damaged /\ told' = told
    BY <1>13 DEF Release
  <2> QED
    BY <1>13, <1>d, <2>1, ReleaseKeeps
<1>14. ASSUME NEW c \in Conns, NEW k \in Keys, WrapAround(c, k)
       PROVE  ContentInv' /\ Advance
  <2>1. ~heap.damaged /\ told' = told
    BY <1>14 DEF WrapAround
  <2> QED
    BY <1>14, <1>d, <2>1, WrapAroundKeeps
<1>5. ASSUME NEW c \in Conns, Close(c) PROVE ContentInv' /\ Advance
  <2>1. ~heap.damaged /\ told' = told
    BY <1>5 DEF Close, Idle
  <2> QED
    BY <1>5, <1>d, <2>1, CloseKeeps
<1>6. ASSUME NEW c \in Conns, NEW k \in Keys, DeleteCommand(c, k)
      PROVE  ContentInv' /\ Advance
  <2>1. ~heap.damaged /\ told' = told
    BY <1>6 DEF DeleteCommand, Ready, Idle
  <2> QED
    BY <1>6, <1>d, <2>1, DeleteKeeps
<1>7. ASSUME NEW c \in Conns, NEW k \in Keys, NEW t \in Lifetimes, TouchCommand(c, k, t)
      PROVE  ContentInv' /\ Advance
  <2>1. ~heap.damaged /\ told' = told
    BY <1>7 DEF TouchCommand, Ready, Idle
  <2> QED
    BY <1>7, <1>d, <2>1, TouchKeeps
<1>8. ASSUME NEW c \in Conns, NEW k \in Keys, ArithmeticCommand(c, k)
      PROVE  ContentInv' /\ Advance
  <2>1. ~heap.damaged /\ told' = told
    BY <1>8 DEF ArithmeticCommand, Ready, Idle
  <2> QED
    BY <1>8, <1>d, <2>1, ArithmeticKeeps
<1>9. ASSUME NEW c \in Conns, NEW d \in Delays, FlushAll(c, d)
      PROVE  ContentInv' /\ Advance
  BY <1>9, <1>c DEF FlushAll
<1>10. CASE FlushExpired
  <2>1. ~heap.damaged /\ told' = told
    BY <1>10 DEF FlushExpired
  <2> QED
    BY <1>10, <1>d, <2>1, FlushExpiredKeeps
<1>11. CASE Tick
  BY <1>11, <1>c DEF Tick
<1>12. CASE UNCHANGED vars
  BY <1>12, <1>c DEF vars
<1> QED
  BY <1>1, <1>2, <1>3, <1>4, <1>5, <1>6, <1>7, <1>8, <1>9, <1>10, <1>11, <1>12, <1>13, <1>14
     DEF Next

\* The contents are right at first.
LEMMA InitContent == Init => ContentInv
<1> SUFFICES ASSUME Init PROVE CasInv(heap, told)
  BY DEF ContentInv
<1>1. told = {} /\ \A x \in Chunks : ~heap.item[x].linked
  BY DEF Init, FreeItem
<1> QED
  BY <1>1 DEF CasInv

\* A CAS id stands for the value it was sent with (do_item_link gives every version an
\* id of its own, and do_add_delta never changes a value in place), so a "cas" cannot
\* overwrite a value its client has not seen.
THEOREM CasMeansValueAlways == Spec => []CasMeansValue
<1>1. ContentInv => CasMeansValue
  BY DEF ContentInv, CasInv, CasMeansValue
<1> QED
  BY <1>1, InitInv, NextInv, InitContent, NextContent, PTL DEF Spec

\* The item a connection is sending (c->ilist) keeps its key and value until it is
\* released, whatever is stored, deleted, flushed or evicted meanwhile.
THEOREM SentItemStableAlways == Spec => SentItemStable
<1>1. IInv /\ ContentInv /\ [Next]_vars =>
         [\A c \in Conns, i \in Entries :
            LET x == ref[<<c, i>>]
            IN  (x # Nil /\ ref'[<<c, i>>] = x /\ ~heap'.damaged) =>
                    /\ heap'.item[x].key = heap.item[x].key
                    /\ heap'.item[x].val = heap.item[x].val]_vars
  BY NextContent DEF Advance, Step
<1> QED
  BY <1>1, InitInv, NextInv, InitContent, NextContent, PTL DEF Spec, SentItemStable

-----------------------------------------------------------------------------
(***************************************************************************)
(* What a get returns.                                                     *)
(***************************************************************************)

\* x comes before y in the list s.
Before(s, x, y) == \E i, j \in DOMAIN s : i < j /\ s[i] = x /\ s[j] = y

\* No get returns the item now, or later: time only goes on.
Gone(m) == Flushed(m) \/ Expired(m)

\* The LRU list goes from the most recent item to the oldest one.
Ordered(h) ==
    /\ \A x \in Chunks : h.item[x].linked => h.item[x].time <= current_time
    /\ \A x, y \in Chunks :
          h.item[x].linked /\ h.item[y].linked /\ Before(h.lru, x, y) =>
              h.item[y].time <= h.item[x].time

\* A linked item has the value t says its key has, unless it is gone.
Current(h, t) ==
    \A x \in Chunks : h.item[x].linked =>
        h.item[x].val = t[h.item[x].key] \/ Gone(h.item[x])
Fresh(h, t) == Ordered(h) /\ Current(h, t)

\* A command may lose items, but the linked ones that stay are what they were, in the
\* order they were in.
Alike(m, n) ==
    m.key = n.key /\ m.val = n.val /\ m.time = n.time /\ m.exptime = n.exptime
Thinned(h, g) ==
    /\ \A y \in Chunks : g.item[y].linked => h.item[y].linked /\ Alike(g.item[y], h.item[y])
    /\ \A x, y \in Chunks : Before(g.lru, x, y) => Before(h.lru, x, y)

\* An item put in front comes before all others.
LEMMA PushBefore ==
  ASSUME NEW s \in Seq(Chunks), NEW x \in Chunks, NEW a, NEW b, Before(Push(s, x), a, b)
  PROVE  (a = x /\ In(s, b)) \/ Before(s, a, b)
<1> DEFINE p == Push(s, x)
<1>1. /\ p \in Seq(Chunks) /\ Len(p) = Len(s) + 1 /\ p[1] = x
      /\ \A i \in 2..Len(p) : i - 1 \in 1..Len(s) /\ p[i] = s[i - 1]
  <2>1. p \in Seq(Chunks) /\ Len(p) = Len(s) + 1 /\ p[1] = x
    BY DEF Push
  <2>2. \A i \in 1..Len(s) : p[i + 1] = s[i]
    BY DEF Push
  <2> QED
    BY <2>1, <2>2
<1>2. PICK i \in DOMAIN p, j \in DOMAIN p : i < j /\ p[i] = a /\ p[j] = b
  BY DEF Before
<1> HIDE DEF p
<1>3. j - 1 \in 1..Len(s) /\ s[j - 1] = b
  BY <1>1, <1>2
<1>4. CASE i = 1
  BY <1>1, <1>2, <1>3, <1>4 DEF In
<1>5. CASE i # 1
  <2>1. i - 1 \in 1..Len(s) /\ s[i - 1] = a /\ i - 1 < j - 1
    BY <1>1, <1>2, <1>5
  <2> QED
    BY <1>3, <2>1 DEF Before
<1> QED
  BY <1>4, <1>5

\* Taking an item out leaves the others in order.
LEMMA WithoutBefore ==
  ASSUME NEW s \in Seq(Chunks), NEW x, NEW a, NEW b, Before(Without(s, x), a, b)
  PROVE  Before(s, a, b)
<1>1. CASE ~(\E i \in DOMAIN s : s[i] = x)
  BY <1>1 DEF Without
<1>2. CASE \E i \in DOMAIN s : s[i] = x
  <2> DEFINE n == CHOOSE i \in DOMAIN s : s[i] = x
             w == Without(s, x)
  <2>1. n \in 1..Len(s)
    BY <1>2
  <2>2. w = [j \in 1..(Len(s) - 1) |-> IF j < n THEN s[j] ELSE s[j + 1]]
    BY <1>2 DEF Without
  <2> HIDE DEF n, w
  <2>3. PICK i \in DOMAIN w, j \in DOMAIN w : i < j /\ w[i] = a /\ w[j] = b
    BY DEF Before, w
  <2>4. i \in 1..(Len(s) - 1) /\ j \in 1..(Len(s) - 1)
    BY <2>2, <2>3
  <2>5. /\ w[i] = IF i < n THEN s[i] ELSE s[i + 1]
        /\ w[j] = IF j < n THEN s[j] ELSE s[j + 1]
    BY <2>2, <2>4
  <2>6. PICK p \in 1..Len(s), q \in 1..Len(s) : p < q /\ s[p] = a /\ s[q] = b
    <3>1. CASE i < n /\ j < n
      BY <2>1, <2>3, <2>4, <2>5, <3>1
    <3>2. CASE i < n /\ ~(j < n)
      <4>1. i < j + 1 /\ j + 1 \in 1..Len(s) /\ i \in 1..Len(s)
        BY <2>1, <2>3, <2>4
      <4>2. s[i] = a /\ s[j + 1] = b
        BY <2>3, <2>5, <3>2
      <4> QED
        BY <4>1, <4>2
    <3>3. CASE ~(i < n) /\ ~(j < n)
      <4>1. i + 1 < j + 1 /\ j + 1 \in 1..Len(s) /\ i + 1 \in 1..Len(s)
        BY <2>1, <2>3, <2>4
      <4>2. s[i + 1] = a /\ s[j + 1] = b
        BY <2>3, <2>5, <3>3
      <4> QED
        BY <4>1, <4>2
    <3> QED
      BY <2>1, <2>3, <2>4, <3>1, <3>2, <3>3
  <2> QED
    BY <2>6 DEF Before
<1> QED
  BY <1>1, <1>2

\* One command after the other.
LEMMA ThinnedTwice ==
  ASSUME NEW h, NEW f, NEW g, Thinned(h, f), Thinned(f, g)
  PROVE  Thinned(h, g)
  BY DEF Thinned, Alike

\* A command that does nothing.
LEMMA ThinnedSame ==
  ASSUME NEW h
  PROVE  Thinned(h, h)
  BY DEF Thinned, Alike

\* A fresh heap that is thinned is fresh.
LEMMA ThinnedFresh ==
  ASSUME NEW h, NEW g, NEW t, Thinned(h, g), Fresh(h, t)
  PROVE  Fresh(g, t)
<1>1. Ordered(g)
  BY DEF Thinned, Alike, Fresh, Ordered
<1>2. Current(g, t)
  BY DEF Thinned, Alike, Fresh, Current, Gone, Flushed, Expired
<1> QED
  BY <1>1, <1>2 DEF Fresh

\* Only the item of one chunk changed, and it is not linked any more or the same as far
\* as a get can tell.
LEMMA ThinnedOnly ==
  ASSUME NEW h, NEW g, NEW x \in Chunks, \A y \in Chunks : y # x => g.item[y] = h.item[y],
         g.item[x].linked => h.item[x].linked /\ Alike(g.item[x], h.item[x]),
         g.lru = h.lru
  PROVE  Thinned(h, g)
  BY DEF Thinned, Alike

\* refcount_incr.
LEMMA IncrThin ==
  ASSUME NEW h \in Heap, NEW x \in Chunks
  PROVE  Thinned(h, Incr(h, x))
<1> DEFINE g == Incr(h, x)
           n == Wrap(h.item[x].refcount + 1)
<1>1. /\ h.item \in [Chunks -> Item] /\ h.item[x] \in Item
      /\ g.lru = h.lru
  BY DEF Heap, Incr
<1>2. g.item = [h.item EXCEPT ![x].refcount = n]
  BY DEF Heap, Incr
<1> HIDE DEF n, g
<1>3. /\ \A y \in Chunks : y # x => g.item[y] = h.item[y]
      /\ g.item[x] = [h.item[x] EXCEPT !.refcount = n]
  BY <1>1, <1>2
<1>4. g.item[x].linked => h.item[x].linked /\ Alike(g.item[x], h.item[x])
  BY <1>1, <1>3 DEF Item, Alike
<1>a. g.lru = h.lru
  BY <1>1
<1>b. \A y \in Chunks : y # x => g.item[y] = h.item[y]
  BY <1>3
<1>5. Thinned(h, g)
  BY <1>4, <1>a, <1>b, ThinnedOnly
<1> QED
  BY <1>5 DEF g

\* refcount_decr.
LEMMA DecrThin ==
  ASSUME NEW h \in Heap, NEW x \in Chunks
  PROVE  Thinned(h, Decr(h, x))
<1> DEFINE g == Decr(h, x)
           n == Wrap(h.item[x].refcount - 1)
<1>1. /\ h.item \in [Chunks -> Item] /\ h.item[x] \in Item
      /\ g.lru = h.lru
  BY DEF Heap, Decr
<1>2. g.item = [h.item EXCEPT ![x].refcount = n]
  BY DEF Heap, Decr
<1> HIDE DEF n, g
<1>3. /\ \A y \in Chunks : y # x => g.item[y] = h.item[y]
      /\ g.item[x] = [h.item[x] EXCEPT !.refcount = n]
  BY <1>1, <1>2
<1>4. g.item[x].linked => h.item[x].linked /\ Alike(g.item[x], h.item[x])
  BY <1>1, <1>3 DEF Item, Alike
<1>a. g.lru = h.lru
  BY <1>1
<1>b. \A y \in Chunks : y # x => g.item[y] = h.item[y]
  BY <1>3
<1>5. Thinned(h, g)
  BY <1>4, <1>a, <1>b, ThinnedOnly
<1> QED
  BY <1>5 DEF g

\* do_item_remove, with item_free.
LEMMA RemoveThin ==
  ASSUME NEW h \in Heap, NEW x \in Chunks
  PROVE  Thinned(h, DoItemRemove(h, x))
<1> DEFINE g == Decr(h, x)
           f == ItemFree(g, x)
<1>1. Thinned(h, g) /\ g \in Heap
  BY DecrThin, DecrType
<1> HIDE DEF g
<1>2. Thinned(g, f)
  <2>1. /\ \A y \in Chunks : y # x => f.item[y] = g.item[y]
        /\ f.item[x] = FreeItem /\ f.lru = g.lru
    BY <1>1 DEF ItemFree, Heap
  <2>2. ~FreeItem.linked
    BY DEF FreeItem
  <2> HIDE DEF f
  <2> QED
    BY <2>1, <2>2, ThinnedOnly
<1>3. Thinned(h, f)
  BY <1>1, <1>2, ThinnedTwice
<1> QED
  BY <1>1, <1>3 DEF DoItemRemove, g

\* do_item_unlink.
LEMMA UnlinkThin ==
  ASSUME NEW h \in Heap, NEW x \in Chunks
  PROVE  Thinned(h, DoItemUnlink(h, x))
<1> DEFINE u == [h EXCEPT !.item[x].linked = FALSE,
                          !.assoc = AssocDelete(@, h.item[x].key),
                          !.lru = Without(@, x)]
<1>1. CASE ~h.item[x].linked
  BY <1>1, ThinnedSame DEF DoItemUnlink
<1>2. CASE h.item[x].linked
  <2>1. /\ h.item \in [Chunks -> Item] /\ h.item[x] \in Item /\ h.lru \in Seq(Chunks)
    BY DEF Heap
  <2>2. /\ u.item = [h.item EXCEPT ![x].linked = FALSE]
        /\ u.lru = Without(h.lru, x)
    BY DEF Heap
  <2>3. DoItemUnlink(h, x) = DoItemRemove(u, x)
    BY <1>2 DEF DoItemUnlink
  <2>4. u \in Heap
    <3>1. u.item \in [Chunks -> Item]
      <4>1. [h.item[x] EXCEPT !.linked = FALSE] \in Item
        BY <2>1 DEF Item
      <4>2. u.item = [h.item EXCEPT ![x] = [h.item[x] EXCEPT !.linked = FALSE]]
        BY <2>1, <2>2
      <4> QED
        BY <2>1, <4>1, <4>2
    <3>2. AssocDelete(h.assoc, h.item[x].key) \in [Keys -> Seq(Chunks)]
      <4>1. h.assoc \in [Keys -> Seq(Chunks)]
        BY DEF Heap
      <4>2. \A s \in Seq(Chunks) : (IF s = <<>> THEN s ELSE Tail(s)) \in Seq(Chunks)
        OBVIOUS
      <4> QED
        BY <4>1, <4>2 DEF AssocDelete
    <3>3. u.lru \in Seq(Chunks)
      BY <2>1, <2>2, WithoutType
    <3> QED
      BY <3>1, <3>2, <3>3 DEF Heap
  <2> HIDE DEF u
  <2>5. Thinned(h, u)
    <3>1. /\ \A y \in Chunks : y # x => u.item[y] = h.item[y]
          /\ ~u.item[x].linked
      BY <2>1, <2>2 DEF Item
    <3>2. \A y, z \in Chunks : Before(u.lru, y, z) => Before(h.lru, y, z)
      BY <2>1, <2>2, WithoutBefore
    <3> QED
      BY <3>1, <3>2 DEF Thinned, Alike
  <2> QED
    BY <2>3, <2>4, <2>5, RemoveThin, ThinnedTwice
<1> QED
  BY <1>1, <1>2

\* do_item_get: an item that it returns is not gone.
LEMMA GetThin ==
  ASSUME NEW h \in Heap, NEW k \in Keys
  PROVE  LET r == DoItemGet(h, k)
         IN  /\ Thinned(h, r.h) /\ r.h \in Heap
             /\ r.it # Nil => ~Gone(r.h.item[r.it])
<1>1. CASE h.assoc[k] = <<>>
  BY <1>1, ThinnedSame DEF DoItemGet
<1>2. CASE h.assoc[k] # <<>>
  <2> DEFINE x == Head(h.assoc[k])
             g == Incr(h, x)
             d == DoItemRemove(DoItemUnlink(g, x), x)
  <2>1. x \in Chunks
    <3>1. h.assoc[k] \in Seq(Chunks)
      BY DEF Heap
    <3> QED
      BY <1>2, <3>1
  <2>2. DoItemGet(h, k) = IF Gone(g.item[x]) THEN [h |-> d, it |-> Nil]
                          ELSE [h |-> g, it |-> x]
    BY <1>2 DEF DoItemGet, Gone
  <2> HIDE DEF x
  <2>3. g \in Heap /\ Thinned(h, g)
    BY <2>1, IncrType, IncrThin
  <2> HIDE DEF g
  <2>4. Thinned(g, DoItemUnlink(g, x)) /\ DoItemUnlink(g, x) \in Heap
    BY <2>1, <2>3, UnlinkThin, UnlinkType
  <2>5. Thinned(DoItemUnlink(g, x), d) /\ d \in Heap
    BY <2>1, <2>4, RemoveThin, RemoveType
  <2>6. Thinned(h, d)
    BY <2>3, <2>4, <2>5, ThinnedTwice
  <2> HIDE DEF d
  <2> QED
    BY <2>2, <2>3, <2>5, <2>6
<1> QED
  BY <1>1, <1>2

\* Dropping a reference.
LEMMA DropThin ==
  ASSUME NEW h \in Heap, NEW x \in Chunks \cup {Nil}
  PROVE  Thinned(h, Drop(h, x)) /\ Drop(h, x) \in Heap
  BY RemoveThin, RemoveType, ThinnedSame DEF Drop

\* The chunk of a new item loses the one it had.
LEMMA InitialisedThin ==
  ASSUME NEW h \in Heap, NEW x \in Chunks, NEW k, NEW exptime
  PROVE  Thinned(h, Initialised(h, x, k, exptime).h)
<1> DEFINE g == [h EXCEPT !.item[x] = NewItem(k, exptime)]
<1>1. Initialised(h, x, k, exptime).h = g
  BY DEF Initialised
<1>2. /\ \A y \in Chunks : y # x => g.item[y] = h.item[y]
      /\ g.item[x] = NewItem(k, exptime) /\ g.lru = h.lru
  BY DEF Heap
<1>3. ~NewItem(k, exptime).linked
  BY DEF NewItem, FreeItem
<1> HIDE DEF g
<1>4. Thinned(h, g)
  BY <1>2, <1>3, ThinnedOnly
<1> QED
  BY <1>1, <1>4

\* slabs_alloc.
LEMMA SlabsThin ==
  ASSUME NEW h \in Heap, NEW k, NEW exptime
  PROVE  Thinned(h, SlabsAlloc(h, k, exptime).h)
<1>1. CASE h.slots = <<>>
  BY <1>1, ThinnedSame DEF SlabsAlloc
<1>2. CASE h.slots # <<>>
  <2> DEFINE g == [h EXCEPT !.slots = Tail(@)]
  <2>1. h.slots \in Seq(Chunks) /\ g.item = h.item /\ g.lru = h.lru
    BY DEF Heap
  <2>2. Head(h.slots) \in Chunks /\ Tail(h.slots) \in Seq(Chunks)
    BY <1>2, <2>1
  <2>3. g \in Heap
    BY <2>2 DEF Heap
  <2>4. SlabsAlloc(h, k, exptime) = Initialised(g, Head(h.slots), k, exptime)
    BY <1>2 DEF SlabsAlloc
  <2> HIDE DEF g
  <2>5. Thinned(h, g)
    BY <2>1 DEF Thinned, Alike
  <2> QED
    BY <2>2, <2>3, <2>4, <2>5, InitialisedThin, ThinnedTwice
<1> QED
  BY <1>1, <1>2

\* do_item_alloc evicts and reclaims.
LEMMA AllocThin ==
  ASSUME NEW h \in Heap, NEW k, NEW exptime, NEW cur
  PROVE  LET r == DoItemAlloc(h, k, exptime, cur)
         IN  r.h.damaged \/ Thinned(h, r.h)
<1> DEFINE x == Search(h, cur)
           i == Incr(h, x)
           u == DoItemUnlink(i, x)
           d == Decr(u, x)
<1>1. CASE x = Nil
  BY <1>1, SlabsThin DEF DoItemAlloc
<1>2. CASE x # Nil /\ h.item[x].refcount # 1
  <2> DEFINE f == TailRepair(h, x)
  <2>1. x \in Chunks
    BY <1>2, SearchFacts
  <2>2. DoItemAlloc(h, k, exptime, cur) = SlabsAlloc(f, k, exptime)
    BY <1>2 DEF DoItemAlloc
  <2>3. f.damaged
    <3>1. f = [DoItemUnlink([h EXCEPT !.item[x].refcount = 1], x) EXCEPT !.damaged = TRUE]
      BY DEF TailRepair
    <3>2. [h EXCEPT !.item[x].refcount = 1] \in Heap
      <4>1. h.item \in [Chunks -> Item] /\ h.item[x] \in Item
        BY <2>1 DEF Heap
      <4>2. [h.item[x] EXCEPT !.refcount = 1] \in Item
        BY <4>1, SMTT(30) DEF Item
      <4>3. [h.item EXCEPT ![x] = [h.item[x] EXCEPT !.refcount = 1]] \in [Chunks -> Item]
        BY <4>1, <4>2
      <4> QED
        BY <2>1, <4>3, ZenonT(30) DEF Heap
    <3>3. DoItemUnlink([h EXCEPT !.item[x].refcount = 1], x) \in Heap
      BY <2>1, <3>2, UnlinkType
    <3> QED
      BY <3>1, <3>3 DEF Heap
  <2> HIDE DEF f
  <2>4. SlabsAlloc(f, k, exptime).h.damaged
    BY <2>3 DEF SlabsAlloc, Initialised
  <2> QED
    BY <2>2, <2>4
<1>3. CASE x # Nil /\ h.item[x].refcount = 1
  <2>1. x \in Chunks
    BY <1>3, SearchFacts
  <2>2. \/ DoItemAlloc(h, k, exptime, cur) = Initialised(Reclaim(h, x), x, k, exptime)
        \/ DoItemAlloc(h, k, exptime, cur) = SlabsAlloc(h, k, exptime)
        \/ DoItemAlloc(h, k, exptime, cur) = [h |-> h, it |-> Nil]
    BY <1>3 DEF DoItemAlloc
  <2>3. Reclaim(h, x) = d
    BY DEF Reclaim
  <2> HIDE DEF x
  <2>4. i \in Heap /\ Thinned(h, i)
    BY <2>1, IncrType, IncrThin
  <2> HIDE DEF i
  <2>5. u \in Heap /\ Thinned(i, u)
    BY <2>1, <2>4, UnlinkType, UnlinkThin
  <2> HIDE DEF u
  <2>6. d \in Heap /\ Thinned(u, d)
    BY <2>1, <2>5, DecrType, DecrThin
  <2> HIDE DEF d
  <2>7. Thinned(h, Initialised(d, x, k, exptime).h)
    BY <2>1, <2>4, <2>5, <2>6, InitialisedThin, ThinnedTwice
  <2>8. Thinned(h, SlabsAlloc(h, k, exptime).h) /\ Thinned(h, h)
    BY SlabsThin, ThinnedSame
  <2> QED
    BY <2>2, <2>3, <2>7, <2>8
<1> QED
  BY <1>1, <1>2, <1>3

\* What a client may be told about each key.
Truths == [Keys -> Vals \cup {NoVal}]

\* A key that has no item may be given any value.
LEMMA NoneFresh ==
  ASSUME NEW h, NEW held, Sound(h, held), NEW t \in Truths, Fresh(h, t),
         NEW k \in Keys, h.assoc[k] = <<>>, NEW v
  PROVE  Fresh(h, [t EXCEPT ![k] = v])
<1>1. ASSUME NEW x \in Chunks, h.item[x].linked
      PROVE  h.item[x].key # k /\ h.item[x].key \in Keys
  <2>1. h.item[x].key \in Keys /\ h.assoc[h.item[x].key] = <<x>>
    BY <1>1 DEF Sound, HashTable
  <2>2. <<x>> # <<>>
    OBVIOUS
  <2> QED
    BY <2>1, <2>2
<1>2. \A j \in Keys : j # k => [t EXCEPT ![k] = v][j] = t[j]
  BY DEF Truths
<1>3. Current(h, [t EXCEPT ![k] = v])
  BY <1>1, <1>2 DEF Fresh, Current
<1> QED
  BY <1>3 DEF Fresh

\* do_item_link: the item is the most recent one, and the truth about its key.
LEMMA LinkFresh ==
  ASSUME NEW h, NEW held, NEW x \in Chunks, Sound(h, held), held[x] >= 1,
         ~h.item[x].linked, h.item[x].key \in Keys, h.item[x].val \in Vals,
         h.assoc[h.item[x].key] = <<>>, current_time \in Nat,
         NEW t \in Truths, Fresh(h, t)
  PROVE  Fresh(DoItemLink(h, x), [t EXCEPT ![h.item[x].key] = h.item[x].val])
<1> DEFINE f == Linked(h, x)
           k == h.item[x].key
           v == h.item[x].val
           t2 == [t EXCEPT ![k] = v]
<1>1. /\ Sound(f, Minus(held, x)) /\ \A y \in Chunks : y # x => f.item[y] = h.item[y]
      /\ f.item[x].linked /\ f.item[x].key = k /\ f.item[x].val = v
  BY LinkedSound
<1>2. h \in Heap /\ f \in Heap /\ h.lru \in Seq(Chunks)
  BY <1>1 DEF Sound, Heap
<1>3. f.item[x].time = current_time /\ f.lru = Push(h.lru, x)
  <2>1. h.item[x] \in Item
    BY <1>2 DEF Heap
  <2>2. h.item \in [Chunks -> Item]
    BY <1>2 DEF Heap
  <2>3. f.item[x].time = current_time
    BY <2>1, <2>2 DEF Linked, Item
  <2>4. f.lru = Push(h.lru, x)
    BY <1>2 DEF Linked, Heap
  <2> QED
    BY <2>3, <2>4
<1>4. DoItemLink(h, x) = Incr(f, x)
  BY DEF DoItemLink, Linked
<1>5. Fresh(h, t2) /\ t2[k] = v
  <2>1. Fresh(h, t2)
    BY NoneFresh
  <2> QED
    BY <2>1 DEF Truths
<1> HIDE DEF f, k, v, t2
<1>6. ~In(h.lru, x)
  BY DEF Sound, LruList
<1>7. \A y \in Chunks : h.item[y] \in Item /\ h.item[y].time \in Nat
  BY <1>2 DEF Heap, Item
<1>8. Ordered(f)
  <2>1. ASSUME NEW y \in Chunks, f.item[y].linked PROVE f.item[y].time <= current_time
    BY <1>1, <1>3, <1>5, <2>1 DEF Fresh, Ordered
  <2>2. ASSUME NEW y \in Chunks, NEW z \in Chunks, f.item[y].linked, f.item[z].linked,
               Before(f.lru, y, z)
        PROVE  f.item[z].time <= f.item[y].time
    <3>1. CASE y = x
      BY <1>3, <2>1, <2>2, <3>1
    <3>2. CASE y # x
      <4>1. Before(h.lru, y, z)
        BY <1>2, <1>3, <2>2, <3>2, PushBefore
      <4>2. In(h.lru, z)
        BY <4>1 DEF Before, In
      <4>3. z # x
        BY <1>6, <4>2
      <4> QED
        BY <1>1, <1>5, <2>2, <3>2, <4>1, <4>3 DEF Fresh, Ordered
    <3> QED
      BY <3>1, <3>2
  <2> QED
    BY <2>1, <2>2 DEF Ordered
<1>9. Current(f, t2)
  BY <1>1, <1>5 DEF Fresh, Current
<1>10. Fresh(f, t2)
  BY <1>8, <1>9 DEF Fresh
<1> QED
  BY <1>2, <1>4, <1>10, IncrThin, ThinnedFresh DEF t2, k, v

\* do_item_replace.
LEMMA ReplaceFresh ==
  ASSUME NEW h, NEW held, Sound(h, held), NEW x \in Chunks, NEW new \in Chunks,
         h.item[x].linked, held[new] >= 1,
         ~h.item[new].linked, h.item[new].key = h.item[x].key,
         h.item[new].val \in Vals, current_time \in Nat,
         NEW t \in Truths, Fresh(h, t)
  PROVE  Fresh(DoItemReplace(h, x, new), [t EXCEPT ![h.item[new].key] = h.item[new].val])
<1> DEFINE u == DoItemUnlink(h, x)
<1>1. /\ Sound(u, held) /\ Only(h, u, x) /\ u.assoc[h.item[x].key] = <<>>
  BY UnlinkSound
<1>2. Thinned(h, u)
  BY UnlinkThin DEF Sound
<1> HIDE DEF u
<1>3. new # x /\ u.item[new] = h.item[new] /\ h.item[x].key \in Keys
  BY <1>1 DEF Only, Sound, HashTable
<1>4. Fresh(u, t)
  BY <1>2, ThinnedFresh
<1>5. Fresh(DoItemLink(u, new), [t EXCEPT ![u.item[new].key] = u.item[new].val])
  BY <1>1, <1>3, <1>4, LinkFresh
<1> QED
  BY <1>3, <1>5 DEF DoItemReplace, u

\* do_item_update: the item is the most recent one now, so it must be one that is right.
LEMMA UpdateFresh ==
  ASSUME NEW h, NEW held, NEW x \in Chunks, Sound(h, held), current_time \in Nat,
         NEW t \in Truths, Fresh(h, t), h.item[x].linked,
         h.item[x].val = t[h.item[x].key]
  PROVE  Fresh(DoItemUpdate(h, x), t)
<1> DEFINE g == [h EXCEPT !.lru = Relink(@, x), !.item[x].time = current_time]
<1>1. CASE DoItemUpdate(h, x) = h
  BY <1>1
<1>2. CASE DoItemUpdate(h, x) = g
  <2>1. h \in Heap /\ h.lru \in Seq(Chunks) /\ NoDup(h.lru) /\ h.item[x] \in Item
    BY DEF Sound, Heap, LruList
  <2>2. /\ g.lru = Push(Without(h.lru, x), x)
        /\ g.item = [h.item EXCEPT ![x].time = current_time]
    BY <2>1 DEF Heap, Relink
  <2>3. /\ \A y \in Chunks : y # x => g.item[y] = h.item[y]
        /\ g.item[x] = [h.item[x] EXCEPT !.time = current_time]
    BY <2>1, <2>2 DEF Heap
  <2>4. /\ g.item[x].time = current_time /\ g.item[x].val = h.item[x].val
        /\ g.item[x].key = h.item[x].key
    BY <2>1, <2>3 DEF Item
  <2> HIDE DEF g
  <2>5. /\ Without(h.lru, x) \in Seq(Chunks) /\ ~In(Without(h.lru, x), x)
    BY <2>1, WithoutFacts
  <2>6. ASSUME NEW y \in Chunks, g.item[y].linked
        PROVE  h.item[y].linked /\ g.item[y].time <= current_time
    <3>1. CASE y = x
      <4>1. g.item[y].time = current_time
        BY <2>4, <3>1
      <4> QED
        BY <3>1, <4>1
    <3>2. CASE y # x
      BY <2>3, <2>6, <3>2 DEF Fresh, Ordered
    <3> QED
      BY <3>1, <3>2
  <2>7. ASSUME NEW y \in Chunks, NEW z \in Chunks, g.item[y].linked, g.item[z].linked,
               Before(g.lru, y, z)
        PROVE  g.item[z].time <= g.item[y].time
    <3>1. CASE y = x
      BY <2>4, <2>6, <2>7, <3>1
    <3>2. CASE y # x
      <4>1. Before(Without(h.lru, x), y, z)
        BY <2>2, <2>5, <2>7, <3>2, PushBefore
      <4>2. z # x
        BY <2>5, <4>1 DEF Before, In
      <4>3. Before(h.lru, y, z)
        BY <2>1, <4>1, WithoutBefore
      <4> QED
        BY <2>3, <2>7, <3>2, <4>2, <4>3 DEF Fresh, Ordered
    <3> QED
      BY <3>1, <3>2
  <2>8. Ordered(g)
    BY <2>6, <2>7 DEF Ordered
  <2>9. Current(g, t)
    BY <2>3, <2>4 DEF Fresh, Current
  <2> QED
    BY <1>2, <2>8, <2>9 DEF Fresh
<1> QED
  BY <1>1, <1>2 DEF DoItemUpdate

\* process_touch_command gives such an item another expiry time.
LEMMA ExptimeFresh ==
  ASSUME NEW h \in Heap, NEW x \in Chunks, NEW t, Fresh(h, t), NEW e \in Nat,
         h.item[x].val = t[h.item[x].key]
  PROVE  Fresh([h EXCEPT !.item[x].exptime = e], t)
<1> DEFINE g == [h EXCEPT !.item[x].exptime = e]
<1>1. h.item[x] \in Item /\ h.item \in [Chunks -> Item]
  BY DEF Heap
<1>2. g.lru = h.lru /\ g.item = [h.item EXCEPT ![x].exptime = e]
  BY DEF Heap
<1>3. /\ \A y \in Chunks : y # x => g.item[y] = h.item[y]
      /\ g.item[x] = [h.item[x] EXCEPT !.exptime = e]
  BY <1>1, <1>2
<1> HIDE DEF g
<1>4. /\ g.item[x].time = h.item[x].time /\ g.item[x].val = h.item[x].val
      /\ g.item[x].key = h.item[x].key /\ g.item[x].linked = h.item[x].linked
  BY <1>1, <1>3 DEF Item
<1>5. \A y \in Chunks : g.item[y].time = h.item[y].time /\ g.item[y].linked = h.item[y].linked
  BY <1>3, <1>4
<1>6. Ordered(g)
  BY <1>2, <1>5 DEF Fresh, Ordered
<1>7. Current(g, t)
  BY <1>3, <1>4 DEF Fresh, Current
<1> QED
  BY <1>6, <1>7 DEF Fresh, g

\* do_item_get of a fresh heap: nothing, and then the key may be given any value, or an
\* item with the value that is true.
LEMMA GetFresh ==
  ASSUME NEW h, NEW held, NEW k \in Keys, Sound(h, held), Countable(h, k),
         NEW t \in Truths, Fresh(h, t)
  PROVE  LET r == DoItemGet(h, k)
         IN  /\ Fresh(r.h, t) /\ r.h \in Heap
             /\ r.it = Nil => \A v : Fresh(r.h, [t EXCEPT ![k] = v])
             /\ r.it # Nil => r.h.item[r.it].val = t[k]
<1> DEFINE r == DoItemGet(h, k)
           f == r.h
           x == r.it
<1>1. /\ x = Nil => Sound(f, held) /\ f.assoc[k] = <<>>
      /\ x # Nil => x \in Chunks /\ f.item[x].linked /\ f.item[x].key = k
  BY GetSound
<1>2. /\ Thinned(h, f) /\ f \in Heap
      /\ x # Nil => ~Gone(f.item[x])
  BY GetThin DEF Sound
<1> HIDE DEF r
<1>3. Fresh(f, t)
  BY <1>2, ThinnedFresh
<1>4. ASSUME x = Nil, NEW v PROVE Fresh(f, [t EXCEPT ![k] = v])
  BY <1>1, <1>3, <1>4, NoneFresh
<1>5. x # Nil => f.item[x].val = t[k]
  BY <1>1, <1>2, <1>3 DEF Fresh, Current
<1> QED
  BY <1>2, <1>3, <1>4, <1>5 DEF r

\* What holds at every point of a command.
FreshOrDamaged(h, t) == Damaged(h) \/ (h \in Heap /\ Fresh(h, t))

\* A reference is dropped.
LEMMA DropFresh ==
  ASSUME NEW h, NEW t, FreshOrDamaged(h, t), NEW x \in Chunks \cup {Nil}
  PROVE  FreshOrDamaged(Drop(h, x), t)
<1>1. CASE Damaged(h)
  BY <1>1, DropDamaged DEF FreshOrDamaged
<1>2. CASE h \in Heap /\ Fresh(h, t)
  BY <1>2, DropThin, ThinnedFresh DEF FreshOrDamaged
<1> QED
  BY <1>1, <1>2 DEF FreshOrDamaged

\* The new version of an item, made with do_item_alloc (append and incr).
LEMMA RenewFresh ==
  ASSUME NEW h, NEW held, NEW old \in Chunks, Sound(h, Plus(held, old)),
         held \in [Chunks -> Nat], h.item[old].linked,
         NEW k \in Keys, h.item[old].key = k, NEW exptime \in Nat, NEW cur,
         NEW v \in Vals, current_time \in Nat, NEW t \in Truths, Fresh(h, t)
  PROVE  LET new == DoItemAlloc(h, k, exptime, cur)
             made == [new.h EXCEPT !.item[new.it].val = v]
             g == DoItemReplace(made, old, new.it)
         IN  /\ new.it = Nil => FreshOrDamaged(Drop(new.h, old), t)
             /\ new.it # Nil => /\ new.it \in Chunks
                                /\ FreshOrDamaged(g, [t EXCEPT ![k] = v])
<1> DEFINE new == DoItemAlloc(h, k, exptime, cur)
           it == new.it
           made == [new.h EXCEPT !.item[it].val = v]
           g == DoItemReplace(made, old, it)
           more == Plus(held, old)
<1>1. \A y \in Chunks : held[y] \in Nat
  OBVIOUS
<1>2. /\ more \in [Chunks -> Nat] /\ more[old] = held[old] + 1
      /\ \A y \in Chunks : y # old => more[y] = held[y]
  BY PlusFacts
<1>a. 3 < RefMod /\ h \in Heap
  BY ItemStoreAssumption DEF Sound
<1> HIDE DEF more
<1>3. \/ Damaged(new.h) /\ it \in Chunks
      \/ Allocated(h, new, more, k)
  BY <1>a, AllocSound DEF more
<1>b. new.h.damaged \/ Thinned(h, new.h)
  BY <1>a, AllocThin
<1> HIDE DEF new
<1>4. CASE Damaged(new.h) /\ it \in Chunks
  <2> HIDE DEF it
  <2>1. Damaged(made)
    <3>1. new.h \in Heap /\ new.h.damaged /\ it \in Chunks
      BY <1>4 DEF Damaged
    <3>2. new.h.item[it] \in Item
      BY <3>1 DEF Heap
    <3>3. [new.h.item[it] EXCEPT !.val = v] \in Item
      BY <3>2 DEF Item
    <3> QED
      BY <3>1, <3>3 DEF Damaged, Heap
  <2> HIDE DEF made
  <2>2. Damaged(g)
    BY <1>4, <2>1, ReplaceDamaged
  <2>3. it # Nil
    BY <1>4, NilFacts
  <2> QED
    BY <1>4, <2>2, <2>3 DEF new, it, made, FreshOrDamaged
<1>5. CASE Allocated(h, new, more, k) /\ it = Nil
  <2>1. new.h = h
    BY <1>5 DEF Allocated
  <2>2. FreshOrDamaged(Drop(h, old), t)
    BY <1>a, DropFresh DEF FreshOrDamaged
  <2> QED
    BY <1>5, <2>1, <2>2 DEF new
<1>6. CASE Allocated(h, new, more, k) /\ it # Nil
  <2> DEFINE most == Plus(more, it)
             m == [new.h.item[it] EXCEPT !.val = v]
             f == new.h
  <2>1. /\ it \in Chunks /\ more[it] = 0 /\ Sound(f, most)
        /\ ~f.item[it].linked /\ f.item[it].key = k
        /\ \A y \in Chunks : more[y] > 0 => f.item[y] = h.item[y]
        /\ f.damaged = h.damaged
    BY <1>6 DEF Allocated
  <2>2. it # old /\ held[it] = 0
    BY <1>1, <1>2, <2>1
  <2>3. most[it] = 1 /\ most[old] = held[old] + 1
    BY <1>2, <2>1, <2>2, PlusFacts
  <2> HIDE DEF it
  <2>4. /\ m \in Item /\ m.refcount = f.item[it].refcount
        /\ m.linked = f.item[it].linked /\ m.key = f.item[it].key
        /\ m.val = v /\ (f.item[it].linked => m.val = f.item[it].val)
    <3>1. f.item[it] \in Item
      BY <2>1 DEF Sound, Heap
    <3> QED
      BY <2>1, <3>1 DEF Item
  <2>5. made = [f EXCEPT !.item[it] = m]
    OBVIOUS
  <2>a. f.damaged \/ Thinned(h, f)
    BY <1>b
  <2> HIDE DEF made, f, m, most
  <2>6. LET e == [f EXCEPT !.item[it] = m]
        IN  Sound(e, most) /\ Only(f, e, it) /\ e.item[it] = m /\ e.lru = f.lru
    <3>1. LET e == [f EXCEPT !.item[it] = m]
          IN  Sound(e, most) /\ Only(f, e, it) /\ e.item[it] = m
      <4>1. it \in Chunks /\ Sound(f, most)
        BY <2>1
      <4>2. /\ m \in Item /\ m.refcount = f.item[it].refcount
            /\ m.linked = f.item[it].linked /\ m.key = f.item[it].key
        BY <2>4
      <4>3. f.item[it].linked => m.val = f.item[it].val
        BY <2>4
      <4> QED
        BY <4>1, <4>2, <4>3, RewriteSound, SMTT(40)
    <3>2. [f EXCEPT !.item[it] = m].lru = f.lru
      BY <2>1 DEF Sound, Heap
    <3> QED
      BY <3>1, <3>2
  <2>7. Sound(made, most) /\ Only(f, made, it) /\ made.item[it] = m /\ made.lru = f.lru
    BY <2>5, <2>6
  <2>8. made.item[old] = h.item[old]
    BY <1>1, <1>2, <2>1, <2>2, <2>7 DEF Only
  <2>9. most[it] = 1 /\ most[it] >= 1
    BY <1>1, <2>3
  <2>10. CASE f.damaged
    <3>1. Damaged(made)
      BY <2>7, <2>10 DEF Damaged, Only, Sound
    <3>2. Damaged(g)
      BY <2>1, <3>1, ReplaceDamaged
    <3> QED
      BY <1>6, <2>1, <3>2 DEF FreshOrDamaged, new, it, made
  <2>11. CASE Thinned(h, f)
    <3>1. Thinned(f, made)
      BY <2>1, <2>4, <2>7, ThinnedOnly DEF Only
    <3>2. Fresh(made, t)
      BY <2>11, <3>1, ThinnedFresh
    <3>3. ~made.item[it].linked /\ made.item[it].key = made.item[old].key
          /\ made.item[it].val = v /\ made.item[old].linked /\ made.item[it].key = k
      BY <2>1, <2>4, <2>7, <2>8
    <3>4. Fresh(g, [t EXCEPT ![made.item[it].key] = made.item[it].val])
      BY <2>1, <2>7, <2>9, <3>2, <3>3, ReplaceFresh
    <3>5. Fresh(g, [t EXCEPT ![k] = v])
      BY <3>3, <3>4
    <3>6. Sound(g, most)
      BY <2>1, <2>7, <2>9, <3>3, ReplaceSound
    <3>7. FreshOrDamaged(g, [t EXCEPT ![k] = v])
      BY <3>5, <3>6 DEF FreshOrDamaged, Sound
    <3> QED
      BY <1>6, <2>1, <3>7 DEF new, it, made
  <2> QED
    BY <2>a, <2>10, <2>11
<1> QED
  BY <1>3, <1>4, <1>5, <1>6

\* The truth about key k after a storage command with value v was answered a.
Answered(t, k, a, comm, v) ==
    CASE a = "STORED" /\ comm = "append" ->
             [t EXCEPT ![k] = IF @ = NoVal THEN @ ELSE Join(@, v)]
      [] a = "STORED" /\ comm # "append" -> [t EXCEPT ![k] = v]
      [] a = "NOT_FOUND" -> [t EXCEPT ![k] = NoVal]
      [] OTHER -> t

\* do_store_item answers what it did.
LEMMA StoreItemFresh ==
  ASSUME NEW h, NEW held, Sound(h, held), NEW x \in Chunks, held[x] = 1,
         ~h.item[x].linked, h.item[x].key \in Keys, Countable(h, h.item[x].key),
         h.item[x].val \in Vals, NEW comm, current_time \in Nat,
         NEW t \in Truths, Fresh(h, t)
  PROVE  LET r == DoStoreItem(h, x, comm)
         IN  FreshOrDamaged(r.h, Answered(t, h.item[x].key, r.a, comm, h.item[x].val))
<1> DEFINE m   == h.item[x]
           k   == m.key
           got == DoItemGet(h, k)
           f   == got.h
           old == got.it
           v   == Join(f.item[old].val, m.val)
           e   == f.item[old].exptime
           new == DoItemAlloc(f, k, e, k)
           made == [new.h EXCEPT !.item[new.it].val = v]
           stored == Drop(Store(f, old, x), old)
           r   == DoStoreItem(h, x, comm)
<1>1. held \in [Chunks -> Nat] /\ RefMod \in Nat
  BY ItemStoreAssumption DEF Sound
<1>2. /\ old = Nil => Sound(f, held) /\ f.assoc[k] = <<>>
      /\ old # Nil => /\ old \in Chunks /\ Sound(f, Plus(held, old))
                      /\ f.item[old].linked /\ f.item[old].key = k
      /\ \A y \in Chunks : ~h.item[y].linked => f.item[y] = h.item[y]
  <2>1. k \in Keys /\ Countable(h, k)
    OBVIOUS
  <2> HIDE DEF k
  <2>2. /\ old = Nil => Sound(f, held)
        /\ old = Nil => f.assoc[k] = <<>>
    BY <2>1, GetSound
  <2>3. /\ old # Nil => old \in Chunks
        /\ old # Nil => Sound(f, Plus(held, old))
    BY <2>1, GetSound
  <2>4. /\ old # Nil => f.item[old].linked
        /\ old # Nil => f.item[old].key = k
    BY <2>1, GetSound
  <2>5. \A y \in Chunks : ~h.item[y].linked => f.item[y] = h.item[y]
    BY <2>1, GetSound
  <2> HIDE DEF f, old
  <2> QED
    BY <2>2, <2>3, <2>4, <2>5
<1>3. /\ Fresh(f, t) /\ f \in Heap
      /\ old = Nil => \A w : Fresh(f, [t EXCEPT ![k] = w])
      /\ old # Nil => f.item[old].val = t[k]
  BY GetFresh
<1>4. \/ comm # "append" /\ r.h = stored /\ r.a = "STORED"
      \/ old = Nil /\ r.h = f /\ r.a \in {"NOT_STORED", "NOT_FOUND"}
      \/ old # Nil /\ r.h = Drop(DoItemUpdate(f, old), old) /\ r.a = "NOT_STORED"
      \/ old # Nil /\ r.h = Drop(f, old) /\ r.a = "EXISTS"
      \/ old # Nil /\ new.it = Nil /\ r.h = Drop(new.h, old) /\ r.a = "NOT_STORED"
      \/ old # Nil /\ new.it # Nil /\ comm = "append" /\ r.a = "STORED"
                   /\ r.h = Drop(Drop(DoItemReplace(made, old, new.it), old), new.it)
  BY DEF DoStoreItem
<1> HIDE DEF got, r
<1>5. f.item[x] = m
  BY <1>2
<1>6. CASE comm # "append" /\ r.h = stored /\ r.a = "STORED"
  <2> DEFINE t2 == [t EXCEPT ![k] = m.val]
             s == Store(f, old, x)
  <2>1. Answered(t, k, r.a, comm, m.val) = t2
    BY <1>6 DEF Answered
  <2>2. FreshOrDamaged(s, t2)
    <3>1. CASE old = Nil
      <4>1. s = DoItemLink(f, x)
        BY <3>1 DEF Store
      <4>2. Sound(f, held) /\ f.assoc[k] = <<>> /\ held[x] >= 1
        BY <1>2, <3>1
      <4> HIDE DEF f
      <4>3. Fresh(DoItemLink(f, x), [t EXCEPT ![f.item[x].key] = f.item[x].val])
        BY <1>3, <1>5, <4>2, LinkFresh
      <4>4. DoItemLink(f, x) \in Heap
        BY <1>3, LinkType
      <4> QED
        BY <1>5, <4>1, <4>3, <4>4 DEF FreshOrDamaged
    <3>2. CASE old # Nil
      <4> DEFINE more == Plus(held, old)
                 g == DoItemReplace(f, old, x)
      <4>1. s = g
        BY <3>2 DEF Store
      <4>2. more[old] = held[old] + 1 /\ old # x /\ more[x] = held[x]
        BY <1>1, <1>2, <1>5, <3>2, PlusFacts
      <4> HIDE DEF f, old, more
      <4>4. Sound(f, more) /\ old \in Chunks /\ f.item[old].linked /\ f.item[old].key = k
        BY <1>2, <3>2 DEF more
      <4>5. Sound(g, more)
        BY <1>5, <4>2, <4>4, ReplaceSound
      <4>6. Fresh(g, [t EXCEPT ![f.item[x].key] = f.item[x].val])
        BY <1>3, <1>5, <4>2, <4>4, ReplaceFresh
      <4> QED
        BY <1>5, <4>1, <4>5, <4>6 DEF FreshOrDamaged, Sound
    <3> QED
      BY <3>1, <3>2
  <2>3. old \in Chunks \cup {Nil}
    BY <1>2
  <2> HIDE DEF s, old, t2
  <2>4. FreshOrDamaged(Drop(s, old), t2)
    BY <2>2, <2>3, DropFresh
  <2> QED
    BY <1>6, <2>1, <2>4 DEF r, s, old
<1>7. CASE old = Nil /\ r.h = f /\ r.a \in {"NOT_STORED", "NOT_FOUND"}
  <2>1. \/ Answered(t, k, r.a, comm, m.val) = t
        \/ Answered(t, k, r.a, comm, m.val) = [t EXCEPT ![k] = NoVal]
    BY <1>7 DEF Answered
  <2>2. FreshOrDamaged(f, t) /\ FreshOrDamaged(f, [t EXCEPT ![k] = NoVal])
    BY <1>3, <1>7 DEF FreshOrDamaged
  <2> QED
    BY <1>7, <2>1, <2>2 DEF r
<1>8. ASSUME r.a \in {"NOT_STORED", "EXISTS"}
      PROVE  Answered(t, k, r.a, comm, m.val) = t
  BY <1>8 DEF Answered
<1>9. CASE old # Nil /\ r.h = Drop(DoItemUpdate(f, old), old) /\ r.a = "NOT_STORED"
  <2> DEFINE g == DoItemUpdate(f, old)
  <2> HIDE DEF f, old
  <2>1. Sound(g, Plus(held, old)) /\ old \in Chunks
    BY <1>2, <1>9, UpdateSound
  <2>2. Fresh(g, t)
    BY <1>2, <1>3, <1>9, UpdateFresh
  <2> HIDE DEF g
  <2>3. FreshOrDamaged(g, t)
    BY <2>1, <2>2 DEF FreshOrDamaged, Sound
  <2>4. FreshOrDamaged(Drop(g, old), t)
    BY <2>1, <2>3, DropFresh
  <2> QED
    BY <1>8, <1>9, <2>4 DEF r, g
<1>10. CASE old # Nil /\ r.h = Drop(f, old) /\ r.a = "EXISTS"
  <2>1. FreshOrDamaged(f, t) /\ old \in Chunks
    BY <1>2, <1>3, <1>10 DEF FreshOrDamaged
  <2> HIDE DEF f, old
  <2>2. FreshOrDamaged(Drop(f, old), t)
    BY <2>1, DropFresh
  <2> QED
    BY <1>8, <1>10, <2>2 DEF r
<1>11. ASSUME old # Nil
       PROVE  /\ new.it = Nil => FreshOrDamaged(Drop(new.h, old), t)
              /\ new.it # Nil => /\ new.it \in Chunks
                                 /\ FreshOrDamaged(DoItemReplace(made, old, new.it),
                                                   [t EXCEPT ![k] = v])
  <2>1. v \in Vals
    <3>1. f.item[old].val \in Vals
      BY <1>2, <1>11 DEF Sound, HashTable
    <3> QED
      BY <3>1, ItemStoreAssumption
  <2>2. e \in Nat
    BY <1>2, <1>11 DEF Sound, Heap, Item
  <2>3. k \in Keys
    OBVIOUS
  <2> HIDE DEF v, e, f, old, k
  <2>4. /\ old \in Chunks /\ Sound(f, Plus(held, old)) /\ f.item[old].linked
        /\ f.item[old].key = k /\ held \in [Chunks -> Nat]
    BY <1>1, <1>2, <1>11
  <2> QED
    BY <1>3, <2>1, <2>2, <2>3, <2>4, RenewFresh, ZenonT(60)
<1>12. CASE old # Nil /\ new.it = Nil /\ r.h = Drop(new.h, old) /\ r.a = "NOT_STORED"
  BY <1>8, <1>11, <1>12 DEF r
<1>13. CASE /\ old # Nil /\ new.it # Nil /\ comm = "append" /\ r.a = "STORED"
            /\ r.h = Drop(Drop(DoItemReplace(made, old, new.it), old), new.it)
  <2> DEFINE g == DoItemReplace(made, old, new.it)
             it == new.it
             t2 == [t EXCEPT ![k] = v]
  <2>1. it \in Chunks /\ old \in Chunks /\ FreshOrDamaged(g, t2)
    BY <1>2, <1>11, <1>13
  <2>2. Answered(t, k, r.a, comm, m.val) = t2
    <3>1. t[k] = f.item[old].val /\ f.item[old].val \in Vals
      BY <1>2, <1>3, <1>13 DEF Sound, HashTable
    <3>2. t[k] # NoVal /\ v = Join(t[k], m.val)
      BY <3>1, ItemStoreAssumption
    <3>3. Answered(t, k, r.a, comm, m.val)
             = [t EXCEPT ![k] = IF t[k] = NoVal THEN t[k] ELSE Join(t[k], m.val)]
      BY <1>13 DEF Answered
    <3> HIDE DEF v
    <3> QED
      BY <3>2, <3>3
  <2>3. r.h = Drop(Drop(g, old), it)
    BY <1>13
  <2> HIDE DEF g, it, t2, old
  <2>4. FreshOrDamaged(Drop(g, old), t2)
    BY <2>1, DropFresh
  <2>5. FreshOrDamaged(Drop(Drop(g, old), it), t2)
    BY <2>1, <2>4, DropFresh
  <2> QED
    BY <2>2, <2>3, <2>5 DEF r
<1> QED
  BY <1>4, <1>6, <1>7, <1>9, <1>10, <1>12, <1>13

\* The truth about key k after an incr was answered a.
Bumped(t, k, a) ==
    CASE a = "OK" -> [t EXCEPT ![k] = IF @ \in Numeric THEN Bump(@) ELSE NoVal]
      [] a = "NOT_FOUND" -> [t EXCEPT ![k] = NoVal]
      [] OTHER -> t

\* do_add_delta answers what it did.
LEMMA AddDeltaFresh ==
  ASSUME NEW h, NEW held, Sound(h, held), NEW k \in Keys, Countable(h, k),
         current_time \in Nat, NEW t \in Truths, Fresh(h, t)
  PROVE  LET r == DoAddDelta(h, k) IN FreshOrDamaged(r.h, Bumped(t, k, r.a))
<1> DEFINE got == DoItemGet(h, k)
           f   == got.h
           it  == got.it
           v   == f.item[it].val
           w   == Bump(v)
           e   == f.item[it].exptime
           new == DoItemAlloc(f, k, e, k)
           made == [new.h EXCEPT !.item[new.it].val = w]
           g   == DoItemReplace(made, it, new.it)
           c   == ReplaceBumped(made, it, new.it)
           r   == DoAddDelta(h, k)
<1>c. c = ReplaceBumped(made, it, new.it)
  OBVIOUS
<1> HIDE DEF c
<1>1. held \in [Chunks -> Nat] /\ RefMod \in Nat
  BY ItemStoreAssumption DEF Sound
<1>2. /\ it = Nil => Sound(f, held)
      /\ it # Nil => /\ it \in Chunks /\ Sound(f, Plus(held, it))
                     /\ f.item[it].linked /\ f.item[it].key = k
  BY GetSound
<1>3. /\ Fresh(f, t) /\ f \in Heap
      /\ it = Nil => \A u : Fresh(f, [t EXCEPT ![k] = u])
      /\ it # Nil => f.item[it].val = t[k]
  BY GetFresh
<1>4. it # Nil => ~AddDeltaInPlace(f.item[it])
  <2> SUFFICES ASSUME it # Nil PROVE f.item[it].refcount # 1
    BY DEF AddDeltaInPlace
  <2> DEFINE more == Plus(held, it)
  <2>1. more[it] = held[it] + 1 /\ held[it] \in Nat
    BY <1>1, <1>2, PlusFacts
  <2> HIDE DEF more
  <2>2. Counts(f, more) /\ f.item[it].linked /\ it \in Chunks
    BY <1>2 DEF Sound, more
  <2>3. f.item[it].refcount = 1 + more[it]
    BY <2>2 DEF Counts, One
  <2> QED
    BY <2>1, <2>3
<1>5. \/ it = Nil /\ r.h = f /\ r.a = "NOT_FOUND"
      \/ it # Nil /\ r.h = Drop(f, it) /\ r.a = "NON_NUMERIC"
      \/ it # Nil /\ v \in Numeric /\ new.it = Nil /\ r.h = Drop(new.h, it) /\ r.a = "EOM"
      \/ it # Nil /\ v \in Numeric /\ new.it # Nil /\ r.h = Drop(Drop(c, new.it), it)
                  /\ r.a = "OK"
  <2>1. CASE it = Nil
    BY <2>1 DEF DoAddDelta
  <2>2. CASE it # Nil /\ v \notin Numeric
    BY <2>2 DEF DoAddDelta
  <2>3. CASE it # Nil /\ v \in Numeric /\ new.it = Nil
    BY <1>4, <2>3 DEF DoAddDelta
  <2>4. CASE it # Nil /\ v \in Numeric /\ new.it # Nil
    <3>1. ~AddDeltaInPlace(f.item[it])
      BY <1>4, <2>4
    <3>2. r.h = Drop(Drop(c, new.it), it) /\ r.a = "OK"
      BY <3>1, <2>4, ZenonT(60) DEF DoAddDelta, c
    <3> QED
      BY <2>4, <3>2
  <2> QED
    BY <2>1, <2>2, <2>3, <2>4
<1> HIDE DEF got, r
<1>6. CASE it = Nil /\ r.h = f /\ r.a = "NOT_FOUND"
  <2>1. Bumped(t, k, r.a) = [t EXCEPT ![k] = NoVal]
    BY <1>6 DEF Bumped
  <2> QED
    BY <1>3, <1>6, <2>1 DEF FreshOrDamaged, r
<1>7. CASE it # Nil /\ r.h = Drop(f, it) /\ r.a = "NON_NUMERIC"
  <2>1. Bumped(t, k, r.a) = t
    BY <1>7 DEF Bumped
  <2>2. FreshOrDamaged(f, t) /\ it \in Chunks
    BY <1>2, <1>3, <1>7 DEF FreshOrDamaged
  <2> HIDE DEF f, it
  <2>3. FreshOrDamaged(Drop(f, it), t)
    BY <2>2, DropFresh
  <2> QED
    BY <1>7, <2>1, <2>3 DEF r
<1>8. ASSUME it # Nil, v \in Numeric
      PROVE  /\ new.it = Nil => FreshOrDamaged(Drop(new.h, it), t)
             /\ new.it # Nil => /\ new.it \in Chunks
                                /\ FreshOrDamaged(g, [t EXCEPT ![k] = w])
  <2>1. w \in Vals
    BY <1>8, ItemStoreAssumption
  <2>2. e \in Nat
    BY <1>2, <1>8 DEF Sound, Heap, Item
  <2>3. /\ it \in Chunks /\ Sound(f, Plus(held, it)) /\ f.item[it].linked
        /\ f.item[it].key = k /\ held \in [Chunks -> Nat]
    BY <1>1, <1>2, <1>8
  <2> HIDE DEF w, e, f, it
  <2> QED
    BY <1>3, <2>1, <2>2, <2>3, RenewFresh
<1>9. CASE it # Nil /\ v \in Numeric /\ new.it = Nil /\ r.h = Drop(new.h, it) /\ r.a = "EOM"
  <2>1. Bumped(t, k, r.a) = t
    BY <1>9 DEF Bumped
  <2> QED
    BY <1>8, <1>9, <2>1 DEF r
<1>10. CASE /\ it # Nil /\ v \in Numeric /\ new.it # Nil /\ r.h = Drop(Drop(c, new.it), it)
            /\ r.a = "OK"
  <2> DEFINE n == new.it
             t2 == [t EXCEPT ![k] = w]
  <2>1. n \in Chunks /\ it \in Chunks /\ FreshOrDamaged(g, t2)
    BY <1>2, <1>8, <1>10
  <2>2. Bumped(t, k, r.a) = t2
    <3>1. t[k] = v /\ v \in Numeric
      BY <1>3, <1>10
    <3>2. Bumped(t, k, r.a) = [t EXCEPT ![k] = IF t[k] \in Numeric THEN Bump(t[k]) ELSE NoVal]
      BY <1>10 DEF Bumped
    <3> HIDE DEF v
    <3> QED
      BY <3>1, <3>2
  <2>3. r.h = Drop(Drop(c, n), it)
    BY <1>10
  <2>4. c = [g EXCEPT !.item[it].cas = g.item[n].cas]
    BY <1>c DEF ReplaceBumped
  <2> HIDE DEF g, it, t2, n
  <2>5. g \in Heap
    BY <2>1 DEF FreshOrDamaged, Damaged
  <2>6. c \in Heap /\ c.damaged = g.damaged /\ Thinned(g, c)
    <3> DEFINE m == [g.item[it] EXCEPT !.cas = g.item[n].cas]
    <3>1. g.item[it] \in Item /\ g.item[n].cas \in Nat
      BY <2>1, <2>5 DEF Heap, Item
    <3>2. m \in Item /\ m.linked = g.item[it].linked /\ Alike(m, g.item[it])
      BY <3>1 DEF Item, Alike
    <3>3. c = [g EXCEPT !.item[it] = m]
      BY <2>4, <2>5 DEF Heap
    <3> HIDE DEF m
    <3>4. /\ c \in Heap /\ c.damaged = g.damaged /\ c.lru = g.lru /\ c.item[it] = m
          /\ \A y \in Chunks : y # it => c.item[y] = g.item[y]
      BY <2>1, <2>5, <3>2, <3>3 DEF Heap
    <3> QED
      BY <2>1, <3>2, <3>4, ThinnedOnly
  <2>7. FreshOrDamaged(c, t2)
    BY <2>1, <2>6, ThinnedFresh DEF FreshOrDamaged, Damaged
  <2>8. FreshOrDamaged(Drop(c, n), t2)
    BY <2>1, <2>7, DropFresh
  <2>9. FreshOrDamaged(Drop(Drop(c, n), it), t2)
    BY <2>1, <2>8, DropFresh
  <2> QED
    BY <2>2, <2>3, <2>9 DEF r
<1> QED
  BY <1>5, <1>6, <1>7, <1>9, <1>10

-----------------------------------------------------------------------------
(***************************************************************************)
(* Every action keeps the items fresh.                                     *)
(***************************************************************************)

\* Until a flush in force is undone: the LRU list is ordered, and what is linked is
\* true, or gone, or about to be unlinked by the flush that is going on, which relies
\* on the order.
FreshItems(h, t) ==
    /\ Ordered(h)
    /\ \A x \in Chunks : h.item[x].linked =>
          \/ h.item[x].val = t[h.item[x].key] \/ Gone(h.item[x])
          \/ (flushing /\ oldest_live # 0 /\ oldest_live <= h.item[x].time)
FreshInv == current_time >= 2 /\ (undone \/ heap.damaged \/ FreshItems(heap, truth))

\* What the invariants say when the worker serves a command.
LEMMA FreshServing ==
  ASSUME IInv, FreshInv, ~heap.damaged, ~flushing, ~undone
  PROVE  Fresh(heap, truth) /\ truth \in Truths
<1>1. truth \in Truths
  BY DEF IInv, TypeOK, Truths
<1>2. FreshItems(heap, truth) /\ ~flushing
  BY DEF FreshInv
<1>3. Fresh(heap, truth)
  BY <1>2 DEF FreshItems, Fresh, Current
<1> QED
  BY <1>1, <1>3

\* A command that leaves the clock and the flushes alone.
LEMMA FreshStep ==
  ASSUME IInv, FreshInv, ~heap.damaged, ~flushing,
         current_time' = current_time, oldest_live' = oldest_live,
         flushing' = flushing, undone' = undone,
         Fresh(heap, truth) /\ truth \in Truths /\ ~undone
             => FreshOrDamaged(heap', truth')
  PROVE  FreshInv'
<1>1. current_time' >= 2
  BY DEF FreshInv
<1>2. CASE undone
  BY <1>1, <1>2 DEF FreshInv
<1>3. CASE ~undone /\ Damaged(heap')
  BY <1>1, <1>3 DEF FreshInv, Damaged
<1>4. CASE ~undone /\ Fresh(heap', truth')
  <2>1. FreshItems(heap, truth)'
    BY <1>4 DEF Fresh, FreshItems, Ordered, Current, Gone, Flushed, Expired
  <2> QED
    BY <1>1, <2>1 DEF FreshInv
<1> QED
  BY <1>2, <1>3, <1>4, FreshServing DEF FreshOrDamaged

\* A command that takes the item of k and unlinks it.
LEMMA DeleteFresh ==
  ASSUME NEW h, NEW held, Sound(h, held), NEW k \in Keys, Countable(h, k),
         NEW t \in Truths, Fresh(h, t)
  PROVE  LET got == DoItemGet(h, k)
             g == IF got.it = Nil THEN got.h
                  ELSE DoItemRemove(DoItemUnlink(got.h, got.it), got.it)
         IN  FreshOrDamaged(g, [t EXCEPT ![k] = NoVal])
<1> DEFINE got == DoItemGet(h, k)
           f == got.h
           x == got.it
           u == DoItemUnlink(f, x)
           more == Plus(held, x)
           t2 == [t EXCEPT ![k] = NoVal]
<1>1. held \in [Chunks -> Nat] /\ RefMod \in Nat
  BY ItemStoreAssumption DEF Sound
<1>2. x # Nil => /\ x \in Chunks /\ Sound(f, more) /\ f.item[x].linked /\ f.item[x].key = k
  BY GetSound
<1>3. /\ Fresh(f, t) /\ f \in Heap
      /\ x = Nil => \A v : Fresh(f, [t EXCEPT ![k] = v])
  BY GetFresh
<1> HIDE DEF got
<1>4. CASE x = Nil
  BY <1>3, <1>4 DEF FreshOrDamaged, got
<1>5. CASE x # Nil
  <2> HIDE DEF f, x, more
  <2>2. Sound(u, more) /\ u.assoc[k] = <<>>
    BY <1>2, <1>5, UnlinkSound
  <2>3. Fresh(u, t)
    BY <1>2, <1>3, <1>5, UnlinkThin, ThinnedFresh
  <2>4. Fresh(u, t2)
    BY <2>2, <2>3, NoneFresh
  <2> HIDE DEF u, t2
  <2>5. FreshOrDamaged(Drop(u, x), t2)
    BY <1>2, <1>5, <2>2, <2>4, DropFresh DEF FreshOrDamaged, Sound
  <2>6. Drop(u, x) = DoItemRemove(u, x)
    BY <1>5 DEF Drop
  <2> QED
    BY <1>5, <2>5, <2>6 DEF u, f, x, got, t2
<1> QED
  BY <1>4, <1>5

\* process_delete_command.
LEMMA DeleteStaysFresh ==
  ASSUME IInv, FreshInv, NEW c \in Conns, NEW k \in Keys, DeleteCommand(c, k)
  PROVE  FreshInv'
<1>1. ~heap.damaged /\ ~flushing /\ Countable(heap, k)
  BY DEF DeleteCommand, Ready, Idle
<1>2. /\ current_time' = current_time /\ oldest_live' = oldest_live
      /\ flushing' = flushing /\ undone' = undone
      /\ truth' = [truth EXCEPT ![k] = NoVal]
  BY DEF DeleteCommand
<1>3. ASSUME Fresh(heap, truth), truth \in Truths
      PROVE  FreshOrDamaged(heap', truth')
  <2> DEFINE got == DoItemGet(heap, k)
             g == IF got.it = Nil THEN got.h
                  ELSE DoItemRemove(DoItemUnlink(got.h, got.it), got.it)
  <2>1. heap' = g
    BY DEF DeleteCommand
  <2>2. Sound(heap, Held(ref))
    BY <1>1, Serving
  <2>3. FreshOrDamaged(g, [truth EXCEPT ![k] = NoVal])
    BY <1>1, <1>3, <2>2, DeleteFresh
  <2> HIDE DEF g
  <2> QED
    BY <1>2, <2>1, <2>3
<1> QED
  BY <1>1, <1>2, <1>3, FreshStep

\* process_arithmetic_command.
LEMMA ArithmeticStaysFresh ==
  ASSUME IInv, FreshInv, NEW c \in Conns, NEW k \in Keys, ArithmeticCommand(c, k)
  PROVE  FreshInv'
<1> DEFINE r == DoAddDelta(heap, k)
<1>1. ~heap.damaged /\ ~flushing /\ Countable(heap, k)
  BY DEF ArithmeticCommand, Ready, Idle
<1>2. /\ current_time' = current_time /\ oldest_live' = oldest_live
      /\ flushing' = flushing /\ undone' = undone
      /\ heap' = r.h /\ truth' = Bumped(truth, k, r.a)
  BY DEF ArithmeticCommand, Bumped
<1>3. ASSUME Fresh(heap, truth), truth \in Truths
      PROVE  FreshOrDamaged(heap', truth')
  BY <1>1, <1>2, <1>3, Serving, AddDeltaFresh
<1> QED
  BY <1>1, <1>2, <1>3, FreshStep

\* A step that leaves the items, the clock and the flushes alone.
LEMMA SameStaysFresh ==
  ASSUME FreshInv, UNCHANGED <<heap, current_time, oldest_live, flushing, truth, undone>>
  PROVE  FreshInv'
  BY DEF FreshInv, FreshItems, Ordered, Gone, Flushed, Expired

\* An entry of c->ilist is released.
LEMMA ReleaseStaysFresh ==
  ASSUME IInv, FreshInv, NEW c \in Conns, NEW i \in Entries, Release(c, i)
  PROVE  FreshInv'
<1> DEFINE x == ref[<<c, i>>]
<1>1. /\ ~heap.damaged /\ ~flushing /\ x # Nil /\ <<c, i>> \in Handles
      /\ current_time' = current_time /\ oldest_live' = oldest_live
      /\ flushing' = flushing /\ undone' = undone /\ truth' = truth
      /\ heap' = DoItemRemove(heap, x)
  BY HandleFacts DEF Release
<1>2. x \in Chunks /\ heap \in Heap
  BY <1>1 DEF IInv, TypeOK
<1> HIDE DEF x
<1>3. heap' = Drop(heap, x)
  BY <1>1 DEF Drop
<1>4. ASSUME Fresh(heap, truth) PROVE FreshOrDamaged(heap', truth')
  BY <1>1, <1>2, <1>3, <1>4, DropFresh DEF FreshOrDamaged
<1> QED
  BY <1>1, <1>4, FreshStep

\* conn_cleanup.
LEMMA CloseStaysFresh ==
  ASSUME IInv, FreshInv, NEW c \in Conns, Close(c)
  PROVE  FreshInv'
<1> DEFINE x == ref[<<c, 0>>]
<1>1. /\ ~heap.damaged /\ ~flushing /\ <<c, 0>> \in Handles
      /\ current_time' = current_time /\ oldest_live' = oldest_live
      /\ flushing' = flushing /\ undone' = undone /\ truth' = truth
      /\ heap' = Drop(heap, x)
  BY HandleFacts DEF Close, ConnCleanup, Idle
<1>2. x \in Chunks \cup {Nil} /\ heap \in Heap
  BY <1>1 DEF IInv, TypeOK
<1> HIDE DEF x
<1>3. ASSUME Fresh(heap, truth) PROVE FreshOrDamaged(heap', truth')
  BY <1>1, <1>2, <1>3, DropFresh DEF FreshOrDamaged
<1> QED
  BY <1>1, <1>3, FreshStep

\* A count wraps around: the heap is damaged.
LEMMA WrapAroundStaysFresh ==
  ASSUME IInv, FreshInv, NEW c \in Conns, NEW k \in Keys, WrapAround(c, k)
  PROVE  FreshInv'
<1>1. heap'.damaged
  <2>1. DOMAIN heap = DOMAIN Incr(heap, Head(heap.assoc[k]))
    BY DEF Incr
  <2>2. "damaged" \in DOMAIN heap
    BY DEF IInv, TypeOK, Heap
  <2> QED
    BY <2>1, <2>2 DEF WrapAround
<1>2. current_time' >= 2
  BY DEF WrapAround, FreshInv
<1> QED
  BY <1>1, <1>2 DEF FreshInv

\* process_get_command.
LEMMA GetStaysFresh ==
  ASSUME IInv, FreshInv, NEW c \in Conns, NEW k \in Keys, NEW i \in Entries,
         GetCommand(c, k, i)
  PROVE  FreshInv'
<1> DEFINE got == DoItemGet(heap, k)
           f == got.h
           x == got.it
           held == Held(ref)
<1>1. ~heap.damaged /\ ~flushing /\ Countable(heap, k)
  BY DEF GetCommand, Ready, Idle
<1>2. /\ current_time' = current_time /\ oldest_live' = oldest_live
      /\ flushing' = flushing /\ undone' = undone
      /\ x = Nil => heap' = f /\ truth' = [truth EXCEPT ![k] = NoVal]
      /\ x # Nil => heap' = DoItemUpdate(f, x) /\ truth' = truth
  BY DEF GetCommand
<1>3. ASSUME Fresh(heap, truth), truth \in Truths
      PROVE  FreshOrDamaged(heap', truth')
  <2>1. Sound(heap, held) /\ Countable(heap, k) /\ current_time \in Nat
    BY <1>1, Serving
  <2> HIDE DEF held
  <2>2. x # Nil => /\ x \in Chunks /\ Sound(f, Plus(held, x)) /\ f.item[x].linked
                   /\ f.item[x].key = k
    BY <2>1, GetSound
  <2>3. /\ Fresh(f, truth) /\ f \in Heap
        /\ x = Nil => \A v : Fresh(f, [truth EXCEPT ![k] = v])
        /\ x # Nil => f.item[x].val = truth[k]
    BY <1>3, <2>1, GetFresh
  <2> HIDE DEF f, x
  <2>4. CASE x = Nil
    BY <1>2, <2>3, <2>4 DEF FreshOrDamaged
  <2>5. CASE x # Nil
    <3>1. Fresh(DoItemUpdate(f, x), truth)
      BY <1>3, <2>1, <2>2, <2>3, <2>5, UpdateFresh
    <3>2. Sound(DoItemUpdate(f, x), Plus(held, x))
      BY <2>1, <2>2, <2>5, UpdateSound
    <3> QED
      BY <1>2, <2>5, <3>1, <3>2 DEF FreshOrDamaged, Sound
  <2> QED
    BY <2>4, <2>5
<1> QED
  BY <1>1, <1>2, <1>3, FreshStep

\* process_touch_command.
LEMMA TouchStaysFresh ==
  ASSUME IInv, FreshInv, NEW c \in Conns, NEW k \in Keys, NEW lifetime \in Lifetimes,
         TouchCommand(c, k, lifetime)
  PROVE  FreshInv'
<1> DEFINE got == DoItemGet(heap, k)
           f == got.h
           x == got.it
           e == Realtime(lifetime)
           g == [f EXCEPT !.item[x].exptime = e]
           held == Held(ref)
<1>1. ~heap.damaged /\ ~flushing /\ Countable(heap, k)
  BY DEF TouchCommand, Ready, Idle
<1>2. /\ current_time' = current_time /\ oldest_live' = oldest_live
      /\ flushing' = flushing /\ undone' = undone /\ truth' = truth
      /\ x = Nil => heap' = f
      /\ x # Nil => heap' = DoItemRemove(DoItemUpdate(g, x), x)
  BY DEF TouchCommand
<1>3. ASSUME Fresh(heap, truth), truth \in Truths
      PROVE  FreshOrDamaged(heap', truth')
  <2>1. Sound(heap, held) /\ Countable(heap, k) /\ current_time \in Nat
    BY <1>1, Serving
  <2>a. e \in Nat
    BY <2>1, ItemStoreAssumption DEF Realtime
  <2> HIDE DEF held, e
  <2>2. x # Nil => /\ x \in Chunks /\ Sound(f, Plus(held, x)) /\ f.item[x].linked
                   /\ f.item[x].key = k
    BY <2>1, GetSound
  <2>3. /\ Fresh(f, truth) /\ f \in Heap
        /\ x # Nil => f.item[x].val = truth[k]
    BY <1>3, <2>1, GetFresh
  <2> HIDE DEF f, x
  <2>4. CASE x = Nil
    BY <1>2, <2>3, <2>4 DEF FreshOrDamaged
  <2>5. CASE x # Nil
    <3>1. Fresh(g, truth)
      BY <2>2, <2>3, <2>5, <2>a, ExptimeFresh
    <3>2. /\ Sound(g, Plus(held, x)) /\ g.item[x].linked /\ g.item[x].key = k
          /\ g.item[x].val = truth[k]
      <4> DEFINE m == [f.item[x] EXCEPT !.exptime = e]
      <4>1. f.item[x] \in Item
        BY <2>2, <2>3, <2>5 DEF Heap
      <4>2. /\ m \in Item /\ m.refcount = f.item[x].refcount /\ m.linked = f.item[x].linked
            /\ m.key = f.item[x].key /\ m.val = f.item[x].val
        BY <4>1, <2>a DEF Item
      <4>3. g = [f EXCEPT !.item[x] = m]
        OBVIOUS
      <4> HIDE DEF m
      <4>4. LET d == [f EXCEPT !.item[x] = m]
            IN  Sound(d, Plus(held, x)) /\ d.item[x] = m
        BY <2>2, <2>5, <4>2, RewriteSound
      <4> QED
        BY <2>2, <2>3, <2>5, <4>2, <4>3, <4>4
    <3> HIDE DEF g
    <3>3. Fresh(DoItemUpdate(g, x), truth)
      BY <1>3, <2>1, <2>2, <2>5, <3>1, <3>2, UpdateFresh
    <3>4. Sound(DoItemUpdate(g, x), Plus(held, x))
      BY <2>1, <2>2, <2>5, <3>2, UpdateSound
    <3>5. FreshOrDamaged(Drop(DoItemUpdate(g, x), x), truth)
      BY <2>2, <2>5, <3>3, <3>4, DropFresh DEF FreshOrDamaged, Sound
    <3>6. Drop(DoItemUpdate(g, x), x) = DoItemRemove(DoItemUpdate(g, x), x)
      BY <2>5 DEF Drop
    <3> QED
      BY <1>2, <2>5, <3>5, <3>6
  <2> QED
    BY <2>4, <2>5
<1> QED
  BY <1>1, <1>2, <1>3, FreshStep

\* process_update_command: making room loses items, and so does a set that finds none.
LEMMA UpdateStaysFresh ==
  ASSUME IInv, FreshInv, NEW c \in Conns, NEW k \in Keys, NEW comm \in Comms,
         NEW lifetime \in Lifetimes, NEW cas \in Nat,
         UpdateCommand(c, k, comm, lifetime, cas)
  PROVE  FreshInv'
<1> DEFINE e == Realtime(lifetime)
           new == DoItemAlloc(heap, k, e, NoKey)
           it == new.it
           g == new.h
           held == Held(ref)
<1>1. ~heap.damaged /\ ~flushing
  BY DEF UpdateCommand, Ready, Idle
<1>2. /\ current_time' = current_time /\ oldest_live' = oldest_live
      /\ flushing' = flushing /\ undone' = undone
  BY DEF UpdateCommand
<1>3. Sound(heap, held) /\ current_time \in Nat /\ heap \in Heap
  BY <1>1, Serving
<1>4. e \in Nat
  BY <1>3, ItemStoreAssumption DEF Realtime
<1>5. 3 < RefMod
  BY ItemStoreAssumption
<1> HIDE DEF held
<1>6. /\ \/ Damaged(g) /\ it \in Chunks
         \/ Allocated(heap, new, held, k)
      /\ g.damaged \/ Thinned(heap, g)
  <2> HIDE DEF e
  <2> QED
    BY <1>3, <1>4, <1>5, AllocSound, AllocThin
<1>7. ASSUME Fresh(heap, truth), truth \in Truths
      PROVE  FreshOrDamaged(heap', truth')
  <2>1. CASE it # Nil
    <3> DEFINE m == [g.item[it] EXCEPT !.cas = cas]
               d == [g EXCEPT !.item[it] = m]
    <3>1. it \in Chunks /\ g \in Heap
      BY <1>6, <2>1 DEF Allocated, Damaged, Sound
    <3>2. truth' = truth /\ heap' = [g EXCEPT !.item[it].cas = cas]
      BY <2>1 DEF UpdateCommand
    <3> HIDE DEF new
    <3>3. heap' = d
      BY <3>1, <3>2 DEF Heap
    <3>4. g.item[it] \in Item
      BY <3>1 DEF Heap
    <3>5. m \in Item /\ m.linked = g.item[it].linked /\ Alike(m, g.item[it])
      BY <3>4 DEF Item, Alike
    <3> HIDE DEF m
    <3>6. /\ d \in Heap /\ d.damaged = g.damaged /\ d.lru = g.lru /\ d.item[it] = m
          /\ \A y \in Chunks : y # it => d.item[y] = g.item[y]
      BY <3>1, <3>5 DEF Heap
    <3> HIDE DEF d
    <3>a. d.item[it].linked => g.item[it].linked /\ Alike(d.item[it], g.item[it])
      BY <3>5, <3>6
    <3>7. Thinned(g, d)
      BY <3>1, <3>6, <3>a, ThinnedOnly
    <3>8. g.damaged \/ Fresh(d, truth)
      BY <1>6, <1>7, <3>7, ThinnedFresh
    <3> QED
      BY <3>2, <3>3, <3>6, <3>8 DEF FreshOrDamaged, Damaged
  <2>2. CASE it = Nil /\ comm # "set"
    <3>1. g = heap
      BY <1>6, <2>2, NilFacts DEF Allocated
    <3>2. heap' = g /\ truth' = truth
      BY <2>2 DEF UpdateCommand
    <3> QED
      BY <1>3, <1>7, <3>1, <3>2 DEF FreshOrDamaged
  <2>3. CASE it = Nil /\ comm = "set"
    <3> DEFINE got == DoItemGet(g, k)
               d == IF got.it = Nil THEN got.h
                    ELSE DoItemRemove(DoItemUnlink(got.h, got.it), got.it)
    <3>1. g = heap
      BY <1>6, <2>3, NilFacts DEF Allocated
    <3>2. heap' = d /\ truth' = [truth EXCEPT ![k] = NoVal] /\ Countable(g, k)
      BY <2>3 DEF UpdateCommand
    <3> HIDE DEF new
    <3>3. FreshOrDamaged(d, [truth EXCEPT ![k] = NoVal])
      BY <1>3, <1>7, <3>1, <3>2, DeleteFresh
    <3> HIDE DEF d
    <3> QED
      BY <3>2, <3>3
  <2> QED
    BY <2>1, <2>2, <2>3
<1> QED
  BY <1>1, <1>2, <1>7, FreshStep

\* complete_nread_ascii.
LEMMA CompleteStaysFresh ==
  ASSUME IInv, FreshInv, NEW c \in Conns, NEW v \in Vals, NEW good \in BOOLEAN,
         CompleteNread(c, v, good)
  PROVE  FreshInv'
<1> DEFINE a == <<c, 0>>
           x == ref[a]
           k == heap.item[x].key
           m == [heap.item[x] EXCEPT !.val = v]
           h == [heap EXCEPT !.item[x] = m]
           r == IF good THEN DoStoreItem(h, x, cmd[c]) ELSE [h |-> h, a |-> "CLIENT_ERROR"]
           held == Held(ref)
<1>1. /\ ~heap.damaged /\ ~flushing /\ a \in Handles /\ x # Nil
      /\ Sound(heap, held) /\ Uploads(heap, ref) /\ ref \in Refs
      /\ current_time \in Nat /\ heap \in Heap
      /\ x \in Chunks /\ held[x] = 1
  <2>1. ~heap.damaged /\ ~flushing /\ a \in Handles /\ x # Nil
    BY HandleFacts DEF CompleteNread, Idle
  <2>2. /\ Sound(heap, held) /\ Uploads(heap, ref) /\ ref \in Refs
        /\ current_time \in Nat /\ heap \in Heap /\ x \in Chunks
    BY <2>1, Serving
  <2>3. held[x] = 1
    BY <2>1, <2>2, UploadHeldOnce
  <2> QED
    BY <2>1, <2>2, <2>3
<1>2. ~heap.item[x].linked /\ k \in Keys
  BY <1>1 DEF Uploads
<1>3. /\ m \in Item /\ m.refcount = heap.item[x].refcount /\ m.key = k
      /\ m.linked = heap.item[x].linked /\ m.val = v
  <2>1. heap.item[x] \in Item
    BY <1>1 DEF Heap
  <2> QED
    BY <2>1 DEF Item
<1>4. /\ current_time' = current_time /\ oldest_live' = oldest_live
      /\ flushing' = flushing /\ undone' = undone
  BY DEF CompleteNread
<1>5. /\ heap' = DoItemRemove(r.h, x)
      /\ truth' = Answered(truth, k, r.a, cmd[c], v)
      /\ (good => Countable(h, k))
  <2>1. h = Uploaded(heap, x, v)
    BY <1>1 DEF Uploaded, Heap
  <2> QED
    BY <2>1 DEF CompleteNread, Answered
<1>6. Sound(h, held) /\ Only(heap, h, x) /\ h.item[x] = m /\ h.lru = heap.lru
  <2> HIDE DEF x, m, held
  <2>1. LET d == [heap EXCEPT !.item[x] = m]
        IN  Sound(d, held) /\ Only(heap, d, x) /\ d.item[x] = m
    BY <1>1, <1>2, <1>3, RewriteSound, SMTT(40)
  <2>2. h.lru = heap.lru
    BY <1>1 DEF Heap
  <2> QED
    BY <2>1, <2>2
<1> HIDE DEF m, held, h, x
<1>7. ASSUME Fresh(heap, truth), truth \in Truths
      PROVE  FreshOrDamaged(heap', truth')
  <2>1. Fresh(h, truth)
    <3>1. Thinned(heap, h)
      BY <1>1, <1>2, <1>3, <1>6, ThinnedOnly DEF Only
    <3> QED
      BY <1>7, <3>1, ThinnedFresh
  <2>2. FreshOrDamaged(r.h, Answered(truth, k, r.a, cmd[c], v))
    <3>1. CASE good
      <4>1. /\ ~h.item[x].linked /\ h.item[x].key = k /\ h.item[x].key \in Keys
            /\ h.item[x].val = v /\ h.item[x].val \in Vals
        BY <1>2, <1>3, <1>6
      <4> HIDE DEF k
      <4> DEFINE s == DoStoreItem(h, x, cmd[c])
      <4>2. FreshOrDamaged(s.h, Answered(truth, h.item[x].key, s.a, cmd[c], h.item[x].val))
        BY <1>1, <1>5, <1>6, <1>7, <2>1, <3>1, <4>1, StoreItemFresh
      <4>3. r = s
        BY <3>1
      <4> HIDE DEF r, s
      <4> QED
        BY <4>1, <4>2, <4>3
    <3>2. CASE ~good
      <4>1. r.h = h /\ r.a = "CLIENT_ERROR"
        BY <3>2
      <4>2. Answered(truth, k, r.a, cmd[c], v) = truth
        BY <4>1 DEF Answered
      <4> QED
        BY <1>6, <2>1, <4>1, <4>2 DEF FreshOrDamaged, Sound
    <3> QED
      BY <3>1, <3>2
  <2> HIDE DEF r, k
  <2>3. FreshOrDamaged(Drop(r.h, x), Answered(truth, k, r.a, cmd[c], v))
    BY <1>1, <2>2, DropFresh
  <2>4. Drop(r.h, x) = DoItemRemove(r.h, x)
    BY <1>1 DEF Drop
  <2> QED
    BY <1>5, <2>3, <2>4
<1> HIDE DEF r, k
<1> QED
  BY <1>1, <1>4, <1>7, FreshStep

\* flush_all: nothing is true any more, and what is linked is old enough to be gone, or
\* recent enough to be unlinked by do_item_flush_expired.
LEMMA FlushAllStaysFresh ==
  ASSUME IInv, FreshInv, NEW c \in Conns, NEW delay \in Delays, FlushAll(c, delay)
  PROVE  FreshInv'
<1>1. /\ heap' = heap /\ current_time' = current_time /\ flushing' = TRUE
      /\ oldest_live' = IF delay > 0 THEN Realtime(delay) - 1 ELSE current_time - 1
      /\ truth' = IF InForce(oldest_live') THEN [k \in Keys |-> NoVal] ELSE truth
      /\ undone' = (undone \/ (InForce(oldest_live) /\ ~InForce(oldest_live')))
      /\ ~heap.damaged /\ ~flushing
  BY DEF FlushAll, Ready, Idle
<1>2. /\ delay \in Nat /\ current_time \in Nat /\ oldest_live \in Nat /\ heap \in Heap
      /\ current_time >= 2
  BY ItemStoreAssumption DEF IInv, TypeOK, FreshInv
<1>3. oldest_live' \in Nat
  BY <1>2, FlushAllKeeps DEF IInv, TypeOK
<1>4. ASSUME ~undone', ~heap.damaged PROVE FreshItems(heap, truth)'
  <2>1. ~undone
    BY <1>1, <1>4
  <2>2. Fresh(heap, truth)
    BY <1>1, <2>1, FreshServing
  <2>3. Ordered(heap)'
    BY <1>1, <2>2 DEF Fresh, Ordered
  <2>4. ASSUME NEW x \in Chunks, heap.item[x].linked
        PROVE  \/ heap.item[x].val = truth'[heap.item[x].key]
               \/ Gone(heap.item[x])'
               \/ oldest_live' # 0 /\ oldest_live' <= heap.item[x].time
    <3> DEFINE n == heap.item[x]
    <3>1. n.time \in Nat
      <4>1. n \in Item
        BY <1>2 DEF Heap
      <4> QED
        BY <4>1 DEF Item
    <3>2. n.val = truth[n.key] \/ Gone(n)
      BY <2>2, <2>4 DEF Fresh, Current
    <3> HIDE DEF n
    <3>3. CASE InForce(oldest_live')
      <4>1. oldest_live' # 0 /\ oldest_live' <= current_time
        BY <3>3 DEF InForce
      <4>2. CASE n.time <= oldest_live'
        <5>1. Flushed(heap.item[x])'
          BY <1>1, <4>1, <4>2 DEF Flushed, n
        <5> QED
          BY <5>1 DEF Gone
      <4>3. CASE ~(n.time <= oldest_live')
        BY <1>3, <3>1, <4>1, <4>3 DEF n
      <4> QED
        BY <4>2, <4>3
    <3>4. CASE ~InForce(oldest_live') /\ n.val = truth[n.key]
      BY <1>1, <3>4 DEF n
    <3>5. CASE Expired(n)
      <4>1. Expired(heap.item[x])'
        BY <1>1, <3>5 DEF Expired, n
      <4> QED
        BY <4>1 DEF Gone
    <3>6. CASE ~InForce(oldest_live') /\ Flushed(n)
      <4>1. InForce(oldest_live)
        BY <3>6 DEF Flushed, InForce
      <4> QED
        BY <1>1, <1>4, <3>6, <4>1
    <3> QED
      BY <3>2, <3>3, <3>4, <3>5, <3>6 DEF Gone
  <2> QED
    BY <1>1, <2>3, <2>4 DEF FreshItems, Gone, Flushed, Expired
<1> QED
  BY <1>1, <1>2, <1>4 DEF FreshInv

\* do_item_flush_expired: it unlinks the head, or stops where all the rest is older.
LEMMA FlushExpiredStaysFresh ==
  ASSUME IInv, FreshInv, FlushExpired
  PROVE  FreshInv'
<1>1. /\ ~heap.damaged /\ flushing /\ flushing' = SweepsOn(heap)
      /\ heap' = IF SweepsOn(heap) THEN DoItemUnlink(heap, Head(heap.lru)) ELSE heap
      /\ current_time' = current_time /\ oldest_live' = oldest_live
      /\ truth' = truth /\ undone' = undone
  BY DEF FlushExpired
<1>2. current_time \in Nat /\ oldest_live \in Nat /\ heap \in Heap /\ current_time >= 2
  BY DEF IInv, TypeOK, FreshInv
<1>3. LruList(heap)
  BY <1>1, Serving DEF Sound
<1>4. ASSUME ~undone PROVE FreshItems(heap, truth)'
  <2>1. FreshItems(heap, truth)
    BY <1>1, <1>4 DEF FreshInv
  <2>2. CASE SweepsOn(heap)
    <3> DEFINE x == Head(heap.lru)
               g == DoItemUnlink(heap, x)
    <3>1. x \in Chunks
      <4>1. heap.lru \in Seq(Chunks) /\ heap.lru # <<>>
        BY <1>2, <2>2 DEF Heap, SweepsOn
      <4> QED
        BY <4>1
    <3>2. heap' = g /\ flushing'
      BY <1>1, <2>2
    <3> HIDE DEF x
    <3>3. Thinned(heap, g)
      BY <1>2, <3>1, UnlinkThin
    <3> HIDE DEF g
    <3>4. Ordered(g)
      BY <2>1, <3>3 DEF FreshItems, Thinned, Alike, Ordered
    <3>5. ASSUME NEW y \in Chunks, g.item[y].linked
          PROVE  \/ g.item[y].val = truth[g.item[y].key] \/ Gone(g.item[y])
                 \/ oldest_live # 0 /\ oldest_live <= g.item[y].time
      <4>1. heap.item[y].linked /\ Alike(g.item[y], heap.item[y])
        BY <3>3, <3>5 DEF Thinned
      <4> QED
        BY <2>1, <4>1 DEF FreshItems, Alike, Gone, Flushed, Expired
    <3>6. Ordered(heap)'
      BY <1>1, <3>2, <3>4 DEF Ordered
    <3> QED
      BY <1>1, <3>2, <3>5, <3>6 DEF FreshItems, Gone, Flushed, Expired
  <2>3. CASE ~SweepsOn(heap)
    <3>1. heap' = heap /\ ~flushing'
      BY <1>1, <2>3
    <3>2. ASSUME NEW y \in Chunks, heap.item[y].linked
          PROVE  ~(oldest_live # 0 /\ oldest_live <= heap.item[y].time)
      <4> SUFFICES ASSUME oldest_live # 0 PROVE ~(oldest_live <= heap.item[y].time)
        OBVIOUS
      <4> DEFINE x == Head(heap.lru)
                 s == heap.lru
      <4>1. In(s, y)
        BY <1>3, <3>2 DEF LruList
      <4>2. s \in Seq(Chunks) /\ s # <<>>
        BY <1>2, <4>1 DEF Heap, In
      <4>3. x \in Chunks /\ In(s, x)
        BY <4>2, TailFacts
      <4>4. ~(heap.item[x].time >= oldest_live) /\ heap.item[x].linked
        BY <1>3, <2>3, <4>2, <4>3 DEF SweepsOn, LruList
      <4>5. y = x \/ Before(s, x, y)
        <5>1. PICK j \in 1..Len(s) : s[j] = y
          BY <4>1, <4>2 DEF In
        <5>2. x = s[1] /\ 1 \in 1..Len(s) /\ DOMAIN s = 1..Len(s)
          BY <4>2
        <5> QED
          BY <5>1, <5>2 DEF Before
      <4>6. heap.item[y].time <= heap.item[x].time
        <5>1. heap.item[x] \in Item
          BY <1>2, <4>3 DEF Heap
        <5>2. heap.item[x].time \in Nat
          BY <5>1 DEF Item
        <5>3. CASE y = x
          BY <5>2, <5>3
        <5>4. CASE Before(s, x, y)
          BY <2>1, <3>2, <4>3, <4>4, <5>4 DEF FreshItems, Ordered
        <5> QED
          BY <4>5, <5>3, <5>4
      <4>7. heap.item[x].time \in Nat /\ heap.item[y].time \in Nat
        <5>1. heap.item[x] \in Item /\ heap.item[y] \in Item
          BY <1>2, <4>3 DEF Heap
        <5> QED
          BY <5>1 DEF Item
      <4> HIDE DEF x, s
      <4> QED
        BY <1>2, <4>4, <4>6, <4>7
    <3>3. Ordered(heap)'
      BY <1>1, <2>1, <3>1 DEF FreshItems, Ordered
    <3> QED
      BY <1>1, <2>1, <3>1, <3>2, <3>3 DEF FreshItems, Gone, Flushed, Expired
  <2> QED
    BY <2>2, <2>3
<1> QED
  BY <1>1, <1>2, <1>4 DEF FreshInv

\* clock_handler: what is gone stays gone.
LEMMA TickStaysFresh ==
  ASSUME IInv, FreshInv, Tick
  PROVE  FreshInv'
<1>1. /\ current_time' = current_time + 1
      /\ UNCHANGED <<heap, ref, cmd, oldest_live, flushing, truth, told, undone>>
  BY DEF Tick
<1>2. current_time \in Nat /\ oldest_live \in Nat /\ heap \in Heap /\ current_time >= 2
  BY DEF IInv, TypeOK, FreshInv
<1>3. \A x \in Chunks : heap.item[x].time \in Nat /\ heap.item[x].exptime \in Nat
  BY <1>2 DEF Heap, Item
<1>4. ASSUME FreshItems(heap, truth) PROVE FreshItems(heap, truth)'
  <2>1. Ordered(heap)'
    BY <1>1, <1>2, <1>3, <1>4 DEF FreshItems, Ordered
  <2>2. ASSUME NEW x \in Chunks, Gone(heap.item[x])
        PROVE  Gone(heap.item[x])'
    BY <1>1, <1>2, <1>3, <2>2 DEF Gone, Flushed, Expired
  <2> QED
    BY <1>1, <1>4, <2>1, <2>2 DEF FreshItems
<1> QED
  BY <1>1, <1>2, <1>4 DEF FreshInv

\* Nothing is linked at first.
LEMMA InitFresh == Init => FreshInv
<1> SUFFICES ASSUME Init PROVE FreshInv
  OBVIOUS
<1>1. \A x \in Chunks : ~heap.item[x].linked
  BY DEF Init, FreeItem
<1>2. current_time >= 2
  BY DEF Init
<1> QED
  BY <1>1, <1>2 DEF FreshInv, FreshItems, Ordered

\* Every step keeps the items fresh.
LEMMA NextFresh == IInv /\ FreshInv /\ [Next]_vars => FreshInv'
<1> SUFFICES ASSUME IInv, FreshInv, [Next]_vars PROVE FreshInv'
  OBVIOUS
<1>1. ASSUME NEW c \in Conns, NEW k \in Keys, NEW comm \in Comms, NEW t \in Lifetimes,
             NEW cas \in CASE comm = "cas" -> CasIds [] comm = "append" -> {0} \cup CasIds
                           [] OTHER -> {0},
             UpdateCommand(c, k, comm, t, cas)
      PROVE  FreshInv'
  <2>1. cas \in Nat
    BY ItemStoreAssumption
  <2> QED
    BY <1>1, <2>1, UpdateStaysFresh
<1>2. ASSUME NEW c \in Conns, NEW v \in Vals, NEW good \in BOOLEAN, CompleteNread(c, v, good)
      PROVE  FreshInv'
  BY <1>2, CompleteStaysFresh
<1>3. ASSUME NEW c \in Conns, NEW k \in Keys, NEW i \in Entries, GetCommand(c, k, i)
      PROVE  FreshInv'
  BY <1>3, GetStaysFresh
<1>4. ASSUME NEW c \in Conns, Sent(c) PROVE FreshInv'
  BY <1>4, SameStaysFresh DEF Sent
<1>a. ASSUME NEW c \in Conns, NEW i \in Entries, Release(c, i) PROVE FreshInv'
  BY <1>a, ReleaseStaysFresh
<1>b. ASSUME NEW c \in Conns, NEW k \in Keys, WrapAround(c, k) PROVE FreshInv'
  BY <1>b, WrapAroundStaysFresh
<1>5. ASSUME NEW c \in Conns, Close(c) PROVE FreshInv'
  BY <1>5, CloseStaysFresh
<1>6. ASSUME NEW c \in Conns, NEW k \in Keys, DeleteCommand(c, k)
      PROVE  FreshInv'
  BY <1>6, DeleteStaysFresh
<1>7. ASSUME NEW c \in Conns, NEW k \in Keys, NEW t \in Lifetimes, TouchCommand(c, k, t)
      PROVE  FreshInv'
  BY <1>7, TouchStaysFresh
<1>8. ASSUME NEW c \in Conns, NEW k \in Keys, ArithmeticCommand(c, k)
      PROVE  FreshInv'
  BY <1>8, ArithmeticStaysFresh
<1>9. ASSUME NEW c \in Conns, NEW d \in Delays, FlushAll(c, d) PROVE FreshInv'
  BY <1>9, FlushAllStaysFresh
<1>10. CASE FlushExpired
  BY <1>10, FlushExpiredStaysFresh
<1>11. CASE Tick
  BY <1>11, TickStaysFresh
<1>12. CASE UNCHANGED vars
  BY <1>12, SameStaysFresh DEF vars
<1> QED
  BY <1>1, <1>2, <1>3, <1>4, <1>5, <1>6, <1>7, <1>8, <1>9, <1>10, <1>11, <1>12, <1>a, <1>b
     DEF Next

\* A get (do_item_get) returns what the last command about the key left, or nothing, in
\* every behaviour, until a flush in force is replaced by one that is not, tail repair
\* strikes or a count wraps around.
THEOREM NeverStaleAlways == Spec => []NeverStaleUnlessUndone
<1>1. ASSUME IInv, FreshInv PROVE NeverStaleUnlessUndone
  <2> SUFFICES ASSUME ~undone, ~heap.damaged, ~flushing, NEW k \in Keys
               PROVE  Visible(k) \in {NoVal, truth[k]}
    BY DEF NeverStaleUnlessUndone, NeverStale
  <2>1. HashTable(heap)
    BY <1>1, Serving DEF Sound
  <2>2. FreshItems(heap, truth)
    BY <1>1 DEF FreshInv
  <2>3. CASE heap.assoc[k] = <<>>
    BY <2>3 DEF Visible
  <2>4. CASE heap.assoc[k] # <<>>
    <3>1. PICK x \in Chunks : heap.assoc[k] = <<x>> /\ heap.item[x].linked /\ heap.item[x].key = k
      BY <2>1, <2>4 DEF HashTable
    <3>2. Head(heap.assoc[k]) = x
      BY <3>1
    <3>3. heap.item[x].val = truth[k] \/ Gone(heap.item[x])
      BY <2>2, <3>1 DEF FreshItems
    <3> QED
      BY <2>4, <3>2, <3>3 DEF Visible, Gone
  <2> QED
    BY <2>3, <2>4
<1> QED
  BY <1>1, InitInv, NextInv, InitFresh, NextFresh, PTL DEF Spec
=============================================================================
