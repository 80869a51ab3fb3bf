--------------------------- MODULE WorkerThreads ---------------------------
(***************************************************************************)
(* The threads of a node and what they share: the main thread accepts      *)
(* connections and hands them to the workers (thread.c, memcached.c), the  *)
(* workers look up, link and unlink items under item locks (thread.c,      *)
(* assoc.c), the maintenance thread of assoc.c expands the hash table      *)
(* after it has switched every worker to one global item lock, and the     *)
(* slab rebalancer (slabs.c) must stand still meanwhile.                   *)
(*                                                                         *)
(* Locks are held by a thread or free.  An item lock stands for a key: the *)
(* lock table is not larger than the hash table, so keys that share a      *)
(* bucket share a lock, and two keys of the model have different buckets.  *)
(***************************************************************************)
EXTENDS Naturals, Sequences, SequencesExt, FiniteSets

CONSTANTS
    NumThreads,     \* settings.num_threads
    Keys,
    MaxConns,       \* bound: clients that connect, numbered as they do
    Maint,          \* the maintenance thread, as the holder of a lock
    Free,           \* holder of a free lock, owner of an unserved connection
    NoOp,
    HashValue,      \* [Keys -> Nat]
    InitialPower,   \* hashpower at start-up
    MaxExpansions,  \* bound: expansions of the table
    MaxOps,         \* bound: commands of all connections
    MaxFds          \* how many of them the process has descriptors for

ASSUME WorkerThreadsAssumption ==
    /\ NumThreads \in Nat \ {0} /\ MaxConns \in Nat
    /\ HashValue \in [Keys -> Nat]
    /\ InitialPower \in Nat /\ MaxExpansions \in Nat /\ MaxOps \in Nat
    /\ MaxFds \in Nat \ {0}

Workers == 0..(NumThreads - 1)
Conns == 1..MaxConns

\* A worker closes a connection, or is at a stage of a command on a key.
CloseOps == [do : {"close"}, conn : Conns]
KeyOps == [do : {"set", "delete"}, key : Keys, stage : {"locked", "looked", "changed"},
           found : BOOLEAN]

\* What the model puts where there is no thread and no command is none.
ASSUME NobodyAssumption ==
    /\ Maint \notin Workers /\ Free \notin Workers /\ Maint # Free
    /\ Free \notin {"maint", "rebalancer"}
    /\ NoOp \notin CloseOps \cup KeyOps

VARIABLES
    main,           \* where the main thread is: "loop", "notify", "emfile"
    listening,      \* the listening socket has its event
    allow_new_conns,
    timer,          \* maxconnsevent is pending
    last_thread,    \* where the last connection went
    conn,           \* of each client: state and the worker that serves it
    cq,             \* new_conn_queue of each worker
    pipe,           \* what has been written to a worker's notify pipe
    item_lock_type, \* of each worker
    op,             \* the command a worker is in the middle of
    ops,            \* commands begun
    item_locks,
    item_global_lock,
    cache_lock,
    init_count,     \* threads that have reported in
    table,          \* hashpower, expanding, expand_bucket, the keys of both tables
    started_expanding,
    maint,          \* where assoc_maintenance_thread() is
    rebalance,      \* slab_rebalance_thread(): "wait", "run"
    slabs_rebalance_lock,
    resumed_early   \* a resume unlocked what the rebalancer held (history)

acceptvars == <<main, listening, allow_new_conns, timer, last_thread>>
lockvars == <<item_locks, item_global_lock, cache_lock>>
expandvars == <<table, started_expanding, maint>>
slabvars == <<rebalance, slabs_rebalance_lock, resumed_early>>
vars == <<acceptvars, conn, cq, pipe, item_lock_type, op, ops, lockvars, init_count,
          expandvars, slabvars>>

InitialTable ==
    [hashpower |-> InitialPower, expanding |-> FALSE, expand_bucket |-> 0,
     old |-> {}, primary |-> {}]

\* thread_init() has seen every worker register, main() has started the
\* maintenance thread and the rebalancer.
Init ==
    /\ main = "loop"
    /\ listening = TRUE
    /\ allow_new_conns = TRUE
    /\ timer = FALSE
    /\ last_thread = NumThreads - 1      \* -1: the next one is thread 0
    /\ conn = [c \in Conns |-> [state |-> "new", owner |-> Free]]
    /\ cq = [w \in Workers |-> <<>>]
    /\ pipe = [w \in Workers |-> <<>>]
    /\ item_lock_type = [w \in Workers |-> "GRANULAR"]
    /\ op = [w \in Workers |-> NoOp]
    /\ ops = 0
    /\ item_locks = [k \in Keys |-> Free]
    /\ item_global_lock = Free
    /\ cache_lock = Free
    /\ init_count = NumThreads
    /\ table = InitialTable
    /\ started_expanding = FALSE
    /\ maint = "loop"
    /\ rebalance = "wait"
    /\ slabs_rebalance_lock = Free
    /\ resumed_early = FALSE

-----------------------------------------------------------------------------
(***************************************************************************)
(* The main thread: conn_listening of drive_machine().                     *)
(***************************************************************************)
Fds == Cardinality({c \in Conns : conn[c].state \in {"queued", "served"}})

CqPush(q, w, c) == [q EXCEPT ![w] = Append(@, c)]
CqPop(q, w) == [q EXCEPT ![w] = Tail(@)]

\* dispatch_conn_new(), in turns: the queue first, then the byte that makes
\* the worker look at it.
Dispatch(c) ==
    /\ last_thread' = (last_thread + 1) % NumThreads
    /\ cq' = CqPush(cq, last_thread', c)
    /\ main' = "notify"

AcceptConn(c) ==
    /\ main = "loop" /\ listening
    /\ conn[c].state = "new" /\ \A d \in 1..(c - 1) : conn[d].state # "new"
    /\ Fds < MaxFds
    /\ conn' = [conn EXCEPT ![c].state = "queued"]
    /\ Dispatch(c)
    /\ UNCHANGED <<listening, allow_new_conns, timer, pipe, item_lock_type, op, ops, lockvars,
                   init_count, expandvars, slabvars>>

Notify ==
    /\ main = "notify"
    /\ pipe' = [pipe EXCEPT ![last_thread] = Append(@, "c")]
    /\ main' = "loop"
    /\ UNCHANGED <<listening, allow_new_conns, timer, last_thread, conn, cq, item_lock_type, op,
                   ops, lockvars, init_count, expandvars, slabvars>>

\* accept() fails with EMFILE; conn_lock is taken after that.
AcceptEmfile ==
    /\ main = "loop" /\ listening
    /\ Fds = MaxFds /\ \E c \in Conns : conn[c].state = "new"
    /\ main' = "emfile"
    /\ UNCHANGED <<listening, allow_new_conns, timer, last_thread, conn, cq, pipe,
                   item_lock_type, op, ops, lockvars, init_count, expandvars, slabvars>>

\* do_accept_new_conns(); to stop is also to start the timer that ends it.
AcceptNewConns(do_accept) ==
    /\ listening' = do_accept
    /\ allow_new_conns' = (do_accept /\ allow_new_conns)
    /\ timer' = ~do_accept

StopAccepting ==
    /\ main = "emfile"
    /\ main' = "loop"
    /\ AcceptNewConns(FALSE)
    /\ UNCHANGED <<last_thread, conn, cq, pipe, item_lock_type, op, ops, lockvars, init_count,
                   expandvars, slabvars>>

\* maxconns_handler(), every 10 ms; while nothing may be accepted it only
\* sets its timer again.
MaxconnsHandler ==
    /\ main = "loop" /\ timer
    /\ allow_new_conns
    /\ AcceptNewConns(TRUE)
    /\ UNCHANGED <<main, last_thread, conn, cq, pipe, item_lock_type, op, ops,
                   lockvars, init_count, expandvars, slabvars>>

-----------------------------------------------------------------------------
(***************************************************************************)
(* Workers.                                                                *)
(***************************************************************************)
\* thread_libevent_process(): one byte.
PopConn(w) ==
    /\ Head(pipe[w]) = "c"
    /\ cq[w] # <<>>
    /\ conn' = [conn EXCEPT ![Head(cq[w])] = [state |-> "served", owner |-> w]]
    /\ cq' = CqPop(cq, w)
    /\ UNCHANGED <<item_lock_type, init_count>>

RegisterThreadInitialized == init_count' = init_count + 1
ThreadsRegistered == init_count = NumThreads

\* Mutant: only the way back is reported.
FlipLockType_Silent(w) ==
    /\ Head(pipe[w]) # "c"
    /\ item_lock_type' = [item_lock_type EXCEPT
                              ![w] = IF Head(pipe[w]) = "l" THEN "GRANULAR" ELSE "GLOBAL"]
    /\ init_count' = IF Head(pipe[w]) = "l" THEN init_count + 1 ELSE init_count
    /\ UNCHANGED <<conn, cq>>

FlipLockType(w) ==
    /\ Head(pipe[w]) # "c"
    /\ item_lock_type' = [item_lock_type EXCEPT
                              ![w] = IF Head(pipe[w]) = "l" THEN "GRANULAR" ELSE "GLOBAL"]
    /\ RegisterThreadInitialized
    /\ UNCHANGED <<conn, cq>>

LibeventProcess(w) ==
    /\ op[w] = NoOp
    /\ pipe[w] # <<>>
    /\ PopConn(w) \/ FlipLockType(w)
    /\ pipe' = [pipe EXCEPT ![w] = Tail(@)]
    /\ UNCHANGED <<acceptvars, op, ops, lockvars, expandvars, slabvars>>

\* conn_close() closes the socket, then says that connections may be accepted.
CloseSocket(w, c) ==
    /\ op[w] = NoOp
    /\ conn[c] = [state |-> "served", owner |-> w]
    /\ conn' = [conn EXCEPT ![c].state = "closing"]
    /\ op' = [op EXCEPT ![w] = [do |-> "close", conn |-> c]]
    /\ UNCHANGED <<acceptvars, cq, pipe, item_lock_type, ops, lockvars, init_count, expandvars,
                   slabvars>>

\* Mutant: the socket is closed and nobody is told.
CloseAllow_Silent(w) ==
    /\ op[w] # NoOp /\ op[w].do = "close"
    /\ conn' = [conn EXCEPT ![op[w].conn] = [state |-> "closed", owner |-> Free]]
    /\ op' = [op EXCEPT ![w] = NoOp]
    /\ UNCHANGED <<acceptvars, cq, pipe, item_lock_type, ops, lockvars, init_count, expandvars,
                   slabvars>>

CloseAllow(w) ==
    /\ op[w] # NoOp /\ op[w].do = "close"
    /\ conn' = [conn EXCEPT ![op[w].conn] = [state |-> "closed", owner |-> Free]]
    /\ allow_new_conns' = TRUE
    /\ op' = [op EXCEPT ![w] = NoOp]
    /\ UNCHANGED <<main, listening, timer, last_thread, cq, pipe, item_lock_type, ops, lockvars,
                   init_count, expandvars, slabvars>>

\* item_lock() and item_unlock() go by the worker's lock type.
\* Mutant: a no-op under the global lock, which the comment on item_trylock()
\* weighs and rejects.
ItemLock_NoOp(w, k) ==
    /\ item_lock_type[w] = "GRANULAR" => item_locks[k] = Free
    /\ item_locks' = IF item_lock_type[w] = "GRANULAR" THEN [item_locks EXCEPT ![k] = w]
                     ELSE item_locks
    /\ UNCHANGED item_global_lock

ItemLock(w, k) ==
    IF item_lock_type[w] = "GRANULAR"
    THEN /\ item_locks[k] = Free
         /\ item_locks' = [item_locks EXCEPT ![k] = w]
         /\ UNCHANGED item_global_lock
    ELSE /\ item_global_lock = Free
         /\ item_global_lock' = w
         /\ UNCHANGED item_locks

\* Mutant: the key's lock, whatever the worker took.
ItemUnlock_Granular(w, k) ==
    item_locks' = [item_locks EXCEPT ![k] = Free] /\ UNCHANGED item_global_lock

ItemUnlock(w, k) ==
    IF item_lock_type[w] = "GRANULAR"
    THEN item_locks' = [item_locks EXCEPT ![k] = Free] /\ UNCHANGED item_global_lock
    ELSE item_global_lock' = Free /\ UNCHANGED item_locks

\* item_get(), item_link(), item_unlink() and the rest of thread.c, for one
\* of the worker's connections, which are more than the ones in conn.  A get is
\* a set that finds its key.
Begin(w, do, k) ==
    /\ op[w] = NoOp /\ ops < MaxOps
    /\ ItemLock(w, k)
    /\ op' = [op EXCEPT ![w] = [do |-> do, key |-> k, stage |-> "locked", found |-> FALSE]]
    /\ ops' = ops + 1
    /\ UNCHANGED <<acceptvars, conn, cq, pipe, item_lock_type, cache_lock, init_count,
                   expandvars, slabvars>>

\* The bucket of a key in a table of 2^n buckets.
Bucket(k, n) == HashValue[k] % 2^n

\* assoc_find() and _hashitem_before() look into one table only.
InOld(t, k) == t.expanding /\ Bucket(k, t.hashpower - 1) >= t.expand_bucket
Where(t, k) == IF InOld(t, k) THEN t.old ELSE t.primary

\* assoc_find(), without cache_lock.  While primary_hashtable is NULL a lookup
\* ends the process: no step of the model.
Look(w) ==
    /\ op[w] # NoOp /\ op[w].do # "close" /\ op[w].stage = "locked"
    /\ maint # "failed"
    /\ op' = [op EXCEPT ![w].stage = "looked",
                        ![w].found = op[w].key \in Where(table, op[w].key)]
    /\ UNCHANGED <<acceptvars, conn, cq, pipe, item_lock_type, ops, lockvars, init_count,
                   expandvars, slabvars>>

AssocInsert(t, k) ==
    IF InOld(t, k) THEN [t EXCEPT !.old = @ \cup {k}] ELSE [t EXCEPT !.primary = @ \cup {k}]

AssocDelete(t, k) ==
    IF InOld(t, k) THEN [t EXCEPT !.old = @ \ {k}] ELSE [t EXCEPT !.primary = @ \ {k}]

MayExpand == table.hashpower < InitialPower + MaxExpansions

\* assoc_start_expand(): the thread hears it only if it waits.
StartExpand ==
    /\ ~table.expanding /\ ~started_expanding
    /\ MayExpand
    /\ started_expanding' = TRUE
    /\ maint' = IF maint = "wait" THEN "woken" ELSE maint

\* Under cache_lock.  Whether the table is full is left open: other keys
\* count too.
Change(w) ==
    /\ op[w] # NoOp /\ op[w].do # "close" /\ op[w].stage = "looked"
    /\ cache_lock = Free
    /\ \/ /\ op[w].do = "set" /\ ~op[w].found
          /\ table' = AssocInsert(table, op[w].key)
          /\ StartExpand \/ UNCHANGED <<started_expanding, maint>>
       \/ /\ op[w].do = "delete" /\ op[w].found
          /\ table' = AssocDelete(table, op[w].key)
          /\ UNCHANGED <<started_expanding, maint>>
    /\ op' = [op EXCEPT ![w].stage = "changed"]
    /\ UNCHANGED <<acceptvars, conn, cq, pipe, item_lock_type, ops, lockvars, init_count,
                   slabvars>>

Done(o) ==
    \/ o.stage = "changed"
    \/ o.stage = "looked" /\ o.found = (o.do = "set")

Finish(w) ==
    /\ op[w] # NoOp /\ op[w].do # "close"
    /\ Done(op[w])
    /\ ItemUnlock(w, op[w].key)
    /\ op' = [op EXCEPT ![w] = NoOp]
    /\ UNCHANGED <<acceptvars, conn, cq, pipe, item_lock_type, ops, cache_lock, init_count,
                   expandvars, slabvars>>

-----------------------------------------------------------------------------
(***************************************************************************)
(* The maintenance thread: assoc_maintenance_thread().                     *)
(***************************************************************************)
\* Mutant: the first worker is counted as if it had changed already.
SwitchItemLockType_Short(byte) ==
    /\ init_count' = 1
    /\ pipe' = [w \in Workers |-> IF w = 0 THEN pipe[w] ELSE Append(pipe[w], byte)]

\* switch_item_lock_type(): every worker is told, none is waited for yet.
SwitchItemLockType(byte) ==
    /\ init_count' = 0
    /\ pipe' = [w \in Workers |-> Append(pipe[w], byte)]

ItemLockGlobal(t) == item_global_lock = Free /\ item_global_lock' = t
ItemUnlockGlobal == item_global_lock' = Free

LockGlobal ==
    /\ maint = "loop"
    /\ ItemLockGlobal(Maint)
    /\ maint' = "global"
    /\ UNCHANGED <<acceptvars, conn, cq, pipe, item_lock_type, op, ops, item_locks, cache_lock,
                   init_count, table, started_expanding, slabvars>>

LockCache ==
    /\ maint = "global" /\ cache_lock = Free
    /\ cache_lock' = Maint
    /\ maint' = "locked"
    /\ UNCHANGED <<acceptvars, conn, cq, pipe, item_lock_type, op, ops, item_locks,
                   item_global_lock, init_count, table, started_expanding, slabvars>>

\* Mutant: the last bucket stays behind.
MoveBucket_Short(t) ==
    LET moved == {k \in t.old : Bucket(k, t.hashpower - 1) = t.expand_bucket}
    IN  [t EXCEPT !.old = @ \ moved, !.primary = @ \cup moved, !.expand_bucket = @ + 1,
                  !.expanding = t.expand_bucket + 2 # 2^(t.hashpower - 1)]

\* The keys of the next bucket go over; after the last the old table is freed.
MoveBucket(t) ==
    LET moved == {k \in t.old : Bucket(k, t.hashpower - 1) = t.expand_bucket}
    IN  [t EXCEPT !.old = @ \ moved, !.primary = @ \cup moved, !.expand_bucket = @ + 1,
                  !.expanding = t.expand_bucket + 1 # 2^(t.hashpower - 1)]

MoveAndUnlock ==
    /\ maint = "locked"
    /\ table' = IF table.expanding THEN MoveBucket(table) ELSE table
    /\ cache_lock' = Free
    /\ ItemUnlockGlobal
    /\ maint' = "check"
    /\ UNCHANGED <<acceptvars, conn, cq, pipe, item_lock_type, op, ops, item_locks, init_count,
                   started_expanding, slabvars>>

Check ==
    /\ maint = "check"
    /\ IF table.expanding
       THEN maint' = "loop" /\ UNCHANGED <<pipe, init_count>>
       ELSE maint' = "granular" /\ SwitchItemLockType("l")
    /\ UNCHANGED <<acceptvars, conn, cq, item_lock_type, op, ops, lockvars, table,
                   started_expanding, slabvars>>

\* slabs_rebalancer_resume(), also when it has not paused it: on the first
\* round it unlocks a mutex it does not hold.
Resume ==
    /\ maint = "granular" /\ ThreadsRegistered
    /\ slabs_rebalance_lock' = Free
    /\ resumed_early' = (resumed_early \/ slabs_rebalance_lock = "rebalancer")
    /\ maint' = "resumed"
    /\ UNCHANGED <<acceptvars, conn, cq, pipe, item_lock_type, op, ops, lockvars, init_count,
                   table, started_expanding, rebalance>>

\* Under cache_lock, which pthread_cond_wait() gives up.
Sleep ==
    /\ maint = "resumed" /\ cache_lock = Free
    /\ started_expanding' = FALSE
    /\ maint' = "wait"
    /\ UNCHANGED <<acceptvars, conn, cq, pipe, item_lock_type, op, ops, lockvars, init_count,
                   table, slabvars>>

\* There is no loop around pthread_cond_wait(): a spurious wakeup expands.
WakeSpuriously ==
    /\ maint = "wait" /\ MayExpand
    /\ maint' = "woken"
    /\ UNCHANGED <<acceptvars, conn, cq, pipe, item_lock_type, op, ops, lockvars, init_count,
                   table, started_expanding, slabvars>>

\* Mutant: the lock is tried, not waited for.
Pause_Try ==
    /\ maint = "woken" /\ cache_lock = Free
    /\ slabs_rebalance_lock' = IF slabs_rebalance_lock = Free THEN "maint"
                               ELSE slabs_rebalance_lock
    /\ maint' = "paused"
    /\ UNCHANGED <<acceptvars, conn, cq, pipe, item_lock_type, op, ops, lockvars, init_count,
                   table, started_expanding, rebalance, resumed_early>>

Pause ==
    /\ maint = "woken" /\ cache_lock = Free
    /\ slabs_rebalance_lock = Free
    /\ slabs_rebalance_lock' = "maint"
    /\ maint' = "paused"
    /\ UNCHANGED <<acceptvars, conn, cq, pipe, item_lock_type, op, ops, lockvars, init_count,
                   table, started_expanding, rebalance, resumed_early>>

SwitchToGlobal ==
    /\ maint = "paused"
    /\ SwitchItemLockType("g")
    /\ maint' = "globalled"
    /\ UNCHANGED <<acceptvars, conn, cq, item_lock_type, op, ops, lockvars, table,
                   started_expanding, slabvars>>

\* assoc_expand() holds cache_lock only.  When calloc() fails primary_hashtable
\* is NULL until it is set back.
BeginExpand ==
    /\ maint = "globalled" /\ ThreadsRegistered
    /\ cache_lock = Free
    /\ cache_lock' = Maint
    /\ table' = [table EXCEPT !.old = table.primary, !.primary = {}]
    /\ maint' \in {"swapped", "failed"}
    /\ UNCHANGED <<acceptvars, conn, cq, pipe, item_lock_type, op, ops, item_locks,
                   item_global_lock, init_count, started_expanding, slabvars>>

\* The assignments that follow, one by one: other threads read between them.
\* old_hashtable is read only while expanding.
Expand ==
    /\ \/ /\ maint = "swapped"
          /\ table' = [table EXCEPT !.hashpower = @ + 1]
          /\ maint' = "grown"
          /\ UNCHANGED cache_lock
       \/ /\ maint = "grown"
          /\ table' = [table EXCEPT !.expanding = TRUE]
          /\ maint' = "flagged"
          /\ UNCHANGED cache_lock
       \/ /\ maint = "flagged"
          /\ table' = [table EXCEPT !.expand_bucket = 0]
          /\ maint' = "loop"
          /\ cache_lock' = Free
       \/ /\ maint = "failed"
          /\ table' = [table EXCEPT !.primary = table.old, !.old = {}]
          /\ maint' = "loop"
          /\ cache_lock' = Free
    /\ UNCHANGED <<acceptvars, conn, cq, pipe, item_lock_type, op, ops, item_locks,
                   item_global_lock, init_count, started_expanding, slabvars>>

-----------------------------------------------------------------------------
(***************************************************************************)
(* The slab rebalancer, as far as its lock goes.                           *)
(***************************************************************************)
\* slabs_reassign() tries the lock and gives up if it is held; the rebalancer
\* it wakes returns from pthread_cond_wait() with the lock.
RebalanceRun ==
    /\ rebalance = "wait" /\ slabs_rebalance_lock = Free
    /\ rebalance' = "run"
    /\ slabs_rebalance_lock' = "rebalancer"
    /\ UNCHANGED <<acceptvars, conn, cq, pipe, item_lock_type, op, ops, lockvars, init_count,
                   expandvars, resumed_early>>

RebalanceEnd ==
    /\ rebalance = "run"
    /\ rebalance' = "wait"
    /\ slabs_rebalance_lock' = Free
    /\ UNCHANGED <<acceptvars, conn, cq, pipe, item_lock_type, op, ops, lockvars, init_count,
                   expandvars, resumed_early>>

-----------------------------------------------------------------------------
MainThread ==
    \/ \E c \in Conns : AcceptConn(c)
    \/ Notify
    \/ AcceptEmfile
    \/ StopAccepting
    \/ MaxconnsHandler

\* What a worker goes on with by itself, and what its clients make it do.
Worker(w) ==
    \/ LibeventProcess(w)
    \/ CloseAllow(w)
    \/ Look(w)
    \/ Change(w)
    \/ Finish(w)

ClientsOf(w) ==
    \/ \E do \in {"set", "delete"}, k \in Keys : Begin(w, do, k)
    \/ \E c \in Conns : CloseSocket(w, c)

MaintenanceThread ==
    \/ LockGlobal
    \/ LockCache
    \/ MoveAndUnlock
    \/ Check
    \/ Resume
    \/ Sleep
    \/ Pause
    \/ SwitchToGlobal
    \/ BeginExpand
    \/ Expand

Next ==
    \/ MainThread
    \/ \E w \in Workers : Worker(w) \/ ClientsOf(w)
    \/ MaintenanceThread
    \/ WakeSpuriously
    \/ RebalanceRun
    \/ RebalanceEnd

\* Threads run, and a thread gets a mutex that is free again and again;
\* nothing is assumed of clients, of wakeups or of who asks for a rebalance.
Fairness ==
    /\ WF_vars(MainThread)
    /\ \A w \in Workers : WF_vars(Worker(w))
    /\ WF_vars(MaintenanceThread) /\ SF_vars(Pause)
    /\ WF_vars(RebalanceEnd)

Spec == Init /\ [][Next]_vars /\ Fairness

-----------------------------------------------------------------------------
(***************************************************************************)
(* Properties.                                                             *)
(***************************************************************************)
MaintSteps == {"loop", "global", "locked", "check", "granular", "resumed", "wait", "woken",
               "paused", "globalled", "swapped", "grown", "flagged", "failed"}

Tables == [hashpower : InitialPower..(InitialPower + MaxExpansions), expanding : BOOLEAN,
           expand_bucket : Nat, old : SUBSET Keys, primary : SUBSET Keys]

\* Each variable has its type, no more threads report in than there are, and a
\* lock that a worker holds is the one its command took.
TypeOK ==
    /\ main \in {"loop", "notify", "emfile"}
    /\ listening \in BOOLEAN /\ allow_new_conns \in BOOLEAN /\ timer \in BOOLEAN
    /\ started_expanding \in BOOLEAN /\ resumed_early \in BOOLEAN
    /\ last_thread \in Workers
    /\ conn \in [Conns -> [state : {"new", "queued", "served", "closing", "closed"},
                           owner : Workers \cup {Free}]]
    /\ cq \in [Workers -> Seq(Conns)]
    /\ pipe \in [Workers -> Seq({"c", "g", "l"})]
    /\ item_lock_type \in [Workers -> {"GRANULAR", "GLOBAL"}]
    /\ op \in [Workers -> CloseOps \cup KeyOps \cup {NoOp}]
    /\ ops \in Nat
    /\ item_locks \in [Keys -> Workers \cup {Free}]
    /\ item_global_lock \in Workers \cup {Maint, Free} /\ cache_lock \in {Maint, Free}
    /\ init_count \in 0..NumThreads
    /\ table \in Tables
    /\ maint \in MaintSteps
    /\ rebalance \in {"wait", "run"}
    /\ slabs_rebalance_lock \in {"maint", "rebalancer", Free}
    /\ item_global_lock \in Workers => op[item_global_lock] \in KeyOps
    /\ \A k \in Keys : item_locks[k] # Free
          => op[item_locks[k]] \in KeyOps /\ op[item_locks[k]].key = k

InOp(w) == op[w] # NoOp /\ op[w].do # "close"

\* A bucket is moved only when no worker is between item_lock() and
\* item_unlock(): switch_item_lock_type() waits until every worker has gone
\* over to the global lock, and the maintenance thread holds that lock.
MoverExclusive ==
    maint = "locked" /\ table.expanding => \A w \in Workers : ~InOp(w)

\* A linked key is in the table where assoc_find() looks for it, at every
\* stage of an expansion and whatever was linked and unlinked meanwhile; only
\* while assoc_expand() exchanges the tables it cannot be seen.
LinkedFindable ==
    maint \notin {"swapped", "grown", "flagged", "failed"}
        => \A k \in table.old \cup table.primary : k \in Where(table, k)

\* Two workers are inside item_lock() for one key only while a switch of the
\* lock type is under way: the one that has switched takes the global lock,
\* the other the key's.
SameKeyExcludedUnlessSwitching ==
    \A w, v \in Workers :
        w # v /\ InOp(w) /\ InOp(v) /\ op[w].key = op[v].key
            => init_count < NumThreads /\ item_lock_type[w] # item_lock_type[v]

\* No slab is moved while the hash table is expanded, unless the resume of
\* the maintenance thread's first round, which paused nothing, has released
\* the lock of a rebalance in progress.
RebalancerPausedUnlessResumedEarly ==
    table.expanding
        \/ maint \in {"paused", "globalled", "swapped", "grown", "flagged", "failed"}
        => rebalance # "run" \/ resumed_early

\* A table that is being expanded is moved to its last bucket, and workers
\* that were told to change locks all do and go back: the maintenance thread,
\* the workers and the rebalancer never wait for each other in a circle.
ExpansionEnds ==
    maint = "woken" ~> maint = "wait" /\ \A w \in Workers : item_lock_type[w] = "GRANULAR"

\* Once it has stopped for lack of descriptors, the main thread accepts again
\* after a connection closes.
AcceptsAgain ==
    ~listening /\ (\E c \in Conns : conn[c].state = "closing") ~> listening
=============================================================================
