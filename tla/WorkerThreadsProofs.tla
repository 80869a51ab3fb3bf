------------------------- MODULE WorkerThreadsProofs -------------------------
(***************************************************************************)
(* Safety of the worker threads for every number of threads, keys and      *)
(* connections and every size of the table.  The handshake that changes    *)
(* the lock type is tied to the locks that are held, and the keys of both  *)
(* hash tables to the bucket that is moved next.                           *)
(***************************************************************************)
EXTENDS WorkerThreads, FiniteSetTheorems, TLAPS

\* Bytes of switch_item_lock_type() that a worker has not read yet, and the
\* workers that have none.
Told(w) == {i \in DOMAIN pipe[w] : pipe[w][i] # "c"}
Registered == {w \in Workers : Told(w) = {}}

Switching == maint \in {"granular", "globalled"}
SwitchByte == IF maint = "granular" THEN "l" ELSE "g"

\* init_count counts the workers that have read their byte; nobody is told to
\* switch while a switch is under way.
RegistrationInv ==
    /\ init_count = Cardinality(Registered)
    /\ \A w \in Workers : \A i, j \in Told(w) : i = j
    /\ \A w \in Workers : \A i \in Told(w) : Switching /\ pipe[w][i] = SwitchByte

InAssocExpand == maint \in {"swapped", "grown", "flagged", "failed"}

\* Who has read the byte has the lock type it asks for, and between switches
\* all workers have the same.
LockTypeInv ==
    /\ \A w \in Registered :
          /\ maint \in {"granular", "resumed", "wait", "woken", "paused"}
                => item_lock_type[w] = "GRANULAR"
          /\ maint = "globalled" \/ table.expanding \/ InAssocExpand
                => item_lock_type[w] = "GLOBAL"
    /\ ~Switching => \A w, v \in Workers : item_lock_type[w] = item_lock_type[v]

\* A worker inside item_lock() holds the lock of its type, and no other.
HolderInv ==
    /\ \A w \in Workers : InOp(w) =>
          IF item_lock_type[w] = "GRANULAR" THEN item_locks[op[w].key] = w
          ELSE item_global_lock = w
    /\ \A w \in Workers : item_global_lock = w => item_lock_type[w] = "GLOBAL"
    /\ \A k \in Keys : item_locks[k] # Free => item_lock_type[item_locks[k]] = "GRANULAR"
    /\ item_global_lock = Maint <=> maint \in {"global", "locked"}
    /\ cache_lock = Maint <=> maint = "locked" \/ InAssocExpand

\* A table is expanded only while the maintenance thread goes round its loop;
\* the buckets before expand_bucket are in the new table, the others in the old.
TableInv ==
    /\ table.expanding => maint \in {"flagged", "loop", "global", "locked", "check"}
    /\ maint = "flagged" => table.expanding
    /\ maint = "failed" => ~table.expanding
    /\ maint \in {"woken", "paused", "globalled", "swapped"} => MayExpand
    /\ table.expanding \/ maint = "grown" => table.hashpower > InitialPower
    /\ InAssocExpand => table.primary = {}
    /\ ~InAssocExpand =>
          IF table.expanding
          THEN /\ \A k \in table.old : Bucket(k, table.hashpower - 1) >= table.expand_bucket
               /\ \A k \in table.primary : Bucket(k, table.hashpower - 1) < table.expand_bucket
          ELSE table.old = {}

\* The rebalancer runs with its lock, and an expansion has that lock.
RebalanceInv ==
    ~resumed_early =>
        /\ rebalance = "run" <=> slabs_rebalance_lock = "rebalancer"
        /\ table.expanding \/ InAssocExpand \/ maint \in {"paused", "globalled"}
              => slabs_rebalance_lock = "maint"

\* The inductive invariant.
IInv == TypeOK /\ RegistrationInv /\ LockTypeInv /\ HolderInv /\ TableInv /\ RebalanceInv

-----------------------------------------------------------------------------
\* hashsize(n) is at least 1.
LEMMA HashsizePositive ==
  ASSUME NEW n \in Nat
  PROVE  2^n \in Nat /\ 2^n > 0
<1>1. IsFiniteSet(1..n) /\ Cardinality(1..n) = n
  BY FS_Interval
<1>2. IsFiniteSet(SUBSET (1..n)) /\ Cardinality(SUBSET (1..n)) = 2^n
  BY <1>1, FS_SUBSET
<1>3. 2^n \in Nat /\ 2^n # 0
  <2>1. {} \in SUBSET (1..n)
    OBVIOUS
  <2> QED
    BY <1>2, <2>1, FS_CardinalityType, FS_EmptySet
<1> QED
  BY <1>3

\* hv & hashmask(n) is a bucket of a table of 2^n buckets.
LEMMA BucketType ==
  ASSUME NEW k \in Keys, NEW n \in Nat
  PROVE  Bucket(k, n) \in Nat /\ Bucket(k, n) < 2^n
<1>1. HashValue[k] \in Nat
  BY WorkerThreadsAssumption
<1> QED
  BY <1>1, HashsizePositive DEF Bucket

\* There are NumThreads workers.
LEMMA WorkersFinite ==
  IsFiniteSet(Workers) /\ Cardinality(Workers) = NumThreads /\ NumThreads \in Nat \ {0}
<1>1. NumThreads \in Nat \ {0} /\ NumThreads - 1 \in Int
  BY WorkerThreadsAssumption
<1>2. IsFiniteSet(0..(NumThreads - 1))
      /\ Cardinality(0..(NumThreads - 1)) = (NumThreads - 1) - 0 + 1
  BY <1>1, FS_Interval
<1> QED
  BY <1>1, <1>2 DEF Workers

\* A counter of NumThreads means that every worker has reported in.
LEMMA AllRegistered ==
  /\ IsFiniteSet(Registered) /\ Cardinality(Registered) \in 0..NumThreads
  /\ Cardinality(Registered) = NumThreads => Registered = Workers
<1>1. Registered \subseteq Workers
  BY DEF Registered
<1>2. /\ IsFiniteSet(Registered) /\ Cardinality(Registered) <= Cardinality(Workers)
      /\ Cardinality(Registered) = Cardinality(Workers) => Registered = Workers
  BY <1>1, WorkersFinite, FS_Subset
<1> QED
  BY <1>2, WorkersFinite, FS_CardinalityType

\* Nothing but "c" in the pipe of everybody while nobody switches.
LEMMA NobodyTold ==
  ASSUME RegistrationInv, ~Switching \/ ThreadsRegistered
  PROVE  Registered = Workers /\ init_count = NumThreads
<1>1. CASE ~Switching
  <2>1. Registered = Workers
    BY <1>1 DEF RegistrationInv, Registered
  <2> QED
    BY <2>1, WorkersFinite DEF RegistrationInv
<1>2. CASE ThreadsRegistered
  BY <1>2, AllRegistered DEF RegistrationInv, ThreadsRegistered
<1> QED
  BY <1>1, <1>2

\* A worker is closing a connection, inside item_lock(), or idle.
LEMMA OpFacts ==
  ASSUME TypeOK, NEW w \in Workers
  PROVE  /\ op[w] \in CloseOps \cup KeyOps \cup {NoOp}
         /\ InOp(w) <=> op[w] \in KeyOps
         /\ op[w] \in KeyOps => op[w].key \in Keys /\ op[w].do \in {"set", "delete"}
         /\ op[w] \in CloseOps => op[w] # NoOp /\ op[w].do = "close" /\ op[w].conn \in Conns
         /\ NoOp \notin KeyOps
<1>1. op[w] \in CloseOps \cup KeyOps \cup {NoOp}
  BY DEF TypeOK
<1> QED
  BY <1>1, NobodyAssumption DEF InOp, CloseOps, KeyOps

-----------------------------------------------------------------------------
\* main() starts the maintenance thread when every worker has registered.
LEMMA InitInv == Init => IInv
<1> SUFFICES ASSUME Init PROVE IInv
  OBVIOUS
<1> USE WorkerThreadsAssumption
<1>1. TypeOK
  <2>1. NumThreads - 1 \in Workers
    BY DEF Workers
  <2>2. /\ cq \in [Workers -> Seq(Conns)] /\ pipe \in [Workers -> Seq({"c", "g", "l"})]
        /\ item_lock_type \in [Workers -> {"GRANULAR", "GLOBAL"}]
        /\ op \in [Workers -> CloseOps \cup KeyOps \cup {NoOp}]
        /\ item_locks \in [Keys -> Workers \cup {Free}]
    BY DEF Init
  <2>3. conn \in [Conns -> [state : {"new", "queued", "served", "closing", "closed"},
                            owner : Workers \cup {Free}]]
    BY DEF Init
  <2>4. table \in Tables
    BY DEF Init, InitialTable, Tables
  <2>5. \A k \in Keys : item_locks[k] = Free
    BY DEF Init
  <2>6. item_global_lock = Free /\ item_global_lock \notin Workers
    BY NobodyAssumption DEF Init
  <2>7. init_count \in 0..NumThreads /\ ops \in Nat
    BY DEF Init
  <2>8. main = "loop" /\ maint = "loop" /\ rebalance = "wait" /\ slabs_rebalance_lock = Free
        /\ cache_lock = Free /\ last_thread = NumThreads - 1
    BY DEF Init
  <2>9. listening = TRUE /\ allow_new_conns = TRUE /\ timer = FALSE
        /\ started_expanding = FALSE /\ resumed_early = FALSE
    BY DEF Init
  <2> HIDE WorkerThreadsAssumption
  <2> QED
    BY <2>1, <2>2, <2>3, <2>4, <2>5, <2>6, <2>7, <2>8, <2>9, Zenon DEF TypeOK, MaintSteps
<1>2. \A w \in Workers : Told(w) = {}
  BY DEF Init, Told
<1>3. RegistrationInv
  <2>1. Registered = Workers
    BY <1>2 DEF Registered
  <2> QED
    BY <1>2, <2>1, WorkersFinite DEF Init, RegistrationInv
<1>4. LockTypeInv
  BY DEF Init, InitialTable, LockTypeInv, InAssocExpand, Registered
<1>5. HolderInv
  BY NobodyAssumption DEF Init, HolderInv, InOp, InAssocExpand
<1>6. TableInv
  BY DEF Init, InitialTable, TableInv, InAssocExpand
<1>7. RebalanceInv
  BY NobodyAssumption DEF Init, InitialTable, RebalanceInv, InAssocExpand
<1> QED
  BY <1>1, <1>3, <1>4, <1>5, <1>6, <1>7 DEF IInv

-----------------------------------------------------------------------------
(***************************************************************************)
(* What each part of the invariant depends on.                             *)
(***************************************************************************)
\* A step that writes to no pipe and is no switch.
LEMMA RegistrationFrame ==
  ASSUME RegistrationInv, UNCHANGED <<pipe, init_count>>, Switching => maint' = maint
  PROVE  RegistrationInv' /\ Registered' = Registered
<1>1. \A w \in Workers : Told(w)' = Told(w)
  BY DEF Told
<1>2. Registered' = Registered
  BY <1>1 DEF Registered
<1>3. \A w \in Workers : \A i \in Told(w) : maint' = maint
  BY DEF RegistrationInv
<1> QED
  BY <1>1, <1>2, <1>3 DEF RegistrationInv, Switching, SwitchByte

\* The maintenance thread goes on between two switches, to no expansion.
LEMMA LockTypeFrame ==
  ASSUME LockTypeInv, UNCHANGED item_lock_type, Registered' = Registered,
         table'.expanding => table.expanding,
         \/ maint' = maint
         \/ maint \in {"resumed", "wait", "woken", "paused"}
               /\ maint' \in {"resumed", "wait", "woken", "paused"}
         \/ maint \in {"loop", "global", "locked", "check"}
               /\ maint' \in {"loop", "global", "locked", "check"}
  PROVE  LockTypeInv'
BY DEF LockTypeInv, Switching, InAssocExpand

\* A step that takes and gives back no lock.
LEMMA HolderFrame ==
  ASSUME HolderInv, UNCHANGED <<op, item_lock_type, lockvars>>,
         maint' = maint
           \/ {maint, maint'} \subseteq
                MaintSteps \ {"global", "locked", "swapped", "grown", "flagged", "failed"}
  PROVE  HolderInv'
BY DEF HolderInv, InOp, InAssocExpand, lockvars

\* A step that neither touches the table nor is one of its thread.
LEMMA TableFrame ==
  ASSUME TableInv, UNCHANGED <<table, maint>>
  PROVE  TableInv'
BY DEF TableInv, InAssocExpand, MayExpand

\* A step that leaves the rebalancer and its lock alone.
LEMMA RebalanceFrame ==
  ASSUME RebalanceInv, UNCHANGED slabvars, table'.expanding => table.expanding,
         maint' = maint \/ (maint' \notin {"paused", "globalled"} /\ ~InAssocExpand')
  PROVE  RebalanceInv'
BY DEF RebalanceInv, InAssocExpand, slabvars

\* A step that leaves alone what the invariant is about.
LEMMA CoreFrame ==
  ASSUME IInv, TypeOK',
         UNCHANGED <<pipe, item_lock_type, op, lockvars, init_count, table, maint, slabvars>>
  PROVE  IInv'
<1>1. RegistrationInv' /\ Registered' = Registered
  BY RegistrationFrame DEF IInv
<1>2. LockTypeInv'
  BY <1>1, LockTypeFrame DEF IInv
<1>3. HolderInv'
  BY HolderFrame DEF IInv
<1>4. TableInv'
  BY TableFrame DEF IInv
<1>5. RebalanceInv'
  BY RebalanceFrame DEF IInv
<1> QED
  BY <1>1, <1>2, <1>3, <1>4, <1>5 DEF IInv

-----------------------------------------------------------------------------
\* A connection that goes on to another state keeps its owner.
LEMMA ConnMoves ==
  ASSUME NEW f \in [Conns -> [state : {"new", "queued", "served", "closing", "closed"},
                             owner : Workers \cup {Free}]],
         NEW c \in Conns, NEW st \in {"queued", "closing"}
  PROVE  [f EXCEPT ![c].state = st]
            \in [Conns -> [state : {"new", "queued", "served", "closing", "closed"},
                          owner : Workers \cup {Free}]]
<1> DEFINE States == {"new", "queued", "served", "closing", "closed"}
           Owners == Workers \cup {Free}
<1>1. f \in [Conns -> [state : States, owner : Owners]] /\ st \in States
  OBVIOUS
<1> HIDE DEF States, Owners
<1>2. [f EXCEPT ![c].state = st] \in [Conns -> [state : States, owner : Owners]]
  BY <1>1
<1> QED
  BY <1>2 DEF States, Owners

\* The main thread hands a connection to the next worker in turn.
LEMMA AcceptConnInv ==
  ASSUME IInv, NEW c \in Conns, AcceptConn(c)
  PROVE  IInv'
<1>1. TypeOK
  BY DEF IInv
<1>2. last_thread' \in Workers
  BY <1>1, WorkersFinite DEF TypeOK, AcceptConn, Dispatch, Workers
<1>3. cq' \in [Workers -> Seq(Conns)]
  BY <1>1, <1>2 DEF TypeOK, AcceptConn, Dispatch, CqPush
<1>4. conn' \in [Conns -> [state : {"new", "queued", "served", "closing", "closed"},
                           owner : Workers \cup {Free}]]
  <2>1. conn' = [conn EXCEPT ![c].state = "queued"]
    BY DEF AcceptConn
  <2> QED
    BY <1>1, <2>1, ConnMoves, Zenon DEF TypeOK
<1>5. /\ main' = "notify"
      /\ UNCHANGED <<listening, allow_new_conns, timer, pipe, item_lock_type, op, ops, lockvars,
                     init_count, expandvars, slabvars>>
  BY DEF AcceptConn, Dispatch
<1>6. TypeOK'
  BY <1>1, <1>2, <1>3, <1>4, <1>5 DEF TypeOK, lockvars, expandvars, slabvars
<1> QED
  BY <1>5, <1>6, CoreFrame DEF expandvars

\* Steps of the main thread that change flags of its own.
LEMMA MainFlagsInv ==
  ASSUME IInv, AcceptEmfile \/ StopAccepting \/ MaxconnsHandler
  PROVE  IInv'
<1>1. TypeOK
  BY DEF IInv
<1>2. /\ main' \in {"loop", "emfile"}
      /\ listening' \in BOOLEAN /\ allow_new_conns' \in BOOLEAN /\ timer' \in BOOLEAN
      /\ UNCHANGED <<last_thread, conn, cq, pipe, item_lock_type, op, ops, lockvars,
                     init_count, expandvars, slabvars>>
  BY <1>1 DEF TypeOK, AcceptEmfile, StopAccepting, MaxconnsHandler, AcceptNewConns
<1>3. TypeOK'
  BY <1>1, <1>2 DEF TypeOK, lockvars, expandvars, slabvars
<1> QED
  BY <1>2, <1>3, CoreFrame DEF expandvars

\* The byte for a new connection asks for no other lock type.
LEMMA NotifyInv ==
  ASSUME IInv, Notify
  PROVE  IInv'
<1>1. TypeOK /\ last_thread \in Workers /\ pipe \in [Workers -> Seq({"c", "g", "l"})]
  BY DEF IInv, TypeOK
<1>2. /\ pipe' = [pipe EXCEPT ![last_thread] = Append(@, "c")]
      /\ main' = "loop"
      /\ UNCHANGED <<listening, allow_new_conns, timer, last_thread, conn, cq, item_lock_type,
                     op, ops, lockvars, init_count, table, started_expanding, maint, slabvars>>
  BY DEF Notify, expandvars
<1>3. pipe' \in [Workers -> Seq({"c", "g", "l"})]
  BY <1>1, <1>2
<1>4. TypeOK'
  BY <1>1, <1>2, <1>3 DEF TypeOK, lockvars, slabvars
<1>5. \A w \in Workers : Told(w)' = Told(w) /\ \A i \in Told(w) : pipe'[w][i] = pipe[w][i]
  <2> SUFFICES ASSUME NEW w \in Workers
               PROVE  Told(w)' = Told(w) /\ \A i \in Told(w) : pipe'[w][i] = pipe[w][i]
    OBVIOUS
  <2>1. CASE w = last_thread
    <3>1. pipe[w] \in Seq({"c", "g", "l"}) /\ pipe'[w] = Append(pipe[w], "c")
      BY <1>1, <1>2, <2>1
    <3>2. /\ Len(pipe'[w]) = Len(pipe[w]) + 1 /\ pipe'[w][Len(pipe[w]) + 1] = "c"
          /\ \A i \in 1..Len(pipe[w]) : pipe'[w][i] = pipe[w][i]
          /\ DOMAIN pipe[w] = 1..Len(pipe[w]) /\ DOMAIN pipe'[w] = 1..(Len(pipe[w]) + 1)
          /\ Len(pipe[w]) \in Nat
      BY <3>1
    <3> QED
      BY <3>2 DEF Told
  <2>2. CASE w # last_thread
    BY <1>1, <1>2, <2>2 DEF Told
  <2> QED
    BY <2>1, <2>2
<1>6. Registered' = Registered
  BY <1>5 DEF Registered
<1>7. RegistrationInv'
  <2>1. RegistrationInv /\ Switching' = Switching /\ SwitchByte' = SwitchByte
    BY <1>2 DEF IInv, Switching, SwitchByte
  <2>2. init_count' = Cardinality(Registered')
    BY <1>2, <1>6, <2>1 DEF RegistrationInv
  <2>3. \A w \in Workers : \A i, j \in Told(w)' : i = j
    BY <1>5, <2>1 DEF RegistrationInv
  <2>4. \A w \in Workers : \A i \in Told(w)' : Switching' /\ pipe'[w][i] = SwitchByte'
    BY <1>5, <2>1 DEF RegistrationInv
  <2> QED
    BY <2>2, <2>3, <2>4 DEF RegistrationInv
<1>8. LockTypeInv' /\ HolderInv' /\ TableInv' /\ RebalanceInv'
  BY <1>2, <1>6, LockTypeFrame, HolderFrame, TableFrame, RebalanceFrame DEF IInv
<1> QED
  BY <1>4, <1>7, <1>8 DEF IInv

\* What is left of a pipe when its first byte is read.
LEMMA TailFacts ==
  ASSUME NEW S, NEW s \in Seq(S), s # <<>>
  PROVE  /\ Len(s) \in Nat \ {0} /\ DOMAIN s = 1..Len(s)
         /\ DOMAIN Tail(s) = 1..(Len(s) - 1)
         /\ \A i \in 1..(Len(s) - 1) : Tail(s)[i] = s[i + 1]
         /\ Head(s) = s[1] /\ Tail(s) \in Seq(S)
OBVIOUS

\* thread_libevent_process() reads one byte, the first.
LEMMA ReadByte ==
  ASSUME TypeOK, NEW w \in Workers, pipe[w] # <<>>,
         pipe' = [pipe EXCEPT ![w] = Tail(@)]
  PROVE  /\ pipe' \in [Workers -> Seq({"c", "g", "l"})]
         /\ \A i : i \in Told(w)' <=> i \in Nat \ {0} /\ i + 1 \in Told(w)
         /\ \A i \in Told(w)' : pipe'[w][i] = pipe[w][i + 1]
         /\ 1 \in Told(w) <=> Head(pipe[w]) # "c"
         /\ 1 \in Told(w) => Head(pipe[w]) = pipe[w][1]
         /\ \A i \in Told(w) : i \in Nat \ {0}
         /\ \A v \in Workers : v # w => Told(v)' = Told(v) /\ pipe'[v] = pipe[v]
<1>1. pipe \in [Workers -> Seq({"c", "g", "l"})]
  BY DEF TypeOK
<1>2. pipe'[w] = Tail(pipe[w]) /\ pipe[w] \in Seq({"c", "g", "l"})
      /\ \A v \in Workers : v # w => pipe'[v] = pipe[v]
  BY <1>1
<1>3. /\ Len(pipe[w]) \in Nat \ {0} /\ DOMAIN pipe[w] = 1..Len(pipe[w])
      /\ DOMAIN pipe'[w] = 1..(Len(pipe[w]) - 1)
      /\ \A i \in 1..(Len(pipe[w]) - 1) : pipe'[w][i] = pipe[w][i + 1]
      /\ Head(pipe[w]) = pipe[w][1] /\ pipe'[w] \in Seq({"c", "g", "l"})
  BY <1>2, TailFacts, ZenonT(40)
<1>4. pipe' \in [Workers -> Seq({"c", "g", "l"})]
  BY <1>1, <1>3
<1>5. \A i : i \in Told(w)' <=> i \in Nat \ {0} /\ i + 1 \in Told(w)
  BY <1>3 DEF Told
<1>6. \A i \in Told(w)' : pipe'[w][i] = pipe[w][i + 1]
  BY <1>3 DEF Told
<1> QED
  BY <1>2, <1>3, <1>4, <1>5, <1>6 DEF Told

\* A worker takes a connection from its queue.
LEMMA PopConnInv ==
  ASSUME IInv, NEW w \in Workers, LibeventProcess(w), PopConn(w)
  PROVE  IInv'
<1>1. TypeOK /\ pipe[w] # <<>> /\ pipe' = [pipe EXCEPT ![w] = Tail(@)] /\ Head(pipe[w]) = "c"
  BY DEF IInv, LibeventProcess, PopConn
<1>2. /\ UNCHANGED <<main, listening, allow_new_conns, timer, last_thread, item_lock_type, op,
                     ops, lockvars, init_count, table, started_expanding, maint, slabvars>>
      /\ conn' = [conn EXCEPT ![Head(cq[w])] = [state |-> "served", owner |-> w]]
      /\ cq' = [cq EXCEPT ![w] = Tail(@)] /\ cq[w] # <<>>
  BY DEF LibeventProcess, PopConn, CqPop, acceptvars, expandvars
<1>3. cq' \in [Workers -> Seq(Conns)]
  BY <1>1, <1>2 DEF TypeOK
<1>4. conn' \in [Conns -> [state : {"new", "queued", "served", "closing", "closed"},
                           owner : Workers \cup {Free}]]
  BY <1>1, <1>2 DEF TypeOK
<1>5. TypeOK'
  BY <1>1, <1>2, <1>3, <1>4, ReadByte DEF TypeOK, lockvars, slabvars
<1>6. \A v \in Workers : Told(v)' = {} <=> Told(v) = {}
  <2>1. Told(w)' = {} <=> Told(w) = {}
    <3>1. \A i : i \in Told(w)' <=> i \in Nat \ {0} /\ i + 1 \in Told(w)
      BY <1>1, ReadByte
    <3>2. 1 \notin Told(w) /\ \A i \in Told(w) : i \in Nat \ {0}
      BY <1>1, ReadByte
    <3>3. ASSUME NEW i \in Told(w)
          PROVE  i - 1 \in Told(w)'
      <4>1. i \in Nat \ {0} /\ i # 1
        BY <3>2
      <4>2. i - 1 \in Nat \ {0} /\ (i - 1) + 1 = i
        BY <4>1
      <4> QED
        BY <3>1, <4>2
    <3> QED
      BY <3>1, <3>3
  <2> QED
    BY <1>1, <2>1, ReadByte
<1>7. Registered' = Registered
  BY <1>6 DEF Registered
<1>8. RegistrationInv'
  <2>1. /\ \A v \in Workers : \A i, j \in Told(v) : i = j
        /\ \A v \in Workers : \A i \in Told(v) : Switching /\ pipe[v][i] = SwitchByte
    BY DEF IInv, RegistrationInv
  <2>2. ASSUME NEW v \in Workers, NEW i \in Told(v)'
        PROVE  /\ \A j \in Told(v)' : i = j
               /\ Switching /\ pipe'[v][i] = SwitchByte
    <3>1. CASE v = w
      <4>1. i \in Nat /\ i + 1 \in Told(w) /\ pipe'[w][i] = pipe[w][i + 1]
            /\ \A j \in Told(w)' : j \in Nat /\ j + 1 \in Told(w)
        BY <1>1, <3>1, ReadByte
      <4>2. \A j \in Told(w)' : j + 1 = i + 1
        BY <2>1, <4>1
      <4> QED
        BY <2>1, <3>1, <4>1, <4>2
    <3>2. CASE v # w
      <4>1. Told(v)' = Told(v) /\ pipe'[v] = pipe[v]
        BY <1>1, <3>2, ReadByte
      <4> QED
        BY <2>1, <4>1
    <3> QED
      BY <3>1, <3>2
  <2> QED
    BY <1>2, <1>7, <2>2 DEF IInv, RegistrationInv, Switching, SwitchByte
<1>9. LockTypeInv' /\ HolderInv' /\ TableInv' /\ RebalanceInv'
  BY <1>2, <1>7, LockTypeFrame, HolderFrame, TableFrame, RebalanceFrame DEF IInv
<1> QED
  BY <1>5, <1>8, <1>9 DEF IInv

\* A worker goes over to the other lock and reports in: it has read the one
\* byte that was for it, and it holds no item lock.
LEMMA FlipLockTypeInv ==
  ASSUME IInv, NEW w \in Workers, LibeventProcess(w), FlipLockType(w)
  PROVE  IInv'
<1>1. TypeOK /\ pipe[w] # <<>> /\ pipe' = [pipe EXCEPT ![w] = Tail(@)] /\ Head(pipe[w]) # "c"
  BY DEF IInv, LibeventProcess, FlipLockType
<1>2. /\ UNCHANGED <<main, listening, allow_new_conns, timer, last_thread, conn, cq, op, ops,
                     lockvars, table, started_expanding, maint, slabvars>>
      /\ init_count' = init_count + 1
      /\ op[w] = NoOp
  BY DEF LibeventProcess, FlipLockType, RegisterThreadInitialized, acceptvars, expandvars
<1>3. 1 \in Told(w) /\ Head(pipe[w]) = pipe[w][1]
  BY <1>1, ReadByte
<1>4. Switching /\ pipe[w][1] = SwitchByte /\ w \notin Registered /\ \A i \in Told(w) : i = 1
  BY <1>3 DEF IInv, RegistrationInv, Registered
<1>5. item_lock_type' = [item_lock_type EXCEPT
                              ![w] = IF maint = "granular" THEN "GRANULAR" ELSE "GLOBAL"]
  BY <1>3, <1>4 DEF FlipLockType, SwitchByte
<1>6. Told(w)' = {}
  <2>1. \A i \in Told(w)' : i \in Nat \ {0} /\ i + 1 \in Told(w)
    BY <1>1, ReadByte
  <2>2. \A i \in Told(w)' : i \in Nat \ {0} /\ i + 1 = 1
    BY <1>4, <2>1
  <2> QED
    BY <2>2
<1>7. Registered' = Registered \cup {w}
  BY <1>1, <1>6, ReadByte DEF Registered
<1>8. Cardinality(Registered') = init_count' /\ init_count' \in 0..NumThreads
  <2>1. IsFiniteSet(Registered)
    BY AllRegistered
  <2>2. Cardinality(Registered') = Cardinality(Registered) + 1
    BY <1>4, <1>7, <2>1, FS_AddElement
  <2>3. Registered' \subseteq Workers
    BY <1>7 DEF Registered
  <2>4. Cardinality(Registered') <= NumThreads
    BY <2>3, WorkersFinite, FS_Subset
  <2> QED
    BY <1>2, <2>1, <2>2, <2>4, WorkersFinite, FS_CardinalityType DEF IInv, RegistrationInv
<1>9. TypeOK'
  <2>1. item_lock_type' \in [Workers -> {"GRANULAR", "GLOBAL"}]
    BY <1>1, <1>5 DEF TypeOK
  <2>2. pipe' \in [Workers -> Seq({"c", "g", "l"})]
    BY <1>1, ReadByte
  <2> QED
    BY <1>1, <1>2, <1>8, <2>1, <2>2 DEF TypeOK, lockvars, slabvars
<1>10. RegistrationInv'
  <2>1. \A v \in Workers : \A i \in Told(v)' :
           v # w /\ i \in Told(v) /\ pipe'[v] = pipe[v] /\ Told(v)' = Told(v)
    BY <1>1, <1>6, ReadByte
  <2> QED
    BY <1>2, <1>8, <2>1 DEF IInv, RegistrationInv, Switching, SwitchByte
<1>11. LockTypeInv'
  <2>1. item_lock_type \in [Workers -> {"GRANULAR", "GLOBAL"}]
    BY <1>1 DEF TypeOK
  <2>2. \A v \in Workers : item_lock_type'[v] =
           IF v = w THEN IF maint = "granular" THEN "GRANULAR" ELSE "GLOBAL"
           ELSE item_lock_type[v]
    BY <1>5, <2>1
  <2>3. maint = "granular" \/ maint = "globalled"
    BY <1>4 DEF Switching
  <2>4. ~table.expanding
    BY <2>3 DEF IInv, TableInv
  <2> QED
    BY <1>2, <1>7, <2>2, <2>3, <2>4 DEF IInv, LockTypeInv, Switching, InAssocExpand, Registered
<1>12. HolderInv'
  <2>1. ~InOp(w) /\ item_global_lock # w /\ \A k \in Keys : item_locks[k] # w
    BY <1>1, <1>2, OpFacts, NobodyAssumption DEF InOp, TypeOK
  <2>2. /\ \A v \in Workers : v # w => item_lock_type'[v] = item_lock_type[v]
        /\ \A k \in Keys : item_locks[k] \in Workers \cup {Free}
    BY <1>1, <1>5 DEF TypeOK
  <2> QED
    BY <1>2, <2>1, <2>2 DEF IInv, HolderInv, InOp, InAssocExpand, lockvars
<1>13. TableInv' /\ RebalanceInv'
  BY <1>2, TableFrame, RebalanceFrame DEF IInv
<1> QED
  BY <1>9, <1>10, <1>11, <1>12, <1>13 DEF IInv


\* conn_close() closes the socket of an idle worker's connection.
LEMMA CloseSocketInv ==
  ASSUME IInv, NEW w \in Workers, NEW c \in Conns, CloseSocket(w, c)
  PROVE  IInv'
<1>1. TypeOK /\ NoOp \notin KeyOps
  BY NobodyAssumption DEF IInv
<1>2. /\ UNCHANGED <<main, listening, allow_new_conns, timer, last_thread, cq, pipe,
                     item_lock_type, ops, lockvars, init_count, table, started_expanding,
                     maint, slabvars>>
      /\ conn' = [conn EXCEPT ![c].state = "closing"]
      /\ op[w] = NoOp /\ op' = [op EXCEPT ![w] = [do |-> "close", conn |-> c]]
  BY DEF CloseSocket, acceptvars, expandvars
<1>3. /\ op'[w] = [do |-> "close", conn |-> c]
      /\ \A v \in Workers : v # w => op'[v] = op[v]
      /\ op' \in [Workers -> CloseOps \cup KeyOps \cup {NoOp}]
  BY <1>1, <1>2 DEF TypeOK, CloseOps
<1>4. TypeOK'
  <2>1. conn' \in [Conns -> [state : {"new", "queued", "served", "closing", "closed"},
                             owner : Workers \cup {Free}]]
    BY <1>1, <1>2, ConnMoves, Zenon DEF TypeOK
  <2>2. item_global_lock \in Workers => op'[item_global_lock] \in KeyOps
    BY <1>1, <1>2, <1>3 DEF TypeOK
  <2>3. \A k \in Keys : item_locks[k] # Free
           => op'[item_locks[k]] \in KeyOps /\ op'[item_locks[k]].key = k
    BY <1>1, <1>2, <1>3 DEF TypeOK
  <2> QED
    BY <1>1, <1>2, <1>3, <2>1, <2>2, <2>3 DEF TypeOK, lockvars, slabvars
<1>5. HolderInv'
  <2>1. ~InOp(w)' /\ \A v \in Workers : v # w => InOp(v)' = InOp(v)
    BY <1>3 DEF InOp
  <2> QED
    BY <1>2, <1>3, <2>1 DEF IInv, HolderInv, InAssocExpand, lockvars
<1>6. RegistrationInv' /\ LockTypeInv' /\ TableInv' /\ RebalanceInv'
  BY <1>2, RegistrationFrame, LockTypeFrame, TableFrame, RebalanceFrame DEF IInv
<1> QED
  BY <1>4, <1>5, <1>6 DEF IInv

\* ... and then lets the main thread accept again.
LEMMA CloseAllowInv ==
  ASSUME IInv, NEW w \in Workers, CloseAllow(w)
  PROVE  IInv'
<1>1. TypeOK
  BY DEF IInv
<1>2. /\ UNCHANGED <<main, listening, timer, last_thread, cq, pipe, item_lock_type, ops,
                     lockvars, init_count, table, started_expanding, maint, slabvars>>
      /\ conn' = [conn EXCEPT ![op[w].conn] = [state |-> "closed", owner |-> Free]]
      /\ allow_new_conns' = TRUE
      /\ ~InOp(w) /\ op' = [op EXCEPT ![w] = NoOp]
  BY DEF CloseAllow, expandvars, InOp
<1>3. /\ op'[w] = NoOp
      /\ \A v \in Workers : v # w => op'[v] = op[v]
      /\ op' \in [Workers -> CloseOps \cup KeyOps \cup {NoOp}]
  BY <1>1, <1>2 DEF TypeOK
<1>4. TypeOK'
  <2>1. conn' \in [Conns -> [state : {"new", "queued", "served", "closing", "closed"},
                             owner : Workers \cup {Free}]]
    BY <1>1, <1>2 DEF TypeOK
  <2>2. op[w] \notin KeyOps
    BY <1>1, <1>2, OpFacts
  <2>3. item_global_lock \in Workers => op'[item_global_lock] \in KeyOps
    BY <1>1, <1>2, <1>3, <2>2 DEF TypeOK
  <2>4. \A k \in Keys : item_locks[k] # Free
           => op'[item_locks[k]] \in KeyOps /\ op'[item_locks[k]].key = k
    BY <1>1, <1>2, <1>3, <2>2 DEF TypeOK
  <2> QED
    BY <1>1, <1>2, <1>3, <2>1, <2>3, <2>4 DEF TypeOK, lockvars, slabvars
<1>5. HolderInv'
  <2>1. ~InOp(w)' /\ \A v \in Workers : v # w => InOp(v)' = InOp(v)
    BY <1>3 DEF InOp
  <2> QED
    BY <1>2, <1>3, <2>1 DEF IInv, HolderInv, InAssocExpand, lockvars
<1>6. RegistrationInv' /\ LockTypeInv' /\ TableInv' /\ RebalanceInv'
  BY <1>2, RegistrationFrame, LockTypeFrame, TableFrame, RebalanceFrame DEF IInv
<1> QED
  BY <1>4, <1>5, <1>6 DEF IInv

\* A worker takes the item lock of its type.
LEMMA BeginInv ==
  ASSUME IInv, NEW w \in Workers, NEW do \in {"set", "delete"}, NEW k \in Keys, Begin(w, do, k)
  PROVE  IInv'
<1>1. TypeOK
  BY DEF IInv
<1>2. /\ UNCHANGED <<main, listening, allow_new_conns, timer, last_thread, conn, cq, pipe,
                     item_lock_type, cache_lock, init_count, table, started_expanding, maint,
                     slabvars>>
      /\ ItemLock(w, k) /\ ops' = ops + 1
      /\ op[w] = NoOp
      /\ op' = [op EXCEPT ![w] = [do |-> do, key |-> k, stage |-> "locked", found |-> FALSE]]
  BY DEF Begin, acceptvars, expandvars
<1>3. /\ op'[w] \in KeyOps /\ op'[w].key = k
      /\ \A v \in Workers : v # w => op'[v] = op[v]
      /\ op' \in [Workers -> CloseOps \cup KeyOps \cup {NoOp}]
  BY <1>1, <1>2 DEF TypeOK, KeyOps
<1>4. item_lock_type[w] \in {"GRANULAR", "GLOBAL"} /\ w # Free /\ w # Maint
      /\ op[w] \notin KeyOps
  BY <1>1, <1>2, OpFacts, NobodyAssumption DEF TypeOK
<1>5. item_global_lock # w /\ \A j \in Keys : item_locks[j] # w
  BY <1>1, <1>4 DEF TypeOK
<1>6. \/ /\ item_lock_type[w] = "GRANULAR" /\ item_locks[k] = Free
         /\ item_locks' = [item_locks EXCEPT ![k] = w] /\ item_global_lock' = item_global_lock
      \/ /\ item_lock_type[w] = "GLOBAL" /\ item_global_lock = Free
         /\ item_global_lock' = w /\ item_locks' = item_locks
  BY <1>2, <1>4 DEF ItemLock
<1>7. item_locks \in [Keys -> Workers \cup {Free}] /\ item_locks' \in [Keys -> Workers \cup {Free}]
  BY <1>1, <1>6 DEF TypeOK
<1>8. TypeOK'
  <2>1. item_global_lock' \in Workers \cup {Maint, Free}
    BY <1>1, <1>6 DEF TypeOK
  <2>2. item_global_lock' \in Workers => op'[item_global_lock'] \in KeyOps
    BY <1>1, <1>3, <1>6 DEF TypeOK
  <2>3. \A j \in Keys : item_locks'[j] # Free
           => op'[item_locks'[j]] \in KeyOps /\ op'[item_locks'[j]].key = j
    BY <1>1, <1>3, <1>5, <1>6, <1>7 DEF TypeOK
  <2>4. ops' \in Nat
    BY <1>1, <1>2 DEF TypeOK
  <2> QED
    BY <1>1, <1>2, <1>3, <1>7, <2>1, <2>2, <2>3, <2>4, ZenonT(60) DEF TypeOK, slabvars
<1>9. HolderInv'
  <2>1. \A v \in Workers : v # w => InOp(v)' = InOp(v) /\ op'[v] = op[v]
    BY <1>3 DEF InOp
  <2>2. \A v \in Workers : v # w /\ InOp(v) => op[v].key \in Keys
    BY <1>1, OpFacts
  <2>3. \A v \in Workers : InOp(v)' =>
          IF item_lock_type'[v] = "GRANULAR" THEN item_locks'[op'[v].key] = v
          ELSE item_global_lock' = v
    <3> SUFFICES ASSUME NEW v \in Workers, InOp(v)'
                 PROVE  IF item_lock_type[v] = "GRANULAR" THEN item_locks'[op'[v].key] = v
                        ELSE item_global_lock' = v
      BY <1>2
    <3>1. CASE v = w
      BY <1>3, <1>6, <1>7, <3>1
    <3>2. CASE v # w
      <4>1. IF item_lock_type[v] = "GRANULAR" THEN item_locks[op[v].key] = v
            ELSE item_global_lock = v
        BY <2>1, <3>2 DEF IInv, HolderInv
      <4>2. v # Free
        BY NobodyAssumption
      <4> QED
        BY <1>6, <1>7, <2>1, <2>2, <3>2, <4>1, <4>2
    <3> QED
      BY <3>1, <3>2
  <2>4. \A v \in Workers : item_global_lock' = v => item_lock_type[v] = "GLOBAL"
    BY <1>6 DEF IInv, HolderInv
  <2>5. \A j \in Keys : item_locks'[j] # Free => item_lock_type[item_locks'[j]] = "GRANULAR"
    BY <1>6, <1>7 DEF IInv, HolderInv
  <2>6. item_global_lock' = Maint <=> item_global_lock = Maint
    BY <1>4, <1>6, NobodyAssumption
  <2> QED
    BY <1>2, <2>3, <2>4, <2>5, <2>6 DEF IInv, HolderInv, InAssocExpand
<1>10. RegistrationInv' /\ LockTypeInv' /\ TableInv' /\ RebalanceInv'
  BY <1>2, RegistrationFrame, LockTypeFrame, TableFrame, RebalanceFrame DEF IInv
<1> QED
  BY <1>8, <1>9, <1>10 DEF IInv


\* A command goes on with the key it has locked.
LEMMA StageFrame ==
  ASSUME IInv, NEW w \in Workers, InOp(w), op'[w] \in KeyOps, op'[w].key = op[w].key,
         \A v \in Workers : v # w => op'[v] = op[v],
         UNCHANGED <<item_lock_type, lockvars>>,
         maint' = maint
           \/ {maint, maint'} \subseteq
                MaintSteps \ {"global", "locked", "swapped", "grown", "flagged", "failed"}
  PROVE  /\ item_global_lock' \in Workers => op'[item_global_lock'] \in KeyOps
         /\ \A k \in Keys : item_locks'[k] # Free
              => op'[item_locks'[k]] \in KeyOps /\ op'[item_locks'[k]].key = k
         /\ HolderInv'
<1>1. TypeOK
  BY DEF IInv
<1>2. \A v \in Workers : InOp(v)' = InOp(v) /\ (InOp(v) => op'[v].key = op[v].key)
  BY <1>1, OpFacts, NobodyAssumption DEF InOp, KeyOps
<1>3. item_global_lock' \in Workers => op'[item_global_lock'] \in KeyOps
  BY <1>1 DEF TypeOK, lockvars
<1>4. \A k \in Keys : item_locks'[k] # Free
        => op'[item_locks'[k]] \in KeyOps /\ op'[item_locks'[k]].key = k
  BY <1>1 DEF TypeOK, lockvars
<1>5. HolderInv'
  BY <1>2 DEF IInv, HolderInv, InAssocExpand, lockvars
<1> QED
  BY <1>3, <1>4, <1>5

\* assoc_find() changes nothing but what the worker knows.
LEMMA LookInv ==
  ASSUME IInv, NEW w \in Workers, Look(w)
  PROVE  IInv'
<1>1. TypeOK /\ InOp(w)
  BY DEF IInv, Look, InOp
<1>2. /\ UNCHANGED <<main, listening, allow_new_conns, timer, last_thread, conn, cq, pipe,
                     item_lock_type, ops, lockvars, init_count, table, started_expanding, maint,
                     slabvars>>
      /\ op' = [op EXCEPT ![w].stage = "looked",
                          ![w].found = op[w].key \in Where(table, op[w].key)]
  BY DEF Look, acceptvars, expandvars
<1>3. op[w] \in KeyOps
  BY <1>1, OpFacts
<1>4. (op[w].key \in Where(table, op[w].key)) \in BOOLEAN
  OBVIOUS
<1>5. /\ op'[w] \in KeyOps /\ op'[w].key = op[w].key
      /\ \A v \in Workers : v # w => op'[v] = op[v]
      /\ op' \in [Workers -> CloseOps \cup KeyOps \cup {NoOp}]
  <2>1. DEFINE f == op[w].key \in Where(table, op[w].key)
               o == [op[w] EXCEPT !.stage = "looked", !.found = f]
  <2>2. op' = [op EXCEPT ![w] = o]
    BY <1>1, <1>2 DEF TypeOK
  <2>3. f \in BOOLEAN
    OBVIOUS
  <2> HIDE DEF f
  <2>4. o \in KeyOps /\ o.key = op[w].key
    BY <1>3, <2>3 DEF KeyOps
  <2> HIDE DEF o
  <2> QED
    BY <1>1, <2>2, <2>4 DEF TypeOK
<1>6. TypeOK' /\ HolderInv'
  <2>1. /\ item_global_lock' \in Workers => op'[item_global_lock'] \in KeyOps
        /\ \A k \in Keys : item_locks'[k] # Free
              => op'[item_locks'[k]] \in KeyOps /\ op'[item_locks'[k]].key = k
        /\ HolderInv'
    BY <1>1, <1>2, <1>5, StageFrame
  <2> QED
    BY <1>1, <1>2, <1>5, <2>1 DEF TypeOK, lockvars, slabvars
<1>7. RegistrationInv' /\ LockTypeInv' /\ TableInv' /\ RebalanceInv'
  BY <1>2, RegistrationFrame, LockTypeFrame, TableFrame, RebalanceFrame DEF IInv
<1> QED
  BY <1>6, <1>7 DEF IInv

\* What assoc_insert() and assoc_delete() keep: between two buckets a key goes
\* to the table where it belongs.
LEMMA TableChange ==
  ASSUME TypeOK, TableInv, NEW k \in Keys, ~InAssocExpand,
         table' \in {AssocInsert(table, k), AssocDelete(table, k)}
  PROVE  /\ table' \in Tables
         /\ table'.expanding = table.expanding /\ table'.hashpower = table.hashpower
         /\ IF table'.expanding
            THEN /\ \A j \in table'.old :
                       Bucket(j, table'.hashpower - 1) >= table'.expand_bucket
                 /\ \A j \in table'.primary :
                       Bucket(j, table'.hashpower - 1) < table'.expand_bucket
            ELSE table'.old = {}
<1>1. table \in Tables
  BY DEF TypeOK
<1>2. /\ table'.expanding = table.expanding /\ table'.hashpower = table.hashpower
      /\ table'.expand_bucket = table.expand_bucket
      /\ table' \in Tables
  BY <1>1 DEF Tables, AssocInsert, AssocDelete
<1>3. IF InOld(table, k)
      THEN table'.old \subseteq table.old \cup {k} /\ table'.primary = table.primary
      ELSE table'.old = table.old /\ table'.primary \subseteq table.primary \cup {k}
  BY <1>1 DEF Tables, AssocInsert, AssocDelete
<1>4. CASE table.expanding
  <2>1. table.hashpower - 1 \in Nat /\ table.expand_bucket \in Nat
    BY <1>1, <1>4, WorkerThreadsAssumption DEF Tables, TableInv
  <2>2. Bucket(k, table.hashpower - 1) \in Nat
    BY <2>1, BucketType
  <2>3. InOld(table, k) <=> Bucket(k, table.hashpower - 1) >= table.expand_bucket
    BY <1>4 DEF InOld
  <2>4. ~InOld(table, k) => Bucket(k, table.hashpower - 1) < table.expand_bucket
    BY <2>1, <2>2, <2>3
  <2> QED
    BY <1>2, <1>3, <1>4, <2>3, <2>4 DEF TableInv
<1>5. CASE ~table.expanding
  BY <1>2, <1>3, <1>5 DEF TableInv, InOld
<1> QED
  BY <1>2, <1>4, <1>5

\* do_item_link() and do_item_unlink() change the table under cache_lock,
\* which the maintenance thread holds whenever the tables disagree.
LEMMA ChangeInv ==
  ASSUME IInv, NEW w \in Workers, Change(w)
  PROVE  IInv'
<1>1. TypeOK /\ InOp(w) /\ cache_lock = Free
  BY DEF IInv, Change, InOp
<1>2. /\ UNCHANGED <<main, listening, allow_new_conns, timer, last_thread, conn, cq, pipe,
                     item_lock_type, ops, lockvars, init_count, slabvars>>
      /\ op' = [op EXCEPT ![w].stage = "changed"]
      /\ table' \in {AssocInsert(table, op[w].key), AssocDelete(table, op[w].key)}
      /\ \/ StartExpand
         \/ UNCHANGED <<started_expanding, maint>>
  BY DEF Change, acceptvars
<1>3. op[w] \in KeyOps /\ op[w].key \in Keys
  BY <1>1, OpFacts
<1>4. ~InAssocExpand /\ maint # "locked"
  BY <1>1, NobodyAssumption DEF IInv, HolderInv
<1>5. /\ maint' = maint \/ (maint = "wait" /\ maint' = "woken" /\ MayExpand)
      /\ maint' \in MaintSteps /\ started_expanding' \in BOOLEAN
  BY <1>1, <1>2 DEF TypeOK, StartExpand, MaintSteps
<1>6. /\ op'[w] \in KeyOps /\ op'[w].key = op[w].key
      /\ \A v \in Workers : v # w => op'[v] = op[v]
      /\ op' \in [Workers -> CloseOps \cup KeyOps \cup {NoOp}]
  <2>1. DEFINE o == [op[w] EXCEPT !.stage = "changed"]
  <2>2. op' = [op EXCEPT ![w] = o]
    BY <1>1, <1>2 DEF TypeOK
  <2>3. o \in KeyOps /\ o.key = op[w].key
    BY <1>3 DEF KeyOps
  <2> HIDE DEF o
  <2> QED
    BY <1>1, <2>2, <2>3 DEF TypeOK
<1>7. /\ table' \in Tables
      /\ table'.expanding = table.expanding /\ table'.hashpower = table.hashpower
      /\ IF table'.expanding
         THEN /\ \A j \in table'.old :
                    Bucket(j, table'.hashpower - 1) >= table'.expand_bucket
              /\ \A j \in table'.primary :
                    Bucket(j, table'.hashpower - 1) < table'.expand_bucket
         ELSE table'.old = {}
  BY <1>1, <1>2, <1>3, <1>4, TableChange DEF IInv
<1>8. TypeOK' /\ HolderInv'
  <2>1. maint' = maint
          \/ {maint, maint'} \subseteq
               MaintSteps \ {"global", "locked", "swapped", "grown", "flagged", "failed"}
    BY <1>5 DEF MaintSteps
  <2>2. /\ item_global_lock' \in Workers => op'[item_global_lock'] \in KeyOps
        /\ \A k \in Keys : item_locks'[k] # Free
              => op'[item_locks'[k]] \in KeyOps /\ op'[item_locks'[k]].key = k
        /\ HolderInv'
    BY <1>1, <1>2, <1>6, <2>1, StageFrame
  <2> QED
    BY <1>1, <1>2, <1>5, <1>6, <1>7, <2>2, ZenonT(60) DEF TypeOK, lockvars, slabvars
<1>9. RegistrationInv' /\ Registered' = Registered
  BY <1>2, <1>5, RegistrationFrame DEF IInv, Switching
<1>10. LockTypeInv'
  BY <1>2, <1>5, <1>7, <1>9, LockTypeFrame DEF IInv
<1>11. TableInv'
  <2>1. TableInv
    BY DEF IInv
  <2> QED
    BY <1>4, <1>5, <1>7, <2>1 DEF TableInv, InAssocExpand, MayExpand
<1>12. RebalanceInv'
  BY <1>2, <1>4, <1>5, <1>7, RebalanceFrame DEF IInv, InAssocExpand
<1> QED
  BY <1>8, <1>9, <1>10, <1>11, <1>12 DEF IInv

\* A worker gives back the lock of its type: it has not changed its type since
\* it took the lock.
LEMMA FinishInv ==
  ASSUME IInv, NEW w \in Workers, Finish(w)
  PROVE  IInv'
<1>1. TypeOK /\ InOp(w)
  BY DEF IInv, Finish, InOp
<1>2. /\ UNCHANGED <<main, listening, allow_new_conns, timer, last_thread, conn, cq, pipe,
                     item_lock_type, ops, cache_lock, init_count, table, started_expanding,
                     maint, slabvars>>
      /\ ItemUnlock(w, op[w].key)
      /\ op' = [op EXCEPT ![w] = NoOp]
  BY DEF Finish, acceptvars, expandvars
<1>3. op[w] \in KeyOps /\ op[w].key \in Keys
  BY <1>1, OpFacts
<1>4. /\ op'[w] = NoOp
      /\ \A v \in Workers : v # w => op'[v] = op[v]
      /\ op' \in [Workers -> CloseOps \cup KeyOps \cup {NoOp}]
  BY <1>1, <1>2 DEF TypeOK
<1>5. \/ /\ item_lock_type[w] = "GRANULAR" /\ item_locks[op[w].key] = w
         /\ item_global_lock # w
         /\ item_locks' = [item_locks EXCEPT ![op[w].key] = Free]
         /\ item_global_lock' = item_global_lock
      \/ /\ item_lock_type[w] # "GRANULAR" /\ item_global_lock = w
         /\ \A k \in Keys : item_locks[k] # w
         /\ item_global_lock' = Free /\ item_locks' = item_locks
  <2>1. w # Free
    BY NobodyAssumption
  <2> QED
    BY <1>1, <1>2, <2>1 DEF ItemUnlock, IInv, HolderInv
<1>6. item_locks \in [Keys -> Workers \cup {Free}] /\ item_locks' \in [Keys -> Workers \cup {Free}]
  BY <1>1, <1>5 DEF TypeOK
<1>7. \A k \in Keys : item_locks'[k] # Free => item_locks'[k] = item_locks[k] /\ item_locks'[k] # w
  BY <1>1, <1>5, <1>6 DEF TypeOK
<1>8. TypeOK'
  <2>1. item_global_lock' \in Workers \cup {Maint, Free}
    BY <1>1, <1>5 DEF TypeOK
  <2>2. item_global_lock' \in Workers => op'[item_global_lock'] \in KeyOps
    BY <1>1, <1>4, <1>5, NobodyAssumption DEF TypeOK
  <2>3. \A j \in Keys : item_locks'[j] # Free
           => op'[item_locks'[j]] \in KeyOps /\ op'[item_locks'[j]].key = j
    BY <1>1, <1>4, <1>6, <1>7 DEF TypeOK
  <2> QED
    BY <1>1, <1>2, <1>4, <1>6, <2>1, <2>2, <2>3 DEF TypeOK, slabvars
<1>9. HolderInv'
  <2>1. ~InOp(w)' /\ \A v \in Workers : v # w => InOp(v)' = InOp(v) /\ op'[v] = op[v]
    BY <1>4 DEF InOp
  <2>2. \A v \in Workers : InOp(v)' =>
          IF item_lock_type'[v] = "GRANULAR" THEN item_locks'[op'[v].key] = v
          ELSE item_global_lock' = v
    <3> SUFFICES ASSUME NEW v \in Workers, InOp(v)'
                 PROVE  IF item_lock_type[v] = "GRANULAR" THEN item_locks'[op'[v].key] = v
                        ELSE item_global_lock' = v
      BY <1>2
    <3>1. v # w /\ InOp(v) /\ op'[v] = op[v]
      BY <2>1
    <3>2. op[v].key \in Keys
      BY <1>1, <3>1, OpFacts
    <3>3. IF item_lock_type[v] = "GRANULAR" THEN item_locks[op[v].key] = v
          ELSE item_global_lock = v
      BY <3>1 DEF IInv, HolderInv
    <3> QED
      BY <1>5, <1>6, <3>1, <3>2, <3>3
  <2>3. \A v \in Workers : item_global_lock' = v => item_lock_type[v] = "GLOBAL"
    BY <1>5, NobodyAssumption DEF IInv, HolderInv
  <2>4. \A j \in Keys : item_locks'[j] # Free => item_lock_type[item_locks'[j]] = "GRANULAR"
    BY <1>7 DEF IInv, HolderInv
  <2>5. item_global_lock' = Maint <=> item_global_lock = Maint
    BY <1>5, NobodyAssumption
  <2> QED
    BY <1>2, <2>2, <2>3, <2>4, <2>5 DEF IInv, HolderInv, InAssocExpand
<1>10. RegistrationInv' /\ LockTypeInv' /\ TableInv' /\ RebalanceInv'
  BY <1>2, RegistrationFrame, LockTypeFrame, TableFrame, RebalanceFrame DEF IInv
<1> QED
  BY <1>8, <1>9, <1>10 DEF IInv


-----------------------------------------------------------------------------
\* switch_item_lock_type() tells everybody, and nobody is left from before.
LEMMA SwitchFacts ==
  ASSUME TypeOK, RegistrationInv, LockTypeInv, ~Switching, Switching',
         SwitchItemLockType(SwitchByte'), SwitchByte' \in {"g", "l"}, UNCHANGED item_lock_type
  PROVE  /\ pipe' \in [Workers -> Seq({"c", "g", "l"})] /\ init_count' \in 0..NumThreads
         /\ RegistrationInv' /\ LockTypeInv'
<1>1. \A w \in Workers : Told(w) = {}
  BY DEF RegistrationInv
<1>2. init_count' = 0 /\ pipe' = [w \in Workers |-> Append(pipe[w], SwitchByte')]
  BY DEF SwitchItemLockType
<1>3. \A w \in Workers : pipe[w] \in Seq({"c", "g", "l"})
  BY DEF TypeOK
<1>4. \A w \in Workers : /\ pipe'[w] \in Seq({"c", "g", "l"})
                         /\ Told(w)' = {Len(pipe[w]) + 1}
                         /\ pipe'[w][Len(pipe[w]) + 1] = SwitchByte'
  <2> SUFFICES ASSUME NEW w \in Workers
               PROVE  /\ pipe'[w] \in Seq({"c", "g", "l"})
                      /\ Told(w)' = {Len(pipe[w]) + 1}
                      /\ pipe'[w][Len(pipe[w]) + 1] = SwitchByte'
    OBVIOUS
  <2>1. pipe'[w] = Append(pipe[w], SwitchByte') /\ pipe[w] \in Seq({"c", "g", "l"})
    BY <1>2, <1>3
  <2>2. /\ pipe'[w] \in Seq({"c", "g", "l"})
        /\ pipe'[w][Len(pipe[w]) + 1] = SwitchByte'
        /\ \A i \in 1..Len(pipe[w]) : pipe'[w][i] = pipe[w][i]
        /\ DOMAIN pipe[w] = 1..Len(pipe[w]) /\ DOMAIN pipe'[w] = 1..(Len(pipe[w]) + 1)
        /\ Len(pipe[w]) \in Nat
    BY <2>1
  <2>3. \A i \in 1..Len(pipe[w]) : pipe[w][i] = "c"
    BY <1>1, <2>2 DEF Told
  <2> QED
    BY <2>2, <2>3 DEF Told
<1>5. Registered' = {}
  BY <1>4 DEF Registered
<1>6. pipe' \in [Workers -> Seq({"c", "g", "l"})] /\ init_count' \in 0..NumThreads
  BY <1>2, <1>4, WorkersFinite
<1>7. RegistrationInv'
  BY <1>2, <1>4, <1>5, FS_EmptySet DEF RegistrationInv
<1>8. LockTypeInv'
  BY <1>5 DEF LockTypeInv
<1> QED
  BY <1>6, <1>7, <1>8

\* The maintenance thread takes the global item lock, then cache_lock.
LEMMA MoverLocksInv ==
  ASSUME IInv, LockGlobal \/ LockCache
  PROVE  IInv'
<1>1. TypeOK /\ ~InAssocExpand /\ ~InAssocExpand' /\ ~Switching /\ ~Switching'
  BY DEF IInv, LockGlobal, LockCache, InAssocExpand, Switching
<1>2. /\ UNCHANGED <<main, listening, allow_new_conns, timer, last_thread, conn, cq, pipe,
                     item_lock_type, op, ops, item_locks, init_count, table, started_expanding,
                     slabvars>>
      /\ \/ /\ maint = "loop" /\ maint' = "global" /\ cache_lock' = cache_lock
            /\ item_global_lock = Free /\ item_global_lock' = Maint
         \/ /\ maint = "global" /\ maint' = "locked" /\ cache_lock' = Maint
            /\ item_global_lock' = item_global_lock
  BY DEF LockGlobal, LockCache, ItemLockGlobal, acceptvars
<1>3. TypeOK'
  <2>1. maint' \in MaintSteps /\ cache_lock' \in {Maint, Free}
        /\ item_global_lock' \in Workers \cup {Maint, Free}
    BY <1>1, <1>2 DEF TypeOK, MaintSteps
  <2>2. item_global_lock' \in Workers => op[item_global_lock'] \in KeyOps
    BY <1>1, <1>2, NobodyAssumption DEF TypeOK
  <2> QED
    BY <1>1, <1>2, <2>1, <2>2 DEF TypeOK, slabvars
<1>4. RegistrationInv' /\ Registered' = Registered
  BY <1>1, <1>2, RegistrationFrame DEF IInv
<1>5. LockTypeInv'
  BY <1>2, <1>4, LockTypeFrame DEF IInv
<1>6. HolderInv'
  BY <1>1, <1>2, NobodyAssumption DEF IInv, HolderInv, InOp, InAssocExpand
<1>7. TableInv'
  BY <1>1, <1>2 DEF IInv, TableInv, InAssocExpand, MayExpand
<1>8. RebalanceInv'
  BY <1>1, <1>2, RebalanceFrame DEF IInv
<1> QED
  BY <1>3, <1>4, <1>5, <1>6, <1>7, <1>8 DEF IInv

\* The keys of bucket expand_bucket go over; after the last bucket of the old
\* table none is left in it.
LEMMA MoveBucketFacts ==
  ASSUME TypeOK, TableInv, maint = "locked", table.expanding, table' = MoveBucket(table)
  PROVE  /\ table' \in Tables /\ table'.hashpower = table.hashpower
         /\ IF table'.expanding
            THEN /\ \A k \in table'.old :
                       Bucket(k, table'.hashpower - 1) >= table'.expand_bucket
                 /\ \A k \in table'.primary :
                       Bucket(k, table'.hashpower - 1) < table'.expand_bucket
            ELSE table'.old = {}
<1>1. table \in Tables
  BY DEF TypeOK
<1> DEFINE n == table.hashpower - 1
           b == table.expand_bucket
           moved == {k \in table.old : Bucket(k, n) = b}
<1>2. n \in Nat /\ b \in Nat /\ 2^n \in Nat
  <2>1. n \in Nat /\ b \in Nat
    BY <1>1, WorkerThreadsAssumption DEF Tables, TableInv
  <2> QED
    BY <2>1, HashsizePositive
<1>3. \A k \in table.old \cup table.primary : Bucket(k, n) \in Nat /\ Bucket(k, n) < 2^n
  BY <1>1, <1>2, BucketType DEF Tables
<1>4. /\ \A k \in table.old : Bucket(k, n) >= b
      /\ \A k \in table.primary : Bucket(k, n) < b
  BY DEF TableInv, InAssocExpand
<1>5. /\ table'.old = table.old \ moved /\ table'.primary = table.primary \cup moved
      /\ table'.expand_bucket = b + 1 /\ table'.hashpower = table.hashpower
      /\ table'.expanding = (b + 1 # 2^n)
  BY <1>1 DEF Tables, MoveBucket
<1>6. table' \in Tables
  <2> DEFINE more == b + 1 # 2^n
             next == b + 1
  <2>1. table' = [table EXCEPT !.old = table.old \ moved, !.primary = table.primary \cup moved,
                               !.expand_bucket = next, !.expanding = more]
    BY <1>1 DEF MoveBucket, Tables
  <2>2. moved \subseteq Keys /\ more \in BOOLEAN /\ next \in Nat
    BY <1>1, <1>2 DEF Tables
  <2> HIDE DEF moved, n, more, next, b
  <2> QED
    BY <1>1, <2>1, <2>2 DEF Tables
<1>7. \A k \in table.old \ moved : Bucket(k, n) >= b + 1
  BY <1>2, <1>3, <1>4
<1>8. \A k \in table.primary \cup moved : Bucket(k, n) < b + 1
  BY <1>2, <1>3, <1>4
<1>9. b + 1 = 2^n => table.old \ moved = {}
  BY <1>2, <1>3, <1>7
<1> HIDE DEF n, moved, b
<1>10. CASE b + 1 = 2^n
  BY <1>5, <1>6, <1>9, <1>10
<1>11. CASE b + 1 # 2^n
  BY <1>5, <1>6, <1>7, <1>8, <1>11 DEF n
<1> QED
  BY <1>10, <1>11

\* A bucket is moved, and both locks are given back.
LEMMA MoveAndUnlockInv ==
  ASSUME IInv, MoveAndUnlock
  PROVE  IInv'
<1>1. /\ TypeOK /\ TableInv /\ ~InAssocExpand /\ ~InAssocExpand'
      /\ ~Switching /\ ~Switching'
  BY DEF IInv, MoveAndUnlock, InAssocExpand, Switching
<1>2. /\ UNCHANGED <<main, listening, allow_new_conns, timer, last_thread, conn, cq, pipe,
                     item_lock_type, op, ops, item_locks, init_count, started_expanding,
                     slabvars>>
      /\ maint = "locked" /\ maint' = "check"
      /\ table' = IF table.expanding THEN MoveBucket(table) ELSE table
      /\ cache_lock' = Free /\ item_global_lock' = Free
  BY DEF MoveAndUnlock, ItemUnlockGlobal, acceptvars
<1>3. /\ table' \in Tables /\ table'.hashpower = table.hashpower
      /\ table'.expanding => table.expanding
      /\ IF table'.expanding
         THEN /\ \A k \in table'.old :
                    Bucket(k, table'.hashpower - 1) >= table'.expand_bucket
              /\ \A k \in table'.primary :
                    Bucket(k, table'.hashpower - 1) < table'.expand_bucket
         ELSE table'.old = {}
  <2>1. CASE table.expanding
    BY <1>1, <1>2, <2>1, MoveBucketFacts
  <2>2. CASE ~table.expanding
    BY <1>1, <1>2, <2>2 DEF TypeOK, TableInv
  <2> QED
    BY <2>1, <2>2
<1>4. item_global_lock = Maint
  BY <1>2 DEF IInv, HolderInv
<1>5. TypeOK'
  <2>1. maint' \in MaintSteps /\ Free \notin Workers
    BY <1>2, NobodyAssumption DEF MaintSteps
  <2> QED
    BY <1>1, <1>2, <1>3, <2>1 DEF TypeOK, slabvars
<1>6. RegistrationInv' /\ Registered' = Registered
  BY <1>1, <1>2, RegistrationFrame DEF IInv
<1>7. LockTypeInv'
  BY <1>2, <1>3, <1>6, LockTypeFrame DEF IInv
<1>8. HolderInv'
  BY <1>1, <1>2, <1>4, NobodyAssumption DEF IInv, HolderInv, InOp, InAssocExpand
<1>9. TableInv'
  BY <1>1, <1>2, <1>3 DEF TableInv, InAssocExpand, MayExpand
<1>10. RebalanceInv'
  BY <1>1, <1>2, <1>3, RebalanceFrame DEF IInv
<1> QED
  BY <1>5, <1>6, <1>7, <1>8, <1>9, <1>10 DEF IInv

\* The thread goes round its loop, or has the workers change back.
LEMMA CheckInv ==
  ASSUME IInv, Check
  PROVE  IInv'
<1>1. /\ TypeOK /\ RegistrationInv /\ LockTypeInv /\ ~InAssocExpand /\ ~InAssocExpand'
      /\ ~Switching /\ maint = "check"
      /\ maint' \in {"loop", "granular"}
      /\ UNCHANGED <<main, listening, allow_new_conns, timer, last_thread, conn, cq,
                     item_lock_type, op, ops, lockvars, table, started_expanding, slabvars>>
  BY DEF IInv, Check, InAssocExpand, Switching, acceptvars
<1>2. /\ pipe' \in [Workers -> Seq({"c", "g", "l"})] /\ init_count' \in 0..NumThreads
      /\ RegistrationInv' /\ LockTypeInv'
  <2>1. CASE table.expanding
    <3>1. maint' = "loop" /\ UNCHANGED <<pipe, init_count>>
      BY <2>1 DEF Check
    <3>2. RegistrationInv' /\ Registered' = Registered
      BY <1>1, <3>1, RegistrationFrame
    <3>3. LockTypeInv'
      BY <1>1, <3>1, <3>2, LockTypeFrame
    <3> QED
      BY <1>1, <3>1, <3>2, <3>3 DEF TypeOK
  <2>2. CASE ~table.expanding
    <3>1. maint' = "granular" /\ SwitchItemLockType("l")
      BY <2>2 DEF Check
    <3>2. Switching' /\ SwitchByte' = "l"
      BY <3>1 DEF Switching, SwitchByte
    <3> QED
      BY <1>1, <3>1, <3>2, SwitchFacts
  <2> QED
    BY <2>1, <2>2
<1>3. TypeOK'
  BY <1>1, <1>2 DEF TypeOK, MaintSteps, lockvars, slabvars
<1>4. HolderInv'
  BY <1>1 DEF IInv, HolderInv, InOp, InAssocExpand, lockvars
<1>5. TableInv'
  <2>1. table.expanding => maint' = "loop"
    BY DEF Check
  <2> QED
    BY <1>1, <2>1 DEF IInv, TableInv, InAssocExpand, MayExpand
<1>6. RebalanceInv'
  BY <1>1, RebalanceFrame DEF IInv
<1> QED
  BY <1>2, <1>3, <1>4, <1>5, <1>6 DEF IInv


\* When everybody has reported in, the rebalancer is let go; a mutex that the
\* thread did not hold is unlocked all the same.
LEMMA ResumeInv ==
  ASSUME IInv, Resume
  PROVE  IInv'
<1>1. TypeOK /\ RegistrationInv /\ maint = "granular" /\ maint' = "resumed" /\ ThreadsRegistered
  BY DEF IInv, Resume
<1>2. /\ UNCHANGED <<main, listening, allow_new_conns, timer, last_thread, conn, cq, pipe,
                     item_lock_type, op, ops, lockvars, init_count, table, started_expanding,
                     rebalance>>
      /\ slabs_rebalance_lock' = Free
      /\ resumed_early' = (resumed_early \/ slabs_rebalance_lock = "rebalancer")
  BY DEF Resume, acceptvars
<1>3. Registered = Workers /\ init_count = NumThreads
  BY <1>1, NobodyTold
<1>4. \A w \in Workers : Told(w) = {} /\ Told(w)' = {}
  BY <1>2, <1>3 DEF Registered, Told
<1>5. Registered' = Workers
  BY <1>4 DEF Registered
<1>6. TypeOK'
  <2>1. resumed_early' \in BOOLEAN /\ maint' \in MaintSteps
    BY <1>1, <1>2 DEF TypeOK, MaintSteps
  <2> QED
    BY <1>1, <1>2, <2>1 DEF TypeOK, lockvars
<1>7. RegistrationInv'
  BY <1>1, <1>2, <1>3, <1>4, <1>5 DEF RegistrationInv
<1>8. LockTypeInv'
  <2>1. \A w \in Workers : item_lock_type[w] = "GRANULAR"
    BY <1>1, <1>3 DEF IInv, LockTypeInv
  <2>2. ~table.expanding /\ ~InAssocExpand'
    BY <1>1 DEF IInv, TableInv, InAssocExpand
  <2> QED
    BY <1>1, <1>2, <1>5, <2>1, <2>2 DEF LockTypeInv
<1>9. HolderInv'
  BY <1>1, <1>2 DEF IInv, HolderInv, InOp, InAssocExpand, lockvars
<1>10. TableInv'
  BY <1>1, <1>2 DEF IInv, TableInv, InAssocExpand, MayExpand
<1>11. RebalanceInv'
  <2>1. ~table.expanding
    BY <1>1 DEF IInv, TableInv
  <2>2. resumed_early' = FALSE => rebalance # "run"
    BY <1>1, <1>2 DEF IInv, RebalanceInv, TypeOK
  <2> QED
    BY <1>1, <1>2, <2>1, <2>2, NobodyAssumption DEF RebalanceInv, InAssocExpand
<1> QED
  BY <1>6, <1>7, <1>8, <1>9, <1>10, <1>11 DEF IInv

\* The thread waits to be told to expand, and wakes.
LEMMA WaitInv ==
  ASSUME IInv, Sleep \/ WakeSpuriously
  PROVE  IInv'
<1>1. /\ TypeOK /\ ~InAssocExpand /\ ~InAssocExpand' /\ ~Switching /\ ~Switching'
      /\ \/ maint = "resumed" /\ maint' = "wait"
         \/ maint = "wait" /\ maint' = "woken" /\ MayExpand
      /\ started_expanding' \in BOOLEAN
      /\ UNCHANGED <<main, listening, allow_new_conns, timer, last_thread, conn, cq, pipe,
                     item_lock_type, op, ops, lockvars, init_count, table, slabvars>>
  BY DEF IInv, Sleep, WakeSpuriously, InAssocExpand, Switching, acceptvars, TypeOK
<1>2. TypeOK'
  BY <1>1 DEF TypeOK, MaintSteps, lockvars, slabvars
<1>3. RegistrationInv' /\ Registered' = Registered
  BY <1>1, RegistrationFrame DEF IInv
<1>4. LockTypeInv'
  BY <1>1, <1>3, LockTypeFrame DEF IInv
<1>5. HolderInv'
  BY <1>1 DEF IInv, HolderInv, InOp, InAssocExpand, lockvars
<1>6. TableInv'
  BY <1>1 DEF IInv, TableInv, InAssocExpand, MayExpand
<1>7. RebalanceInv'
  BY <1>1, RebalanceFrame DEF IInv
<1> QED
  BY <1>2, <1>3, <1>4, <1>5, <1>6, <1>7 DEF IInv

\* slabs_rebalancer_pause() waits for a rebalance in progress.
LEMMA PauseInv ==
  ASSUME IInv, Pause
  PROVE  IInv'
<1>1. /\ TypeOK /\ ~InAssocExpand /\ ~InAssocExpand' /\ ~Switching /\ ~Switching'
      /\ maint = "woken" /\ maint' = "paused"
      /\ slabs_rebalance_lock = Free /\ slabs_rebalance_lock' = "maint"
      /\ UNCHANGED <<main, listening, allow_new_conns, timer, last_thread, conn, cq, pipe,
                     item_lock_type, op, ops, lockvars, init_count, table, started_expanding,
                     rebalance, resumed_early>>
  BY DEF IInv, Pause, InAssocExpand, Switching, acceptvars
<1>2. TypeOK'
  BY <1>1 DEF TypeOK, MaintSteps, lockvars
<1>3. RegistrationInv' /\ Registered' = Registered
  BY <1>1, RegistrationFrame DEF IInv
<1>4. LockTypeInv'
  BY <1>1, <1>3, LockTypeFrame DEF IInv
<1>5. HolderInv'
  BY <1>1 DEF IInv, HolderInv, InOp, InAssocExpand, lockvars
<1>6. TableInv'
  BY <1>1 DEF IInv, TableInv, InAssocExpand, MayExpand
<1>7. RebalanceInv'
  BY <1>1, NobodyAssumption DEF IInv, RebalanceInv
<1> QED
  BY <1>2, <1>3, <1>4, <1>5, <1>6, <1>7 DEF IInv

\* The workers are told to take the global lock from now on.
LEMMA SwitchToGlobalInv ==
  ASSUME IInv, SwitchToGlobal
  PROVE  IInv'
<1>1. /\ TypeOK /\ RegistrationInv /\ LockTypeInv /\ ~Switching
      /\ maint = "paused" /\ maint' = "globalled" /\ SwitchItemLockType("g")
      /\ UNCHANGED <<main, listening, allow_new_conns, timer, last_thread, conn, cq,
                     item_lock_type, op, ops, lockvars, table, started_expanding, slabvars>>
  BY DEF IInv, SwitchToGlobal, Switching, acceptvars
<1>2. Switching' /\ SwitchByte' = "g"
  BY <1>1 DEF Switching, SwitchByte
<1>3. /\ pipe' \in [Workers -> Seq({"c", "g", "l"})] /\ init_count' \in 0..NumThreads
      /\ RegistrationInv' /\ LockTypeInv'
  BY <1>1, <1>2, SwitchFacts
<1>4. TypeOK'
  BY <1>1, <1>3 DEF TypeOK, MaintSteps, lockvars, slabvars
<1>5. HolderInv'
  BY <1>1 DEF IInv, HolderInv, InOp, InAssocExpand, lockvars
<1>6. TableInv'
  BY <1>1 DEF IInv, TableInv, InAssocExpand, MayExpand
<1>7. RebalanceInv'
  BY <1>1 DEF IInv, RebalanceInv, InAssocExpand, slabvars
<1> QED
  BY <1>3, <1>4, <1>5, <1>6, <1>7 DEF IInv

\* assoc_expand() begins when every worker has gone over to the global lock.
LEMMA BeginExpandInv ==
  ASSUME IInv, BeginExpand
  PROVE  IInv'
<1>1. /\ TypeOK /\ RegistrationInv /\ ThreadsRegistered /\ ~InAssocExpand /\ ~Switching'
      /\ maint = "globalled" /\ cache_lock = Free /\ maint' \in {"swapped", "failed"}
      /\ UNCHANGED <<main, listening, allow_new_conns, timer, last_thread, conn, cq, pipe,
                     item_lock_type, op, ops, item_locks, item_global_lock, init_count,
                     started_expanding, slabvars>>
      /\ cache_lock' = Maint
      /\ table' = [table EXCEPT !.old = table.primary, !.primary = {}]
  BY DEF IInv, BeginExpand, InAssocExpand, Switching, acceptvars
<1>2. Registered = Workers /\ init_count = NumThreads
  BY <1>1, NobodyTold
<1>3. \A w \in Workers : Told(w) = {} /\ Told(w)' = {}
  BY <1>1, <1>2 DEF Registered, Told
<1>4. Registered' = Workers
  BY <1>3 DEF Registered
<1>5. /\ table' \in Tables /\ table'.expanding = table.expanding
      /\ table'.hashpower = table.hashpower
      /\ ~table.expanding /\ table.old = {}
      /\ table'.primary = {}
  <2>1. table \in Tables
    BY <1>1 DEF TypeOK
  <2>2. ~table.expanding /\ table.old = {}
    BY <1>1 DEF IInv, TableInv
  <2> QED
    BY <1>1, <2>1, <2>2 DEF Tables
<1>6. TypeOK'
  <2>1. maint' \in MaintSteps /\ cache_lock' \in {Maint, Free}
    BY <1>1 DEF MaintSteps
  <2> QED
    BY <1>1, <1>5, <2>1 DEF TypeOK, slabvars
<1>7. RegistrationInv'
  BY <1>1, <1>2, <1>3, <1>4 DEF RegistrationInv
<1>8. LockTypeInv'
  <2>1. \A w \in Workers : item_lock_type[w] = "GLOBAL"
    BY <1>1, <1>2 DEF IInv, LockTypeInv
  <2> QED
    BY <1>1, <1>4, <1>5, <2>1 DEF LockTypeInv
<1>9. HolderInv'
  BY <1>1, NobodyAssumption DEF IInv, HolderInv, InOp, InAssocExpand
<1>10. TableInv'
  BY <1>1, <1>5 DEF IInv, TableInv, InAssocExpand, MayExpand
<1>11. RebalanceInv'
  BY <1>1, <1>5 DEF IInv, RebalanceInv, InAssocExpand, slabvars
<1> QED
  BY <1>6, <1>7, <1>8, <1>9, <1>10, <1>11 DEF IInv

\* The rest of assoc_expand(), assignment by assignment.
LEMMA ExpandInv ==
  ASSUME IInv, Expand
  PROVE  IInv'
<1>1. /\ TypeOK /\ InAssocExpand /\ cache_lock = Maint /\ ~Switching /\ ~Switching'
      /\ UNCHANGED <<main, listening, allow_new_conns, timer, last_thread, conn, cq, pipe,
                     item_lock_type, op, ops, item_locks, item_global_lock, init_count,
                     started_expanding, slabvars>>
      /\ \/ /\ maint = "swapped" /\ maint' = "grown" /\ cache_lock' = cache_lock
            /\ table' = [table EXCEPT !.hashpower = @ + 1]
         \/ /\ maint = "grown" /\ maint' = "flagged" /\ cache_lock' = cache_lock
            /\ table' = [table EXCEPT !.expanding = TRUE]
         \/ /\ maint = "flagged" /\ maint' = "loop" /\ cache_lock' = Free
            /\ table' = [table EXCEPT !.expand_bucket = 0]
         \/ /\ maint = "failed" /\ maint' = "loop" /\ cache_lock' = Free
            /\ table' = [table EXCEPT !.primary = table.old, !.old = {}]
  BY DEF IInv, Expand, InAssocExpand, Switching, HolderInv, acceptvars
<1>2. /\ table \in Tables /\ table.primary = {}
      /\ maint = "swapped" => table.hashpower < InitialPower + MaxExpansions /\ ~table.expanding
      /\ maint = "grown" => table.hashpower > InitialPower /\ ~table.expanding
      /\ maint = "flagged" => table.expanding /\ table.hashpower > InitialPower
      /\ maint = "failed" => ~table.expanding
  BY <1>1 DEF IInv, TypeOK, TableInv, MayExpand
<1>3. /\ table' \in Tables
      /\ IF maint = "failed" THEN ~table'.expanding /\ table'.old = {}
         ELSE /\ table'.primary = {}
              /\ maint' = "grown" => table'.hashpower > InitialPower /\ ~table'.expanding
              /\ maint' # "grown" => table'.expanding /\ table'.hashpower > InitialPower
              /\ maint' = "loop" => table'.expand_bucket = 0
  <2>1. CASE maint = "swapped"
    <3>1. /\ table.hashpower \in Nat /\ table.hashpower >= InitialPower
          /\ InitialPower \in Nat /\ MaxExpansions \in Nat
      BY <1>2, WorkerThreadsAssumption DEF Tables
    <3>2. /\ table.hashpower + 1 \in InitialPower..(InitialPower + MaxExpansions)
          /\ table.hashpower + 1 > InitialPower
      BY <1>2, <2>1, <3>1
    <3>3. maint' = "grown" /\ table' = [table EXCEPT !.hashpower = table.hashpower + 1]
      BY <1>1, <2>1
    <3>4. /\ table'.hashpower = table.hashpower + 1 /\ table'.primary = table.primary
          /\ table'.expanding = table.expanding
      BY <1>2, <3>3 DEF Tables
    <3>5. table' \in Tables
      BY <1>2, <3>2, <3>3 DEF Tables
    <3> QED
      BY <1>2, <2>1, <3>2, <3>3, <3>4, <3>5
  <2>2. CASE maint = "grown"
    <3>1. maint' = "flagged" /\ table' = [table EXCEPT !.expanding = TRUE]
      BY <1>1, <2>2
    <3> QED
      BY <1>2, <2>2, <3>1 DEF Tables
  <2>3. CASE maint = "flagged"
    <3>1. maint' = "loop" /\ table' = [table EXCEPT !.expand_bucket = 0]
      BY <1>1, <2>3
    <3> QED
      BY <1>2, <2>3, <3>1 DEF Tables
  <2>4. CASE maint = "failed"
    <3>1. table' = [table EXCEPT !.primary = table.old, !.old = {}]
      BY <1>1, <2>4
    <3> QED
      BY <1>2, <2>4, <3>1 DEF Tables
  <2> QED
    BY <1>1, <2>1, <2>2, <2>3, <2>4
<1>4. TypeOK'
  <2>1. maint' \in MaintSteps /\ cache_lock' \in {Maint, Free}
    BY <1>1 DEF MaintSteps
  <2> QED
    BY <1>1, <1>3, <2>1 DEF TypeOK, slabvars
<1>5. RegistrationInv' /\ Registered' = Registered
  BY <1>1, RegistrationFrame DEF IInv
<1>6. LockTypeInv'
  BY <1>1, <1>5 DEF IInv, LockTypeInv, InAssocExpand, Switching
<1>7. HolderInv'
  BY <1>1, NobodyAssumption DEF IInv, HolderInv, InOp, InAssocExpand
<1>8. TableInv'
  <2>1. maint' = "loop" /\ maint # "failed" =>
          /\ \A k \in table'.old : Bucket(k, table'.hashpower - 1) >= table'.expand_bucket
          /\ \A k \in table'.primary : Bucket(k, table'.hashpower - 1) < table'.expand_bucket
    <3> SUFFICES ASSUME maint' = "loop", maint # "failed", NEW k \in table'.old
                 PROVE  Bucket(k, table'.hashpower - 1) >= 0
      BY <1>3
    <3>1. k \in Keys /\ table'.hashpower - 1 \in Nat
      BY <1>3, WorkerThreadsAssumption DEF Tables
    <3> QED
      BY <3>1, BucketType
  <2> QED
    BY <1>1, <1>3, <2>1 DEF TableInv, InAssocExpand, MayExpand
<1>9. RebalanceInv'
  BY <1>1 DEF IInv, RebalanceInv, InAssocExpand, slabvars
<1> QED
  BY <1>4, <1>5, <1>6, <1>7, <1>8, <1>9 DEF IInv

\* The rebalancer begins with its lock and ends without it.
LEMMA RebalancerInv ==
  ASSUME IInv, RebalanceRun \/ RebalanceEnd
  PROVE  IInv'
<1>1. /\ TypeOK
      /\ UNCHANGED <<main, listening, allow_new_conns, timer, last_thread, conn, cq, pipe,
                     item_lock_type, op, ops, lockvars, init_count, table, started_expanding,
                     maint, resumed_early>>
      /\ \/ /\ rebalance' = "run" /\ slabs_rebalance_lock = Free
            /\ slabs_rebalance_lock' = "rebalancer"
         \/ /\ rebalance = "run" /\ rebalance' = "wait" /\ slabs_rebalance_lock' = Free
  BY DEF IInv, RebalanceRun, RebalanceEnd, acceptvars, expandvars
<1>2. TypeOK'
  BY <1>1 DEF TypeOK, lockvars
<1>3. RegistrationInv' /\ LockTypeInv' /\ HolderInv' /\ TableInv'
  BY <1>1, RegistrationFrame, LockTypeFrame, HolderFrame, TableFrame DEF IInv
<1>4. RebalanceInv'
  BY <1>1, NobodyAssumption DEF IInv, RebalanceInv, InAssocExpand
<1> QED
  BY <1>2, <1>3, <1>4 DEF IInv

-----------------------------------------------------------------------------
\* Every step of every thread keeps the invariant.
LEMMA NextInv ==
  ASSUME IInv, [Next]_vars
  PROVE  IInv'
<1>1. ASSUME MainThread
      PROVE  IInv'
  BY <1>1, AcceptConnInv, NotifyInv, MainFlagsInv DEF MainThread
<1>2. ASSUME NEW w \in Workers, Worker(w) \/ ClientsOf(w)
      PROVE  IInv'
  <2>1. CASE LibeventProcess(w)
    BY <2>1, PopConnInv, FlipLockTypeInv DEF LibeventProcess
  <2>2. CASE CloseAllow(w) \/ Look(w) \/ Change(w) \/ Finish(w)
    BY <2>2, CloseAllowInv, LookInv, ChangeInv, FinishInv
  <2>3. CASE ClientsOf(w)
    BY <2>3, BeginInv, CloseSocketInv DEF ClientsOf
  <2> QED
    BY <1>2, <2>1, <2>2, <2>3 DEF Worker
<1>3. ASSUME MaintenanceThread \/ WakeSpuriously
      PROVE  IInv'
  BY <1>3, MoverLocksInv, MoveAndUnlockInv, CheckInv, ResumeInv, WaitInv, PauseInv,
     SwitchToGlobalInv, BeginExpandInv, ExpandInv DEF MaintenanceThread
<1>4. ASSUME UNCHANGED vars
      PROVE  IInv'
  <2>1. TypeOK'
    BY <1>4 DEF IInv, TypeOK, vars, acceptvars, lockvars, expandvars, slabvars
  <2> QED
    BY <1>4, <2>1, CoreFrame DEF vars, expandvars
<1> QED
  BY <1>1, <1>2, <1>3, <1>4, RebalancerInv DEF Next

\* The inductive invariant holds always.
LEMMA Invariant == Spec => []IInv
BY InitInv, NextInv, PTL DEF Spec

\* The type invariant, whatever the number of threads, keys and connections.
THEOREM TypeCorrect == Spec => []TypeOK
<1>1. IInv => TypeOK
  BY DEF IInv
<1> QED
  BY <1>1, Invariant, PTL

\* assoc_maintenance_thread() moves a bucket only while no worker is between
\* item_lock() and item_unlock(): all of them take the global lock by then.
THEOREM MoverExclusiveAlways == Spec => []MoverExclusive
<1>1. IInv => MoverExclusive
  <2> SUFFICES ASSUME IInv, maint = "locked", table.expanding, NEW w \in Workers, InOp(w)
               PROVE  FALSE
    BY DEF MoverExclusive
  <2>1. item_global_lock = Maint
    BY DEF IInv, HolderInv
  <2>2. w \in Registered
    BY NobodyTold DEF IInv, Switching
  <2>3. item_lock_type[w] = "GLOBAL"
    BY <2>2 DEF IInv, LockTypeInv
  <2> QED
    BY <2>1, <2>3, NobodyAssumption DEF IInv, HolderInv
<1> QED
  BY <1>1, Invariant, PTL

\* assoc_find() looks for a linked key in the table where it is, except while
\* assoc_expand() exchanges the tables.
THEOREM LinkedFindableAlways == Spec => []LinkedFindable
<1>1. IInv => LinkedFindable
  <2> SUFFICES ASSUME IInv, ~InAssocExpand, NEW k \in table.old \cup table.primary
               PROVE  k \in Where(table, k)
    BY DEF LinkedFindable, InAssocExpand
  <2>1. table \in Tables /\ k \in Keys
    BY DEF IInv, TypeOK, Tables
  <2>2. CASE table.expanding
    <3>1. table.hashpower - 1 \in Nat /\ table.expand_bucket \in Nat
      BY <2>1, <2>2, WorkerThreadsAssumption DEF IInv, TableInv, Tables
    <3>2. Bucket(k, table.hashpower - 1) \in Nat
      BY <2>1, <3>1, BucketType
    <3>3. k \in table.old => Bucket(k, table.hashpower - 1) >= table.expand_bucket
      BY <2>2 DEF IInv, TableInv
    <3>4. k \in table.primary => ~(Bucket(k, table.hashpower - 1) >= table.expand_bucket)
      BY <2>2, <3>1, <3>2 DEF IInv, TableInv
    <3> QED
      BY <2>2, <3>3, <3>4 DEF Where, InOld
  <2>3. CASE ~table.expanding
    BY <2>3 DEF IInv, TableInv, Where, InOld
  <2> QED
    BY <2>2, <2>3
<1> QED
  BY <1>1, Invariant, PTL

\* item_lock() keeps two workers from one key at a time except while they
\* change their lock types, one after the other.
THEOREM SameKeyExcludedAlways == Spec => []SameKeyExcludedUnlessSwitching
<1>1. IInv => SameKeyExcludedUnlessSwitching
  <2> SUFFICES ASSUME IInv, NEW w \in Workers, NEW v \in Workers, w # v, InOp(w), InOp(v),
                      op[w].key = op[v].key
               PROVE  init_count < NumThreads /\ item_lock_type[w] # item_lock_type[v]
    BY DEF SameKeyExcludedUnlessSwitching
  <2>1. item_lock_type[w] # item_lock_type[v]
    BY DEF IInv, HolderInv
  <2>2. Switching
    BY <2>1 DEF IInv, LockTypeInv
  <2>3. init_count \in 0..NumThreads /\ NumThreads \in Nat
    BY WorkersFinite DEF IInv, TypeOK
  <2>4. init_count # NumThreads
    <3> SUFFICES ASSUME ThreadsRegistered PROVE FALSE
      BY DEF ThreadsRegistered
    <3>1. Registered = Workers
      BY NobodyTold DEF IInv
    <3>2. item_lock_type[w] = item_lock_type[v]
      BY <2>2, <3>1 DEF IInv, LockTypeInv, Switching
    <3> QED
      BY <2>1, <3>2
  <2> QED
    BY <2>1, <2>3, <2>4
<1> QED
  BY <1>1, Invariant, PTL

\* No slab is moved while the hash table is expanded, unless the first round's
\* resume has released the lock of a running rebalance.
THEOREM RebalancerPausedAlways == Spec => []RebalancerPausedUnlessResumedEarly
<1>1. IInv => RebalancerPausedUnlessResumedEarly
  BY DEF IInv, RebalanceInv, InAssocExpand, RebalancerPausedUnlessResumedEarly, TypeOK
<1> QED
  BY <1>1, Invariant, PTL

=============================================================================
