-------------------------- MODULE ReplicationProofs --------------------------
(***************************************************************************)
(* Safety of the replication of a set, for every number of clients, conn   *)
(* structures and commands.  What ties a BACKUP_REPLY to its client is the *)
(* address of a conn structure; the proof follows that address from the    *)
(* request to the reply, and each command from the client's socket to the  *)
(* segment of the backup.                                                  *)
(***************************************************************************)
EXTENDS Replication, FiniteSetTheorems, FunctionTheorems, TLAPS

\* A structure that serves a client, and the messages between primary and
\* backup.
Opened(c) == conn[c].st # "closed"
Flying == {toBackup[i] : i \in DOMAIN toBackup} \cup {toPrimary[i] : i \in DOMAIN toPrimary}

\* How many members of q are in T, and the messages for a session.
CountIn(q, T) == Cardinality({i \in DOMAIN q : q[i] \in T})
For(s) == {r \in Request : r.s = s}
Seen == {s \in Sessions : client[s] # "new"}

\* conn_new() allocates at most one structure for each client, and a client has
\* one socket.
AcceptInv ==
    /\ Cardinality(Conns \ fresh) <= Cardinality(Seen)
    /\ \A f \in Fds : sock[f] # 0 => sock[f] \in Seen
    /\ \A f, g \in Fds : sock[f] # 0 /\ sock[f] = sock[g] => f = g

\* An open structure has an open socket of its own.
StructInv ==
    /\ \A c \in Conns : Opened(c) => conn[c].fd \in Fds /\ sock[conn[c].fd] # 0
    /\ \A c, d \in Conns : Opened(c) /\ Opened(d) /\ conn[c].fd = conn[d].fd => c = d
    /\ \A c \in Conns \ fresh : conn[c].fd \in Fds
    /\ \A c \in fresh : ~Opened(c)
    /\ \A i \in DOMAIN freeconns : freeconns[i] \notin fresh
    /\ \A r \in Flying : r.ptr \notin fresh

\* As long as none was closed with a confirmation due, a structure is either
\* open or once on the free stack, and an address in flight leads to the client
\* whose set it is.
OwnInv == ~orphaned =>
    /\ \A i \in DOMAIN freeconns :
          /\ ~Opened(freeconns[i])
          /\ \A j \in DOMAIN freeconns : freeconns[i] = freeconns[j] => i = j
    /\ \A f \in Fds : sock[f] # 0 => \E c \in Conns : Opened(c) /\ conn[c].fd = f
    /\ \A r \in Flying : Opened(r.ptr) /\ SessionOf(r.ptr) = r.s

\* The n-th command of a client is in one place: what it has sent, the way to
\* the backup, or the backup.
StreamInv ==
    \A s \in Sessions : \A i \in DOMAIN stream[s] :
        /\ stream[s][i].n <= Len(issued[s])
        /\ stream[s][i].kind = "data" =>
              /\ <<s, stream[s][i].n>> \notin Reached
              /\ \A j \in DOMAIN toBackup :
                    ~(toBackup[j].s = s /\ toBackup[j].n = stream[s][i].n)
              /\ \A j \in DOMAIN stream[s] :
                    stream[s][j].kind = "data" /\ stream[s][j].n = stream[s][i].n => i = j
BackupInv ==
    /\ \A i \in DOMAIN toBackup :
          /\ toBackup[i].n <= Len(issued[toBackup[i].s])
          /\ <<toBackup[i].s, toBackup[i].n>> \notin Reached
          /\ \A j \in DOMAIN toBackup :
                toBackup[i].s = toBackup[j].s /\ toBackup[i].n = toBackup[j].n => i = j
    /\ \A h \in Reached : h[2] <= Len(issued[h[1]])

\* The clients' STOREDs and the confirmations on their way are paid for by what
\* reached the backup.
ConfirmInv == ~orphaned =>
    \A s \in Sessions : NStored(s) + CountIn(toPrimary, For(s)) <= NReached(s)

\* The inductive invariant.
IInv == TypeOK /\ AcceptInv /\ StructInv /\ OwnInv /\ StreamInv /\ BackupInv /\ ConfirmInv

-----------------------------------------------------------------------------
\* A set of numbers that is not empty has a least one: the intervals below its
\* members are well-founded by inclusion.
LEMMA LeastNumber ==
  ASSUME NEW S \in SUBSET Nat, S # {}
  PROVE  \E m \in S : \A k \in S : m <= k
<1> DEFINE T == {1..m : m \in S}
<1>1. T \subseteq FiniteSubsetsOf(Nat) /\ T # {}
  <2>1. ASSUME NEW m \in S
        PROVE  1..m \in FiniteSubsetsOf(Nat)
    <3>1. m \in Int /\ 1 \in Int
      OBVIOUS
    <3>2. IsFiniteSet(1..m) /\ 1..m \subseteq Nat
      BY <3>1, FS_Interval
    <3> QED
      BY <3>2 DEF FiniteSubsetsOf
  <2> QED
    BY <2>1
<1>2. PICK x \in T : \A y \in T : <<y, x>> \notin StrictSubsetOrdering(Nat)
  BY <1>1, FS_StrictSubsetOrderingWellFounded, WFMin
<1>3. PICK m \in S : x = 1..m
  BY <1>2
<1>4. ASSUME NEW k \in S, k < m
      PROVE  FALSE
  <2>1. 1..k \subseteq 1..m /\ m \in 1..m /\ m \notin 1..k
    BY <1>4
  <2>2. <<1..k, 1..m>> \in StrictSubsetOrdering(Nat)
    BY <2>1 DEF StrictSubsetOrdering
  <2> QED
    BY <1>2, <1>3, <2>2
<1> QED
  BY <1>4

\* What is left of a queue when its first member is taken.
LEMMA TailFacts ==
  ASSUME NEW S, NEW q \in Seq(S), q # <<>>
  PROVE  /\ Len(q) \in Nat \ {0} /\ DOMAIN q = 1..Len(q)
         /\ DOMAIN Tail(q) = 1..(Len(q) - 1)
         /\ \A i \in 1..(Len(q) - 1) : Tail(q)[i] = q[i + 1]
         /\ Head(q) = q[1] /\ Head(q) \in S /\ Tail(q) \in Seq(S)
OBVIOUS

\* The members of a sequence can be counted.
LEMMA CountType ==
  ASSUME NEW S, NEW q \in Seq(S), NEW T
  PROVE  /\ IsFiniteSet({i \in DOMAIN q : q[i] \in T})
         /\ CountIn(q, T) \in Nat
<1>1. DOMAIN q = 1..Len(q) /\ Len(q) \in Nat
  OBVIOUS
<1>2. IsFiniteSet({i \in DOMAIN q : q[i] \in T})
  <2>1. IsFiniteSet(1..Len(q))
    BY <1>1, FS_Interval
  <2>2. {i \in DOMAIN q : q[i] \in T} \in SUBSET (1..Len(q))
    BY <1>1
  <2> QED
    BY <2>1, <2>2, FS_Subset
<1> QED
  BY <1>2, FS_CardinalityType DEF CountIn

\* A member added at the end counts for itself only.
LEMMA AppendCount ==
  ASSUME NEW S, NEW q \in Seq(S), NEW x \in S, NEW T
  PROVE  CountIn(Append(q, x), T) = CountIn(q, T) + (IF x \in T THEN 1 ELSE 0)
<1> DEFINE old == {i \in DOMAIN q : q[i] \in T}
           new == {i \in DOMAIN Append(q, x) : Append(q, x)[i] \in T}
<1>1. /\ DOMAIN q = 1..Len(q) /\ Len(q) \in Nat
      /\ DOMAIN Append(q, x) = 1..(Len(q) + 1)
      /\ \A i \in 1..Len(q) : Append(q, x)[i] = q[i]
      /\ Append(q, x)[Len(q) + 1] = x
  OBVIOUS
<1>2. new = IF x \in T THEN old \cup {Len(q) + 1} ELSE old
  BY <1>1
<1>3. Len(q) + 1 \notin old
  BY <1>1
<1>4. Cardinality(new) = Cardinality(old) + (IF x \in T THEN 1 ELSE 0)
  <2>1. IsFiniteSet(old) /\ Cardinality(old) \in Nat
    BY CountType DEF CountIn
  <2>2. Cardinality(old \cup {Len(q) + 1}) = Cardinality(old) + 1
    BY <1>3, <2>1, FS_AddElement
  <2> HIDE DEF old, new
  <2> QED
    BY <1>2, <2>1, <2>2
<1> QED
  BY <1>4 DEF CountIn

\* A member that is taken from the front counts no longer.
LEMMA TailCount ==
  ASSUME NEW S, NEW q \in Seq(S), q # <<>>, NEW T
  PROVE  CountIn(Tail(q), T) + (IF Head(q) \in T THEN 1 ELSE 0) <= CountIn(q, T)
<1> DEFINE all == {i \in DOMAIN q : q[i] \in T}
           left == {i \in DOMAIN Tail(q) : Tail(q)[i] \in T}
           f == [i \in left |-> i + 1]
<1>1. /\ Len(q) \in Nat \ {0} /\ DOMAIN q = 1..Len(q)
      /\ DOMAIN Tail(q) = 1..(Len(q) - 1)
      /\ \A i \in 1..(Len(q) - 1) : Tail(q)[i] = q[i + 1]
      /\ Head(q) = q[1] /\ Tail(q) \in Seq(S)
  BY TailFacts
<1>2. f \in [left -> all \ {1}] /\ \A i, j \in left : f[i] = f[j] => i = j
  BY <1>1
<1>3. f \in Injection(left, all \ {1})
  BY <1>2, Fun_IsInj
<1>4. IsFiniteSet(all) /\ Cardinality(all) \in Nat /\ Cardinality(left) \in Nat
  BY <1>1, CountType DEF CountIn
<1>5. 1 \in all <=> Head(q) \in T
  BY <1>1
<1>6. IsFiniteSet(all \ {1})
      /\ Cardinality(all \ {1}) = IF 1 \in all THEN Cardinality(all) - 1 ELSE Cardinality(all)
  BY <1>4, FS_RemoveElement
<1>7. Cardinality(left) <= Cardinality(all \ {1})
  <2> HIDE DEF all, left, f
  <2> QED
    BY <1>3, <1>6, FS_Injection
<1>8. Cardinality(left) + (IF Head(q) \in T THEN 1 ELSE 0) <= Cardinality(all)
  <2> HIDE DEF all, left
  <2> QED
    BY <1>4, <1>5, <1>6, <1>7
<1> QED
  BY <1>8 DEF CountIn

\* Replies of a client, and what the backup holds for it, are counted in CountIn
\* and in a finite set.
LEMMA CountersType ==
  ASSUME TypeOK, NEW s \in Sessions
  PROVE  /\ NStored(s) = CountIn(got[s], {"STORED"}) /\ NStored(s) \in Nat
         /\ IsFiniteSet({h \in Reached : h[1] = s}) /\ NReached(s) \in Nat
         /\ CountIn(toPrimary, For(s)) \in Nat
<1>1. got[s] \in Seq(Replies) /\ toPrimary \in Seq(Request)
  BY DEF TypeOK
<1>2. NStored(s) = CountIn(got[s], {"STORED"})
  BY DEF NStored, CountIn
<1>3. IsFiniteSet(Sessions \X (1..MaxOps))
  <2>1. IsFiniteSet(1..MaxOps) /\ IsFiniteSet(Sessions)
    BY ReplicationAssumption, FS_Interval DEF Sessions
  <2> QED
    BY <2>1, FS_Product
<1>4. IsFiniteSet({h \in Reached : h[1] = s})
  BY <1>3, FS_Subset DEF Reached, TypeOK
<1> QED
  BY <1>1, <1>2, <1>4, CountType, FS_CardinalityType DEF NReached

\* An open structure serves a client through its socket.
LEMMA Serving ==
  ASSUME TypeOK, StructInv, NEW c \in Conns, Opened(c)
  PROVE  conn[c].fd \in Fds /\ SessionOf(c) \in Sessions /\ c \notin fresh
BY DEF TypeOK, StructInv, SessionOf

-----------------------------------------------------------------------------
\* The primary and the backup start with nothing.
LEMMA InitInv == Init => IInv
<1> SUFFICES ASSUME Init PROVE IInv
  OBVIOUS
<1>1. TypeOK
  <2>1. /\ conn \in [Conns -> [st : {"closed", "read", "nread"}, fd : Fds \cup {0},
                               noreply : BOOLEAN]]
        /\ sock \in [Fds -> Sessions \cup {0}]
        /\ client \in [Sessions -> {"new", "open", "left"}]
    BY DEF Init
  <2>2. /\ stream \in [Sessions -> Seq(Token)] /\ issued \in [Sessions -> Seq(Ops)]
        /\ got \in [Sessions -> Seq(Replies)]
    BY DEF Init
  <2>3. /\ freeconns \in Seq(Conns) /\ toBackup \in Seq(Request) /\ toPrimary \in Seq(Request)
    BY DEF Init
  <2>4. orphaned = FALSE /\ merged = FALSE /\ held = {} /\ cut = {} /\ dead = FALSE /\ fresh = Conns
    BY DEF Init
  <2> QED
    BY <2>1, <2>2, <2>3, <2>4 DEF TypeOK
<1>2. AcceptInv
  <2>1. Conns \ fresh = {} /\ Seen = {}
    BY DEF Init, Seen
  <2>2. Cardinality(Conns \ fresh) <= Cardinality(Seen)
    BY <2>1, FS_EmptySet
  <2>3. \A f \in Fds : sock[f] = 0
    BY DEF Init
  <2> QED
    BY <2>2, <2>3 DEF AcceptInv
<1>3. Flying = {} /\ \A c \in Conns : ~Opened(c)
  BY DEF Init, Flying, Opened
<1>4. StructInv /\ OwnInv
  BY <1>3 DEF Init, StructInv, OwnInv
<1>5. StreamInv /\ BackupInv
  BY DEF Reached, Init, StreamInv, BackupInv
<1>6. ConfirmInv
  <2> SUFFICES ASSUME NEW s \in Sessions
               PROVE  NStored(s) + CountIn(toPrimary, For(s)) <= NReached(s)
    BY DEF ConfirmInv
  <2>1. /\ {i \in DOMAIN got[s] : got[s][i] = "STORED"} = {}
        /\ {i \in DOMAIN toPrimary : toPrimary[i] \in For(s)} = {}
        /\ {h \in Reached : h[1] = s} = {}
    BY DEF Reached, Init
  <2> QED
    BY <2>1, FS_EmptySet DEF NStored, CountIn, NReached
<1> QED
  BY <1>1, <1>2, <1>4, <1>5, <1>6 DEF IInv

-----------------------------------------------------------------------------
(***************************************************************************)
(* What each part of the invariant depends on.                             *)
(***************************************************************************)
\* A step keeps what ties structures and sockets together.
ConnsKept == \A c \in Conns : Opened(c)' = Opened(c) /\ conn'[c].fd = conn[c].fd

\* Sockets may be closed.
LEMMA AcceptFrame ==
  ASSUME AcceptInv, UNCHANGED fresh, Seen' = Seen, \A f \in Fds : sock'[f] \in {sock[f], 0}
  PROVE  AcceptInv'
BY DEF AcceptInv

\* Nothing is opened or closed, and messages may arrive.
LEMMA StructFrame ==
  ASSUME TypeOK, StructInv, ConnsKept, UNCHANGED <<sock, fresh, freeconns>>,
         Flying' \subseteq Flying
  PROVE  StructInv'
<1>1. fresh' = fresh /\ sock' = sock /\ freeconns' = freeconns
  OBVIOUS
<1>2. \A c \in Conns : Opened(c)' = Opened(c) /\ conn'[c].fd = conn[c].fd
  BY DEF ConnsKept
<1>3. \A c \in Conns : Opened(c)' => conn'[c].fd \in Fds /\ sock'[conn'[c].fd] # 0
  BY <1>1, <1>2 DEF StructInv
<1>4. \A c, d \in Conns : Opened(c)' /\ Opened(d)' /\ conn'[c].fd = conn'[d].fd => c = d
  BY <1>2 DEF StructInv
<1>5. \A c \in Conns \ fresh' : conn'[c].fd \in Fds
  BY <1>1, <1>2 DEF StructInv
<1>6. \A c \in fresh' : ~Opened(c)'
  BY <1>1, <1>2 DEF StructInv, TypeOK
<1> QED
  BY <1>1, <1>3, <1>4, <1>5, <1>6 DEF StructInv

\* The same for who owns them.
LEMMA OwnFrame ==
  ASSUME TypeOK, OwnInv, ConnsKept, UNCHANGED <<sock, freeconns, orphaned>>,
         Flying' \subseteq Flying
  PROVE  OwnInv'
<1> SUFFICES ASSUME ~orphaned PROVE OwnInv'
  BY DEF OwnInv
<1>1. \A c \in Conns : Opened(c)' = Opened(c) /\ SessionOf(c)' = SessionOf(c)
                       /\ conn'[c].fd = conn[c].fd
  BY DEF ConnsKept, SessionOf
<1>2. \A i \in DOMAIN freeconns : freeconns[i] \in Conns
  BY DEF TypeOK
<1>3. \A r \in Flying : r \in Request
  BY DEF TypeOK, Flying
<1>4. \A i \in DOMAIN freeconns' :
          /\ conn'[freeconns'[i]].st = "closed"
          /\ \A j \in DOMAIN freeconns' : freeconns'[i] = freeconns'[j] => i = j
  <2>1. freeconns' = freeconns
    OBVIOUS
  <2>2. ASSUME NEW i \in DOMAIN freeconns
        PROVE  conn'[freeconns[i]].st = "closed"
    <3>1. freeconns[i] \in Conns /\ ~Opened(freeconns[i])
      BY <1>2 DEF OwnInv
    <3> QED
      BY <1>1, <3>1 DEF Opened
  <2> QED
    BY <2>1, <2>2 DEF OwnInv
<1>5. \A f \in Fds : sock'[f] # 0 => \E c \in Conns : Opened(c)' /\ conn'[c].fd = f
  BY <1>1 DEF OwnInv
<1>6. \A r \in Flying' : Opened(r.ptr)' /\ SessionOf(r.ptr)' = r.s
  BY <1>1, <1>3 DEF OwnInv, Request
<1> QED
  BY <1>4, <1>5, <1>6 DEF OwnInv, Opened

\* The commands of a client and their way to the backup.
LEMMA BackupFrame ==
  ASSUME BackupInv, UNCHANGED <<toBackup, issued, Reached>>
  PROVE  BackupInv'
BY DEF BackupInv

\* No client is told STORED.
LEMMA ConfirmFrame ==
  ASSUME TypeOK, TypeOK', ConfirmInv, UNCHANGED <<toPrimary, Reached>>, orphaned => orphaned',
         \A s \in Sessions : NStored(s)' <= NStored(s)
  PROVE  ConfirmInv'
<1> SUFFICES ASSUME ~orphaned', NEW s \in Sessions
             PROVE  NStored(s)' + CountIn(toPrimary', For(s)) <= NReached(s)'
  BY DEF ConfirmInv, For
<1>1. NStored(s) + CountIn(toPrimary, For(s)) <= NReached(s)
  BY DEF ConfirmInv
<1>2. NReached(s)' = NReached(s)
  BY DEF NReached
<1>3. NStored(s) \in Nat /\ NReached(s) \in Nat /\ CountIn(toPrimary, For(s)) \in Nat
  BY CountersType
<1>4. NStored(s)' \in Nat
  <2>1. got'[s] \in Seq(Replies) /\ NStored(s)' = CountIn(got'[s], {"STORED"})
    BY DEF TypeOK, NStored, CountIn
  <2> QED
    BY <2>1, CountType
<1>5. NStored(s)' <= NStored(s)
  OBVIOUS
<1>6. CountIn(toPrimary', For(s)) = CountIn(toPrimary, For(s))
  OBVIOUS
<1> QED
  BY <1>1, <1>2, <1>3, <1>4, <1>5, <1>6

\* out_string() on an open structure: the socket stays, and one reply may
\* reach the client it serves.
LEMMA OutStringFacts ==
  ASSUME TypeOK, StructInv, NEW c \in Conns, Opened(c), NEW reply \in Replies,
         NEW flag, OutString(c, reply, flag)
  PROVE  /\ conn' \in [Conns -> [st : {"closed", "read", "nread"}, fd : Fds \cup {0},
                                 noreply : BOOLEAN]]
         /\ got' \in [Sessions -> Seq(Replies)]
         /\ ConnsKept
         /\ \A t \in Sessions : NStored(t)' <=
               NStored(t) + (IF t = SessionOf(c) /\ reply = "STORED" THEN 1 ELSE 0)
<1>1. conn' = [conn EXCEPT ![c].st = "read", ![c].noreply = FALSE]
      /\ got \in [Sessions -> Seq(Replies)]
  BY DEF OutString, TypeOK
<1>2. /\ conn' \in [Conns -> [st : {"closed", "read", "nread"}, fd : Fds \cup {0},
                              noreply : BOOLEAN]]
      /\ ConnsKept
  BY <1>1, ZenonT(60) DEF TypeOK, ConnsKept, Opened
<1>3. got' = got \/ got' = [got EXCEPT ![SessionOf(c)] = Append(@, reply)]
  BY DEF OutString, Deliver
<1>4. got' \in [Sessions -> Seq(Replies)]
  <2>1. SessionOf(c) \in Sessions
    BY Serving
  <2>2. Append(got[SessionOf(c)], reply) \in Seq(Replies)
    BY <1>1, <2>1
  <2> QED
    BY <1>1, <1>3, <2>1, <2>2
<1>5. ASSUME NEW t \in Sessions
      PROVE  NStored(t)' <=
               NStored(t) + (IF t = SessionOf(c) /\ reply = "STORED" THEN 1 ELSE 0)
  <2>1. NStored(t) \in Nat /\ NStored(t) = CountIn(got[t], {"STORED"})
    BY CountersType
  <2>2. NStored(t)' = CountIn(got'[t], {"STORED"})
    BY DEF NStored, CountIn
  <2>3. CASE got'[t] = got[t]
    BY <2>1, <2>2, <2>3
  <2>4. CASE t = SessionOf(c) /\ got'[t] = Append(got[t], reply)
    <3>1. CountIn(got'[t], {"STORED"})
            = CountIn(got[t], {"STORED"}) + (IF reply \in {"STORED"} THEN 1 ELSE 0)
      BY <1>1, <2>4, AppendCount
    <3> QED
      BY <2>1, <2>2, <2>4, <3>1
  <2> QED
    BY <1>1, <1>3, <2>3, <2>4
<1> QED
  BY <1>2, <1>4, <1>5

\* A token is consumed; if it is the data of a set, the set may go to the
\* backup.
LEMMA StreamShrinks ==
  ASSUME TypeOK, StreamInv, NEW s \in Sessions, stream[s] # <<>>,
         stream' = [stream EXCEPT ![s] = Tail(@)], UNCHANGED <<issued, Reached>>,
         \/ toBackup' = toBackup
         \/ /\ Head(stream[s]).kind = "data"
            /\ \E c \in Conns :
                  toBackup' = Append(toBackup, [ptr |-> c, s |-> s, n |-> Head(stream[s]).n])
  PROVE  /\ stream' \in [Sessions -> Seq(Token)]
         /\ StreamInv'
<1>1. /\ stream[s] \in Seq(Token) /\ toBackup \in Seq(Request)
      /\ stream \in [Sessions -> Seq(Token)]
  BY DEF TypeOK
<1>2. /\ Len(stream[s]) \in Nat \ {0} /\ DOMAIN stream[s] = 1..Len(stream[s])
      /\ DOMAIN Tail(stream[s]) = 1..(Len(stream[s]) - 1)
      /\ \A i \in 1..(Len(stream[s]) - 1) : Tail(stream[s])[i] = stream[s][i + 1]
      /\ Head(stream[s]) = stream[s][1] /\ Tail(stream[s]) \in Seq(Token)
  BY <1>1, TailFacts
<1>3. /\ stream'[s] = Tail(stream[s])
      /\ \A t \in Sessions : t # s => stream'[t] = stream[t]
      /\ stream' \in [Sessions -> Seq(Token)]
  BY <1>1, <1>2
<1>4. ASSUME NEW j \in DOMAIN toBackup', NEW t \in Sessions, NEW m,
             toBackup'[j].s = t, toBackup'[j].n = m
      PROVE  \/ \E k \in DOMAIN toBackup : toBackup[k].s = t /\ toBackup[k].n = m
             \/ t = s /\ m = stream[s][1].n /\ stream[s][1].kind = "data"
  <2>1. CASE toBackup' = toBackup
    BY <1>4, <2>1
  <2>2. CASE toBackup' # toBackup
    <3>1. PICK c \in Conns :
             toBackup' = Append(toBackup, [ptr |-> c, s |-> s, n |-> Head(stream[s]).n])
      BY <2>2
    <3>2. /\ DOMAIN toBackup = 1..Len(toBackup) /\ Len(toBackup) \in Nat
          /\ DOMAIN toBackup' = 1..(Len(toBackup) + 1)
          /\ \A i \in 1..Len(toBackup) : toBackup'[i] = toBackup[i]
          /\ toBackup'[Len(toBackup) + 1] = [ptr |-> c, s |-> s, n |-> Head(stream[s]).n]
      BY <1>1, <3>1
    <3>3. CASE j \in 1..Len(toBackup)
      BY <1>4, <3>2, <3>3
    <3>4. CASE j = Len(toBackup) + 1
      BY <1>2, <1>4, <2>2, <3>2, <3>4
    <3> QED
      BY <3>2, <3>3, <3>4
  <2> QED
    BY <2>1, <2>2
<1>5. StreamInv'
  <2> SUFFICES ASSUME NEW t \in Sessions, NEW i \in DOMAIN stream'[t]
               PROVE  /\ stream'[t][i].n <= Len(issued[t])
                      /\ stream'[t][i].kind = "data" =>
                            /\ <<t, stream'[t][i].n>> \notin Reached
                            /\ \A j \in DOMAIN toBackup' :
                                  ~(toBackup'[j].s = t /\ toBackup'[j].n = stream'[t][i].n)
                            /\ \A j \in DOMAIN stream'[t] :
                                  stream'[t][j].kind = "data"
                                    /\ stream'[t][j].n = stream'[t][i].n => i = j
    BY SMTT(40) DEF StreamInv
  <2>1. CASE t = s
    <3>1. /\ i \in Nat /\ i + 1 \in DOMAIN stream[s] /\ stream'[t][i] = stream[s][i + 1]
          /\ i + 1 # 1 /\ 1 \in DOMAIN stream[s]
      BY <1>2, <1>3, <2>1
    <3>2. \A j \in DOMAIN stream'[t] :
             j \in Nat /\ j + 1 \in DOMAIN stream[s] /\ stream'[t][j] = stream[s][j + 1]
      BY <1>2, <1>3, <2>1
    <3>3. stream[s][i + 1].n <= Len(issued[s])
      BY <3>1 DEF StreamInv
    <3>4. ASSUME stream[s][i + 1].kind = "data"
          PROVE  /\ <<s, stream[s][i + 1].n>> \notin Reached
                 /\ \A j \in DOMAIN toBackup :
                       ~(toBackup[j].s = s /\ toBackup[j].n = stream[s][i + 1].n)
                 /\ ~(stream[s][1].kind = "data" /\ stream[s][1].n = stream[s][i + 1].n)
                 /\ \A j \in DOMAIN stream[s] :
                       stream[s][j].kind = "data" /\ stream[s][j].n = stream[s][i + 1].n
                         => i + 1 = j
      BY <3>1, <3>4 DEF StreamInv
    <3>5. ASSUME stream[s][i + 1].kind = "data", NEW j \in DOMAIN stream'[t],
                 stream'[t][j].kind = "data", stream'[t][j].n = stream'[t][i].n
          PROVE  i = j
      <4>1. j \in Nat /\ i + 1 = j + 1
        BY <3>1, <3>2, <3>4, <3>5
      <4> QED
        BY <3>1, <4>1
    <3>6. ASSUME stream[s][i + 1].kind = "data", NEW j \in DOMAIN toBackup',
                 toBackup'[j].s = t, toBackup'[j].n = stream'[t][i].n
          PROVE  FALSE
      BY <1>4, <2>1, <3>1, <3>4, <3>6
    <3> QED
      BY <2>1, <3>1, <3>3, <3>4, <3>5, <3>6
  <2>2. CASE t # s
    <3>1. stream'[t] = stream[t]
      BY <1>3, <2>2
    <3>2. ASSUME stream[t][i].kind = "data", NEW j \in DOMAIN toBackup',
                 toBackup'[j].s = t, toBackup'[j].n = stream[t][i].n
          PROVE  FALSE
      <4>1. \E k \in DOMAIN toBackup : toBackup[k].s = t /\ toBackup[k].n = stream[t][i].n
        BY <1>4, <2>2, <3>2
      <4> QED
        BY <3>1, <3>2, <4>1 DEF StreamInv
    <3> QED
      BY <3>1, <3>2 DEF StreamInv
  <2> QED
    BY <2>1, <2>2
<1> QED
  BY <1>3, <1>5

-----------------------------------------------------------------------------
\* drive_machine() parses the next token on a structure that is open.
LEMMA UpcomingFacts ==
  ASSUME TypeOK, StructInv, NEW c \in Conns, NEW st \in {"read", "nread"}, NEW kind,
         Upcoming(c, st, kind)
  PROVE  /\ Opened(c) /\ SessionOf(c) \in Sessions /\ c \notin fresh
         /\ stream[SessionOf(c)] # <<>> /\ Head(stream[SessionOf(c)]) \in Token
         /\ Head(stream[SessionOf(c)]).kind = kind
<1>1. Opened(c) /\ stream[SessionOf(c)] # <<>> /\ Head(stream[SessionOf(c)]).kind = kind
  BY DEF Upcoming, Opened
<1>2. SessionOf(c) \in Sessions /\ c \notin fresh
  BY <1>1, Serving
<1>3. stream[SessionOf(c)] \in Seq(Token)
  BY <1>2 DEF TypeOK
<1> QED
  BY <1>1, <1>2, <1>3, TailFacts

\* A command is parsed, and nothing goes to the backup.
LEMMA ParseFrame ==
  ASSUME IInv, ConnsKept,
         conn' \in [Conns -> [st : {"closed", "read", "nread"}, fd : Fds \cup {0},
                              noreply : BOOLEAN]],
         got' \in [Sessions -> Seq(Replies)], stream' \in [Sessions -> Seq(Token)],
         \A s \in Sessions : NStored(s)' <= NStored(s), StreamInv',
         UNCHANGED <<freeconns, fresh, sock, client, issued, toBackup, toPrimary, held, cut, dead, Reached,
                     orphaned, merged>>
  PROVE  IInv'
<1>1. TypeOK'
  BY DEF IInv, TypeOK
<1>2. AcceptInv'
  BY AcceptFrame DEF IInv, Seen
<1>3. Flying' = Flying
  BY DEF Flying
<1>4. StructInv' /\ OwnInv'
  BY <1>3, StructFrame, OwnFrame DEF IInv
<1>5. BackupInv' /\ ConfirmInv'
  BY <1>1, BackupFrame, ConfirmFrame DEF IInv
<1> QED
  BY <1>1, <1>2, <1>4, <1>5 DEF IInv

\* The command line of a set, and replies that are no confirmation.
LEMMA ParseInv ==
  ASSUME IInv, NEW c \in Conns,
         ReadSetLine(c) \/ ReadDelete(c) \/ ReadStrayData(c) \/ CompleteNread(c, FALSE)
  PROVE  IInv'
<1>1. TypeOK /\ StructInv /\ StreamInv
  BY DEF IInv
<1>2. /\ \E st \in {"read", "nread"}, kind \in {"line", "data"} : Upcoming(c, st, kind)
      /\ stream' = [stream EXCEPT ![SessionOf(c)] = Tail(@)]
      /\ UNCHANGED <<freeconns, fresh, sock, client, issued, toBackup, toPrimary, held, cut, dead, Reached,
                     orphaned, merged>>
  BY DEF Reached, ReadSetLine, ReadDelete, ReadStrayData, CompleteNread, Consume
<1>3. Opened(c) /\ SessionOf(c) \in Sessions /\ stream[SessionOf(c)] # <<>>
  BY <1>1, <1>2, UpcomingFacts
<1>4. stream' \in [Sessions -> Seq(Token)] /\ StreamInv'
  BY <1>1, <1>2, <1>3, StreamShrinks
<1>5. /\ conn' \in [Conns -> [st : {"closed", "read", "nread"}, fd : Fds \cup {0},
                              noreply : BOOLEAN]]
      /\ got' \in [Sessions -> Seq(Replies)] /\ ConnsKept
      /\ \A s \in Sessions : NStored(s)' <= NStored(s)
  <2>1. CASE ReadSetLine(c)
    <3>1. /\ \E b \in BOOLEAN : conn' = [conn EXCEPT ![c].st = "nread", ![c].noreply = b]
          /\ got' = got
      BY <1>1, <2>1 DEF ReadSetLine, SetNoreplyMaybe, TypeOK
    <3>2. /\ conn' \in [Conns -> [st : {"closed", "read", "nread"}, fd : Fds \cup {0},
                                  noreply : BOOLEAN]]
          /\ ConnsKept
      <4>1. PICK b \in BOOLEAN : conn' = [conn EXCEPT ![c].st = "nread", ![c].noreply = b]
        BY <3>1
      <4>2. conn[c] \in [st : {"closed", "read", "nread"}, fd : Fds \cup {0}, noreply : BOOLEAN]
            /\ conn \in [Conns -> [st : {"closed", "read", "nread"}, fd : Fds \cup {0},
                                   noreply : BOOLEAN]]
        BY <1>1 DEF TypeOK
      <4> DEFINE new == [conn[c] EXCEPT !.st = "nread", !.noreply = b]
      <4>3. conn' = [conn EXCEPT ![c] = new]
        BY <4>1, <4>2
      <4>4. /\ new \in [st : {"closed", "read", "nread"}, fd : Fds \cup {0}, noreply : BOOLEAN]
            /\ new.st = "nread" /\ new.fd = conn[c].fd
        BY <4>2
      <4> HIDE DEF new
      <4> QED
        BY <1>3, <4>2, <4>3, <4>4 DEF ConnsKept, Opened
    <3>3. \A s \in Sessions : NStored(s)' = NStored(s) /\ NStored(s) \in Nat
      BY <1>1, <3>1, CountersType DEF NStored
    <3> QED
      BY <1>1, <3>1, <3>2, <3>3 DEF TypeOK
  <2>2. CASE ~ReadSetLine(c)
    <3>1. PICK reply \in {"DELETED", "ERROR", "NOT_STORED"} :
             OutString(c, reply, conn[c].noreply)
      BY <2>2 DEF ReadDelete, ReadStrayData, CompleteNread
    <3>2. reply \in Replies /\ reply # "STORED"
      BY DEF Replies
    <3>3. \A s \in Sessions : NStored(s) \in Nat
      BY <1>1, CountersType
    <3> QED
      BY <1>1, <1>3, <3>1, <3>2, <3>3, OutStringFacts
  <2> QED
    BY <2>1, <2>2
<1> QED
  BY <1>2, <1>4, <1>5, ParseFrame

\* store_item() has stored: the request goes to the backup with the address of
\* the structure, and the client waits.
LEMMA PostSetDataInv ==
  ASSUME IInv, NEW c \in Conns, CompleteNread(c, TRUE)
  PROVE  IInv'
<1> DEFINE s == SessionOf(c)
           n == Head(stream[s]).n
           r == [ptr |-> c, s |-> s, n |-> n]
<1>1. TypeOK /\ AcceptInv /\ StructInv /\ OwnInv /\ StreamInv /\ BackupInv /\ ConfirmInv
  BY DEF IInv
<1>2. /\ Upcoming(c, "nread", "data")
      /\ stream' = [stream EXCEPT ![s] = Tail(@)]
      /\ toBackup' = Append(toBackup, r)
      /\ conn' = [conn EXCEPT ![c].st = "read"]
      /\ UNCHANGED <<freeconns, fresh, sock, client, issued, got, toPrimary, held, cut, dead, Reached, orphaned,
                     merged>>
  BY DEF Reached, CompleteNread, PostSetData, Consume
<1>3. /\ Opened(c) /\ s \in Sessions /\ c \notin fresh /\ stream[s] # <<>>
      /\ Head(stream[s]) \in Token /\ Head(stream[s]).kind = "data"
  BY <1>1, <1>2, UpcomingFacts
<1>4. n \in 1..MaxOps /\ r \in Request
  BY <1>3 DEF Token, Request
<1>5. stream' \in [Sessions -> Seq(Token)] /\ StreamInv'
  BY <1>1, <1>2, <1>3, StreamShrinks
<1>6. /\ conn' \in [Conns -> [st : {"closed", "read", "nread"}, fd : Fds \cup {0},
                              noreply : BOOLEAN]]
      /\ ConnsKept
  BY <1>1, <1>2, <1>3 DEF TypeOK, ConnsKept, Opened
<1> HIDE DEF r, n
<1>7. toBackup \in Seq(Request) /\ toBackup' \in Seq(Request)
  BY <1>1, <1>2, <1>4 DEF TypeOK
<1>8. TypeOK'
  BY <1>1, <1>2, <1>5, <1>6, <1>7 DEF TypeOK
<1>9. /\ DOMAIN toBackup = 1..Len(toBackup) /\ Len(toBackup) \in Nat
      /\ DOMAIN toBackup' = 1..(Len(toBackup) + 1)
      /\ \A i \in 1..Len(toBackup) : toBackup'[i] = toBackup[i]
      /\ toBackup'[Len(toBackup) + 1] = r
  BY <1>2, <1>4, <1>7
<1>10. Flying' = Flying \cup {r}
  BY <1>2, <1>9 DEF Flying
<1>11. r.ptr = c /\ r.s = s /\ r.n = n
  BY DEF r
<1>12. StructInv'
  <2>1. \A d \in Conns : Opened(d)' = Opened(d) /\ conn'[d].fd = conn[d].fd
    BY <1>6 DEF ConnsKept
  <2>2. \A q \in Flying' : q.ptr \notin fresh
    BY <1>1, <1>3, <1>10, <1>11 DEF StructInv
  <2>3. fresh \subseteq Conns
    BY <1>1 DEF TypeOK
  <2> QED
    BY <1>1, <1>2, <2>1, <2>2, <2>3 DEF StructInv
<1>13. OwnInv'
  <2> SUFFICES ASSUME ~orphaned PROVE OwnInv'
    BY <1>2 DEF OwnInv
  <2>1. \A d \in Conns : Opened(d)' = Opened(d) /\ SessionOf(d)' = SessionOf(d)
                         /\ conn'[d].fd = conn[d].fd
    BY <1>2, <1>6 DEF ConnsKept, SessionOf
  <2>2. \A q \in Flying : q.ptr \in Conns
    <3>1. \A q \in Flying : q \in Request
      BY <1>1 DEF TypeOK, Flying
    <3> QED
      BY <3>1 DEF Request
  <2>3. \A q \in Flying' : Opened(q.ptr)' /\ SessionOf(q.ptr)' = q.s
    BY <1>1, <1>3, <1>10, <1>11, <2>1, <2>2 DEF OwnInv
  <2>4. \A i \in DOMAIN freeconns : freeconns[i] \in Conns
    BY <1>1 DEF TypeOK
  <2>5. ASSUME NEW i \in DOMAIN freeconns
        PROVE  conn'[freeconns[i]].st = "closed"
    <3>1. freeconns[i] \in Conns /\ ~Opened(freeconns[i])
      BY <1>1, <2>4 DEF OwnInv
    <3> QED
      BY <2>1, <3>1 DEF Opened
  <2>6. \A f \in Fds : sock[f] # 0 => \E d \in Conns : Opened(d)' /\ conn'[d].fd = f
    BY <1>1, <2>1 DEF OwnInv
  <2> QED
    BY <1>1, <1>2, <2>3, <2>5, <2>6 DEF OwnInv, Opened
<1>14. BackupInv'
  <2>1. /\ n <= Len(issued[s]) /\ <<s, n>> \notin Reached
        /\ \A j \in DOMAIN toBackup : ~(toBackup[j].s = s /\ toBackup[j].n = n)
    <3>1. stream[s] \in Seq(Token)
      BY <1>1, <1>3 DEF TypeOK
    <3>2. 1 \in DOMAIN stream[s] /\ Head(stream[s]) = stream[s][1]
      BY <1>3, <3>1, TailFacts
    <3> QED
      BY <1>1, <1>3, <3>2 DEF StreamInv, n
  <2>2. ASSUME NEW i \in DOMAIN toBackup'
        PROVE  /\ toBackup'[i].n <= Len(issued[toBackup'[i].s])
               /\ <<toBackup'[i].s, toBackup'[i].n>> \notin Reached
               /\ \A j \in DOMAIN toBackup' :
                     toBackup'[i].s = toBackup'[j].s /\ toBackup'[i].n = toBackup'[j].n => i = j
    <3>1. CASE i \in 1..Len(toBackup)
      <4>1. \A j \in 1..Len(toBackup) :
               toBackup'[i].s = toBackup'[j].s /\ toBackup'[i].n = toBackup'[j].n => i = j
        BY <1>1, <1>9, <3>1 DEF BackupInv
      <4>2. ~(toBackup'[i].s = r.s /\ toBackup'[i].n = r.n)
        BY <1>9, <1>11, <2>1, <3>1
      <4> QED
        BY <1>1, <1>9, <3>1, <4>1, <4>2, SMTT(40) DEF BackupInv
    <3>2. CASE i = Len(toBackup) + 1
      BY <1>9, <1>11, <2>1, <3>2
    <3> QED
      BY <1>9, <3>1, <3>2
  <2> QED
    BY <1>1, <1>2, <2>2 DEF BackupInv
<1>15. ConfirmInv'
  <2>1. \A t \in Sessions : NStored(t)' = NStored(t) /\ NStored(t) \in Nat
    BY <1>1, <1>2, CountersType DEF NStored
  <2> QED
    BY <1>1, <1>2, <1>8, <2>1, ConfirmFrame
<1> QED
  BY <1>1, <1>2, <1>5, <1>8, <1>12, <1>13, <1>14, <1>15, AcceptFrame DEF IInv, Seen

-----------------------------------------------------------------------------
\* A client numbers its commands; a new number is nowhere yet.
LEMMA IssueInv ==
  ASSUME IInv, NEW s \in Sessions, NEW op \in Ops, Issue(s, op)
  PROVE  IInv'
<1> DEFINE n == Len(issued[s]) + 1
           line == [kind |-> "line", op |-> op, n |-> n]
           data == [kind |-> "data", op |-> op, n |-> n]
<1>1. TypeOK /\ AcceptInv /\ StructInv /\ OwnInv /\ StreamInv /\ BackupInv /\ ConfirmInv
  BY DEF IInv
<1>2. /\ issued' = [issued EXCEPT ![s] = Append(@, op)]
      /\ stream' = [stream EXCEPT ![s] =
                       @ \o (IF op = "delete" THEN <<line>> ELSE <<line, data>>)]
      /\ Len(issued[s]) < MaxOps
      /\ UNCHANGED <<conn, freeconns, fresh, sock, client, got, toBackup, toPrimary, held, cut, dead, Reached,
                     orphaned, merged>>
  BY DEF Reached, Issue
<1>3. /\ issued[s] \in Seq(Ops) /\ stream[s] \in Seq(Token)
      /\ issued \in [Sessions -> Seq(Ops)] /\ stream \in [Sessions -> Seq(Token)]
  BY <1>1 DEF TypeOK
<1>4. n \in 1..MaxOps /\ line \in Token /\ data \in Token /\ line.n = n /\ data.n = n
      /\ line.kind = "line"
  <2>1. n \in 1..MaxOps
    BY <1>2, <1>3, ReplicationAssumption
  <2> QED
    BY <2>1 DEF Token
<1> HIDE DEF line, data
<1>5. /\ issued'[s] = Append(issued[s], op)
      /\ \A t \in Sessions : t # s => issued'[t] = issued[t] /\ stream'[t] = stream[t]
      /\ stream'[s] = stream[s] \o (IF op = "delete" THEN <<line>> ELSE <<line, data>>)
  BY <1>2, <1>3
<1>6. /\ Len(issued'[s]) = n /\ issued' \in [Sessions -> Seq(Ops)]
      /\ \A t \in Sessions : Len(issued[t]) \in Nat /\ Len(issued[t]) <= Len(issued'[t])
  <2>1. Append(issued[s], op) \in Seq(Ops) /\ Len(Append(issued[s], op)) = n
    BY <1>3
  <2>2. issued' \in [Sessions -> Seq(Ops)]
    BY <1>2, <1>3, <2>1
  <2>3. \A t \in Sessions : Len(issued[t]) \in Nat
    BY <1>3
  <2>4. ASSUME NEW t \in Sessions
        PROVE  Len(issued[t]) <= Len(issued'[t])
    <3>1. CASE t = s
      BY <1>5, <2>1, <2>3, <3>1
    <3>2. CASE t # s
      BY <1>5, <2>3, <3>2
    <3> QED
      BY <3>1, <3>2
  <2> QED
    BY <1>5, <2>1, <2>2, <2>3, <2>4
<1>7. /\ stream'[s] \in Seq(Token)
      /\ \A i \in DOMAIN stream'[s] :
            \/ i \in DOMAIN stream[s] /\ stream'[s][i] = stream[s][i]
            \/ /\ stream'[s][i].n = n
               /\ stream'[s][i].kind = "data" => i = Len(stream[s]) + 2
  <2>1. CASE op = "delete"
    <3>1. stream'[s] = stream[s] \o <<line>> /\ <<line>> \in Seq(Token)
      BY <1>4, <1>5, <2>1
    <3> QED
      BY <1>3, <1>4, <3>1
  <2>2. CASE op # "delete"
    <3>1. stream'[s] = stream[s] \o <<line, data>> /\ <<line, data>> \in Seq(Token)
      BY <1>4, <1>5, <2>2
    <3> QED
      BY <1>3, <1>4, <3>1
  <2> QED
    BY <2>1, <2>2
<1>8. TypeOK'
  <2>1. stream' \in [Sessions -> Seq(Token)]
    BY <1>2, <1>3, <1>7
  <2> QED
    BY <1>1, <1>2, <1>6, <2>1 DEF TypeOK
<1>9. \A h \in Reached : h \in Sessions \X (1..MaxOps)
  BY <1>1 DEF Reached, TypeOK
<1>10. \A i \in DOMAIN toBackup :
          toBackup[i].s \in Sessions /\ toBackup[i].n \in 1..MaxOps
  <2>1. \A i \in DOMAIN toBackup : toBackup[i] \in Request
    BY <1>1 DEF TypeOK
  <2> QED
    BY <2>1 DEF Request
<1>11. StreamInv'
  <2>0. Reached' = Reached /\ toBackup' = toBackup
    BY <1>2
  <2> SUFFICES ASSUME NEW t \in Sessions, NEW i \in DOMAIN stream'[t]
               PROVE  /\ stream'[t][i].n <= Len(issued'[t])
                      /\ stream'[t][i].kind = "data" =>
                            /\ <<t, stream'[t][i].n>> \notin Reached
                            /\ \A j \in DOMAIN toBackup :
                                  ~(toBackup[j].s = t /\ toBackup[j].n = stream'[t][i].n)
                            /\ \A j \in DOMAIN stream'[t] :
                                  stream'[t][j].kind = "data"
                                    /\ stream'[t][j].n = stream'[t][i].n => i = j
    BY <2>0, Zenon DEF StreamInv
  <2>1. \A j \in DOMAIN stream[t] : stream[t][j] \in Token /\ stream[t][j].n \in Nat
    <3>1. stream[t] \in Seq(Token)
      BY <1>3
    <3>2. \A j \in DOMAIN stream[t] : stream[t][j] \in Token
      BY <3>1
    <3> QED
      BY <3>2 DEF Token
  <2>2. CASE t # s
    <3>1. stream'[t] = stream[t] /\ issued'[t] = issued[t]
      BY <1>5, <2>2
    <3> QED
      BY <1>1, <3>1 DEF StreamInv
  <2>3. CASE t = s /\ i \in DOMAIN stream[s] /\ stream'[s][i] = stream[s][i]
    <3>1. stream[s][i].n <= Len(issued[s]) /\ stream[s][i].n \in Nat
      BY <1>1, <2>1, <2>3 DEF StreamInv
    <3>2. stream[s][i].n <= Len(issued'[s]) /\ stream[s][i].n # n
      BY <1>6, <3>1
    <3>3. \A j \in DOMAIN stream'[s] : stream'[s][j].n = stream[s][i].n =>
             j \in DOMAIN stream[s] /\ stream'[s][j] = stream[s][j]
      BY <1>7, <3>2
    <3>4. stream[s][i].kind = "data" =>
            /\ <<s, stream[s][i].n>> \notin Reached
            /\ \A j \in DOMAIN toBackup :
                  ~(toBackup[j].s = s /\ toBackup[j].n = stream[s][i].n)
            /\ \A j \in DOMAIN stream[s] :
                  stream[s][j].kind = "data" /\ stream[s][j].n = stream[s][i].n => i = j
      BY <1>1, <2>3 DEF StreamInv
    <3> QED
      BY <2>3, <3>2, <3>3, <3>4
  <2>4. CASE t = s /\ stream'[s][i].n = n
             /\ (stream'[s][i].kind = "data" => i = Len(stream[s]) + 2)
    <3>1. \A j \in DOMAIN stream'[s] :
             stream'[s][j].kind = "data" /\ stream'[s][j].n = n => j = Len(stream[s]) + 2
      <4>1. \A j \in DOMAIN stream[s] : stream[s][j].n # n
        <5>1. \A j \in DOMAIN stream[s] : stream[s][j].n <= Len(issued[s])
          BY <1>1 DEF StreamInv
        <5>2. Len(issued[s]) \in Nat
          BY <1>6
        <5> QED
          BY <2>1, <2>4, <5>1, <5>2
      <4> QED
        BY <1>7, <4>1
    <3>2. <<s, n>> \notin Reached
      <4>1. ASSUME <<s, n>> \in Reached
            PROVE  n <= Len(issued[s])
        BY <1>1, <4>1 DEF BackupInv
      <4> QED
        BY <1>6, <4>1
    <3>3. \A j \in DOMAIN toBackup : ~(toBackup[j].s = s /\ toBackup[j].n = n)
      <4>1. \A j \in DOMAIN toBackup : toBackup[j].n <= Len(issued[toBackup[j].s])
        BY <1>1 DEF BackupInv
      <4>2. Len(issued[s]) \in Nat
        BY <1>6
      <4> QED
        BY <4>1, <4>2
    <3>4. n <= Len(issued'[s])
      BY <1>4, <1>6
    <3> QED
      BY <2>4, <3>1, <3>2, <3>3, <3>4
  <2> QED
    BY <1>7, <2>2, <2>3, <2>4
<1>12. BackupInv'
  <2>1. \A i \in DOMAIN toBackup : toBackup[i].n <= Len(issued'[toBackup[i].s])
    <3> SUFFICES ASSUME NEW i \in DOMAIN toBackup
                 PROVE  toBackup[i].n <= Len(issued'[toBackup[i].s])
      OBVIOUS
    <3>1. toBackup[i].n <= Len(issued[toBackup[i].s])
      BY <1>1 DEF BackupInv
    <3>2. /\ toBackup[i].n \in Nat /\ Len(issued[toBackup[i].s]) \in Nat
          /\ Len(issued'[toBackup[i].s]) \in Nat
          /\ Len(issued[toBackup[i].s]) <= Len(issued'[toBackup[i].s])
      BY <1>6, <1>10
    <3> QED
      BY <3>1, <3>2
  <2>2. \A h \in Reached : h[2] <= Len(issued'[h[1]])
    <3> SUFFICES ASSUME NEW h \in Reached
                 PROVE  h[2] <= Len(issued'[h[1]])
      OBVIOUS
    <3>1. h[2] <= Len(issued[h[1]]) /\ h[1] \in Sessions /\ h[2] \in 1..MaxOps
      BY <1>1, <1>9 DEF BackupInv
    <3>2. /\ Len(issued[h[1]]) \in Nat /\ Len(issued'[h[1]]) \in Nat
          /\ Len(issued[h[1]]) <= Len(issued'[h[1]])
      BY <1>6, <3>1
    <3> QED
      BY <3>1, <3>2
  <2> QED
    BY <1>1, <1>2, <2>1, <2>2 DEF BackupInv
<1>13. Flying' = Flying /\ ConnsKept /\ Seen' = Seen
  BY <1>2 DEF Flying, ConnsKept, Opened, Seen
<1>14. \A t \in Sessions : NStored(t)' = NStored(t) /\ NStored(t) \in Nat
  BY <1>1, <1>2, CountersType DEF NStored
<1>15. AcceptInv' /\ StructInv' /\ OwnInv' /\ ConfirmInv'
  BY <1>1, <1>2, <1>8, <1>13, <1>14, AcceptFrame, StructFrame, OwnFrame, ConfirmFrame
<1> QED
  BY <1>8, <1>11, <1>12, <1>15 DEF IInv

\* A client that leaves has been seen.
LEMMA LeaveInv ==
  ASSUME IInv, NEW s \in Sessions, Leave(s)
  PROVE  IInv'
<1>1. TypeOK /\ AcceptInv /\ StructInv /\ OwnInv /\ StreamInv /\ BackupInv /\ ConfirmInv
  BY DEF IInv
<1>2. /\ client[s] = "open" /\ client' = [client EXCEPT ![s] = "left"]
      /\ UNCHANGED <<conn, freeconns, fresh, sock, stream, issued, got, toBackup, toPrimary,
                     held, cut, dead, Reached,
                     orphaned, merged>>
  BY DEF Reached, Leave
<1>3. TypeOK'
  BY <1>1, <1>2 DEF TypeOK
<1>4. Flying' = Flying /\ ConnsKept
  BY <1>2 DEF Flying, ConnsKept, Opened
<1>5. Seen' = Seen
  BY <1>1, <1>2 DEF Seen, TypeOK
<1>6. \A t \in Sessions : NStored(t)' = NStored(t) /\ NStored(t) \in Nat
  BY <1>1, <1>2, CountersType DEF NStored
<1>7. StreamInv'
  BY <1>1, <1>2 DEF StreamInv
<1>8. AcceptInv' /\ StructInv' /\ OwnInv' /\ BackupInv' /\ ConfirmInv'
  BY <1>1, <1>2, <1>3, <1>4, <1>5, <1>6, AcceptFrame, StructFrame, OwnFrame, BackupFrame,
     ConfirmFrame
<1> QED
  BY <1>3, <1>7, <1>8 DEF IInv

\* When a client arrives there is a structure and a descriptor for it, and the
\* descriptor is the lowest one.
LEMMA RoomToAccept ==
  ASSUME TypeOK, AcceptInv, NEW s \in Sessions, client[s] = "new"
  PROVE  /\ fresh # {}
         /\ LowestFd \in Fds /\ sock[LowestFd] = 0
         /\ IsFiniteSet(Seen) /\ Cardinality(Seen) \in Nat /\ s \notin Seen
<1>1. IsFiniteSet(Sessions) /\ Cardinality(Sessions) = MaxSession /\ MaxSession \in Nat
  <2>1. MaxSession \in Nat /\ MaxSession \in Int /\ 1 \in Int
    BY ReplicationAssumption
  <2>2. /\ IsFiniteSet(1..MaxSession)
        /\ Cardinality(1..MaxSession) = IF 1 > MaxSession THEN 0 ELSE MaxSession - 1 + 1
    BY <2>1, FS_Interval
  <2> QED
    BY <2>1, <2>2 DEF Sessions
<1>2. Seen \subseteq Sessions \ {s} /\ s \notin Seen
  BY DEF Seen
<1>3. /\ IsFiniteSet(Sessions \ {s})
      /\ Cardinality(Sessions \ {s}) = MaxSession - 1
  BY <1>1, FS_RemoveElement
<1>4. /\ IsFiniteSet(Seen) /\ Cardinality(Seen) \in Nat /\ Cardinality(Seen) < MaxSession
  <2>1. IsFiniteSet(Seen) /\ Cardinality(Seen) <= MaxSession - 1
    BY <1>2, <1>3, FS_Subset
  <2> QED
    BY <1>1, <2>1, FS_CardinalityType
<1>5. fresh # {}
  <2> SUFFICES ASSUME fresh = {} PROVE FALSE
    OBVIOUS
  <2>1. Conns \ fresh = Conns
    OBVIOUS
  <2>2. /\ Cardinality(Conns) <= Cardinality(Seen) /\ MaxSession <= Cardinality(Conns)
        /\ Cardinality(Conns) \in Nat
    BY <2>1, ReplicationAssumption, FS_CardinalityType DEF AcceptInv
  <2> QED
    BY <1>1, <1>4, <2>2
<1>6. \E f \in Fds : sock[f] = 0
  <2> SUFFICES ASSUME \A f \in Fds : sock[f] # 0 PROVE FALSE
    OBVIOUS
  <2>1. sock \in [Fds -> Seen] /\ \A f, g \in Fds : sock[f] = sock[g] => f = g
    BY DEF AcceptInv, TypeOK
  <2>2. sock \in Injection(Fds, Seen)
    BY <2>1, Fun_IsInj
  <2>3. Cardinality(Fds) <= Cardinality(Seen)
    BY <1>4, <2>2, FS_Injection
  <2> QED
    BY <1>1, <1>4, <2>3 DEF Fds, Sessions
<1>7. LowestFd \in Fds /\ sock[LowestFd] = 0
  <2> DEFINE T == {f \in Fds : sock[f] = 0}
  <2>1. T \in SUBSET Nat /\ T # {}
    BY <1>6 DEF Fds
  <2>2. PICK m \in T : \A k \in T : m <= k
    BY <2>1, LeastNumber
  <2>3. m \in Fds /\ sock[m] = 0 /\ \A g \in 1..(m - 1) : sock[g] # 0
    <3>1. m \in 1..MaxSession /\ sock[m] = 0
      BY <2>2 DEF Fds
    <3>2. \A g \in 1..(m - 1) : g \in Fds /\ ~(m <= g)
      BY <1>1, <3>1 DEF Fds
    <3> QED
      BY <2>2, <3>1, <3>2
  <2> QED
    BY <2>3 DEF LowestFd
<1> QED
  BY <1>2, <1>4, <1>5, <1>7

\* conn_new() takes the structure on top of the free stack, or a new one.
LEMMA AcceptStep ==
  ASSUME IInv, NEW s \in Sessions, Accept(s)
  PROVE  IInv'
<1>0. PICK c : c = IF freeconns # <<>> THEN freeconns[Len(freeconns)] ELSE NewConn
  OBVIOUS
<1> DEFINE fd == LowestFd
<1>1. TypeOK /\ AcceptInv /\ StructInv /\ OwnInv /\ StreamInv /\ BackupInv /\ ConfirmInv
  BY DEF IInv
<1>2. /\ client[s] = "new"
      /\ freeconns' = IF freeconns = <<>> THEN freeconns
                      ELSE SubSeq(freeconns, 1, Len(freeconns) - 1)
      /\ fresh' = fresh \ {c}
      /\ conn' = [conn EXCEPT ![c] = [st |-> "read", fd |-> fd, noreply |-> FALSE]]
      /\ sock' = [sock EXCEPT ![fd] = s]
      /\ client' = [client EXCEPT ![s] = "open"]
      /\ UNCHANGED <<stream, issued, got, toBackup, toPrimary, held, cut, dead, Reached,
                     orphaned, merged>>
  BY <1>0 DEF Reached, Accept
<1>3. /\ fresh # {} /\ fd \in Fds /\ sock[fd] = 0
      /\ IsFiniteSet(Seen) /\ Cardinality(Seen) \in Nat /\ s \notin Seen
  BY <1>1, <1>2, RoomToAccept
<1>4. fresh \subseteq Conns /\ freeconns \in Seq(Conns)
  BY <1>1 DEF TypeOK
<1>5. /\ c \in Conns
      /\ freeconns = <<>> => c \in fresh
      /\ freeconns # <<>> => Len(freeconns) \in DOMAIN freeconns /\ c = freeconns[Len(freeconns)]
  <2>1. CASE freeconns = <<>>
    BY <1>0, <1>3, <1>4, <2>1 DEF NewConn
  <2>2. CASE freeconns # <<>>
    <3>1. Len(freeconns) \in DOMAIN freeconns
      BY <1>4, <2>2
    <3> QED
      BY <1>0, <1>4, <2>2, <3>1
  <2> QED
    BY <2>1, <2>2
<1>6. /\ freeconns' \in Seq(Conns)
      /\ \A i \in DOMAIN freeconns' :
            i \in DOMAIN freeconns /\ freeconns'[i] = freeconns[i] /\ i # Len(freeconns)
  <2>1. CASE freeconns = <<>>
    BY <1>2, <1>4, <2>1
  <2>2. CASE freeconns # <<>>
    <3>1. freeconns' = SubSeq(freeconns, 1, Len(freeconns) - 1) /\ Len(freeconns) \in Nat \ {0}
      BY <1>2, <1>4, <2>2
    <3> QED
      BY <1>4, <3>1
  <2> QED
    BY <2>1, <2>2
<1> HIDE DEF fd
<1>7. /\ conn'[c] = [st |-> "read", fd |-> fd, noreply |-> FALSE]
      /\ \A d \in Conns : d # c => conn'[d] = conn[d]
      /\ sock'[fd] = s /\ \A f \in Fds : f # fd => sock'[f] = sock[f]
      /\ conn' \in [Conns -> [st : {"closed", "read", "nread"}, fd : Fds \cup {0},
                              noreply : BOOLEAN]]
      /\ sock' \in [Fds -> Sessions \cup {0}]
      /\ client' \in [Sessions -> {"new", "open", "left"}]
  <2>1. [st |-> "read", fd |-> fd, noreply |-> FALSE]
          \in [st : {"closed", "read", "nread"}, fd : Fds \cup {0}, noreply : BOOLEAN]
    BY <1>3
  <2> QED
    BY <1>1, <1>2, <1>3, <1>5, <2>1 DEF TypeOK
<1>8. TypeOK'
  <2>1. fresh' \in SUBSET Conns
    BY <1>2, <1>4
  <2> QED
    BY <1>1, <1>2, <1>6, <1>7, <2>1 DEF TypeOK
<1>9. s # 0 /\ fd # 0
  BY <1>3 DEF Sessions, Fds
<1>10. AcceptInv'
  <2>1. Seen' = Seen \cup {s}
    BY <1>1, <1>2 DEF Seen, TypeOK
  <2>2. Cardinality(Seen') = Cardinality(Seen) + 1
    BY <1>3, <2>1, FS_AddElement
  <2>3. Conns \ fresh' = (Conns \ fresh) \cup {c}
    BY <1>2, <1>5
  <2>4. IsFiniteSet(Conns \ fresh) /\ Cardinality(Conns \ fresh) \in Nat
    BY ReplicationAssumption, FS_Subset, FS_CardinalityType
  <2>5. Cardinality(Conns \ fresh') <= Cardinality(Conns \ fresh) + 1
    BY <2>3, <2>4, FS_AddElement
  <2>6. Cardinality(Conns \ fresh') \in Nat
    BY <2>3, <2>4, FS_AddElement, FS_CardinalityType
  <2>7. Cardinality(Conns \ fresh') <= Cardinality(Seen')
    BY <1>1, <1>3, <2>2, <2>4, <2>5, <2>6 DEF AcceptInv
  <2>8. \A f \in Fds : sock'[f] # 0 => sock'[f] \in Seen'
    BY <1>1, <1>7, <2>1 DEF AcceptInv
  <2>9. \A f, g \in Fds : sock'[f] # 0 /\ sock'[f] = sock'[g] => f = g
    BY <1>1, <1>3, <1>7 DEF AcceptInv
  <2> QED
    BY <2>7, <2>8, <2>9 DEF AcceptInv
<1>11. Flying' = Flying /\ \A r \in Flying : r.ptr \in Conns
  <2>1. \A r \in Flying : r \in Request
    BY <1>1 DEF TypeOK, Flying
  <2> QED
    BY <1>2, <2>1 DEF Flying, Request
<1>12. Opened(c)' /\ conn'[c].fd = fd /\ \A d \in Conns : d # c =>
          Opened(d)' = Opened(d) /\ conn'[d].fd = conn[d].fd
  <2>1. conn'[c].st = "read" /\ conn'[c].fd = fd
    BY <1>7
  <2>2. Opened(c)'
    BY <2>1 DEF Opened
  <2>3. ASSUME NEW d \in Conns, d # c
        PROVE  Opened(d)' = Opened(d) /\ conn'[d].fd = conn[d].fd
    <3>1. conn'[d] = conn[d]
      BY <1>7, <2>3
    <3> QED
      BY <3>1 DEF Opened
  <2> QED
    BY <2>1, <2>2, <2>3
<1>13. StructInv'
  <2>1. \A d \in Conns : Opened(d) => conn[d].fd \in Fds /\ sock[conn[d].fd] # 0
                                      /\ conn[d].fd # fd
    BY <1>1, <1>3 DEF StructInv
  <2>2. \A d \in Conns : Opened(d)' => conn'[d].fd \in Fds /\ sock'[conn'[d].fd] # 0
    BY <1>3, <1>7, <1>9, <1>12, <2>1
  <2>3. \A d, e \in Conns : Opened(d)' /\ Opened(e)' /\ conn'[d].fd = conn'[e].fd => d = e
    BY <1>1, <1>12, <2>1 DEF StructInv
  <2>4. \A d \in Conns \ fresh' : conn'[d].fd \in Fds
    BY <1>1, <1>2, <1>3, <1>12 DEF StructInv
  <2>5. \A d \in fresh' : ~Opened(d)'
    BY <1>1, <1>2, <1>4, <1>12 DEF StructInv
  <2>6. \A i \in DOMAIN freeconns' : freeconns'[i] \notin fresh'
    BY <1>1, <1>2, <1>6 DEF StructInv
  <2>7. \A r \in Flying' : r.ptr \notin fresh'
    BY <1>1, <1>2, <1>11 DEF StructInv
  <2> QED
    BY <2>2, <2>3, <2>4, <2>5, <2>6, <2>7 DEF StructInv
<1>14. OwnInv'
  <2> SUFFICES ASSUME ~orphaned PROVE OwnInv'
    BY <1>2 DEF OwnInv
  <2>1. ~Opened(c)
    BY <1>1, <1>5 DEF OwnInv, StructInv
  <2>2. ASSUME NEW i \in DOMAIN freeconns'
        PROVE  /\ conn'[freeconns'[i]].st = "closed"
               /\ \A j \in DOMAIN freeconns' : freeconns'[i] = freeconns'[j] => i = j
    <3>1. freeconns # <<>>
      BY <1>6
    <3>2. /\ freeconns[i] \in Conns /\ ~Opened(freeconns[i])
          /\ \A j \in DOMAIN freeconns : freeconns[i] = freeconns[j] => i = j
      BY <1>1, <1>4, <1>6 DEF OwnInv
    <3>3. freeconns[i] # c
      BY <1>5, <1>6, <3>1, <3>2
    <3> QED
      BY <1>6, <1>7, <3>2, <3>3 DEF Opened
  <2>3. \A f \in Fds : sock'[f] # 0 => \E d \in Conns : Opened(d)' /\ conn'[d].fd = f
    <3> SUFFICES ASSUME NEW f \in Fds, sock'[f] # 0
                 PROVE  \E d \in Conns : Opened(d)' /\ conn'[d].fd = f
      OBVIOUS
    <3>1. CASE f = fd
      BY <1>5, <1>12, <3>1
    <3>2. CASE f # fd
      <4>1. PICK d \in Conns : Opened(d) /\ conn[d].fd = f
        BY <1>1, <1>7, <3>2 DEF OwnInv
      <4> QED
        BY <1>12, <2>1, <4>1
    <3> QED
      BY <3>1, <3>2
  <2>4. \A r \in Flying' : Opened(r.ptr)' /\ SessionOf(r.ptr)' = r.s
    <3> SUFFICES ASSUME NEW r \in Flying PROVE Opened(r.ptr)' /\ SessionOf(r.ptr)' = r.s
      BY <1>11
    <3>1. r.ptr \in Conns /\ Opened(r.ptr) /\ sock[conn[r.ptr].fd] = r.s
      BY <1>1, <1>11 DEF OwnInv, SessionOf
    <3>2. r.ptr # c /\ conn[r.ptr].fd \in Fds /\ conn[r.ptr].fd # fd
      BY <1>1, <1>3, <2>1, <3>1 DEF StructInv
    <3> QED
      BY <1>7, <1>12, <3>1, <3>2 DEF SessionOf
  <2> QED
    BY <2>2, <2>3, <2>4 DEF OwnInv, Opened
<1>15. StreamInv' /\ BackupInv'
  BY <1>1, <1>2, ZenonT(60) DEF StreamInv, BackupInv
<1>16. ConfirmInv'
  <2>1. \A t \in Sessions : NStored(t)' = NStored(t) /\ NStored(t) \in Nat
    BY <1>1, <1>2, CountersType DEF NStored
  <2> QED
    BY <1>1, <1>2, <1>8, <2>1, ConfirmFrame
<1> QED
  BY <1>8, <1>10, <1>13, <1>14, <1>15, <1>16 DEF IInv

\* conn_close() puts the structure on the free stack.
LEMMA ReadEofInv ==
  ASSUME IInv, NEW c \in Conns, ReadEof(c)
  PROVE  IInv'
<1> DEFINE fd == conn[c].fd
<1>1. TypeOK /\ AcceptInv /\ StructInv /\ OwnInv /\ StreamInv /\ BackupInv /\ ConfirmInv
  BY DEF IInv
<1>2. /\ Opened(c)
      /\ conn' = [conn EXCEPT ![c].st = "closed"]
      /\ freeconns' = Append(freeconns, c)
      /\ sock' = [sock EXCEPT ![fd] = 0]
      /\ orphaned' = (orphaned \/ Due(c))
      /\ UNCHANGED <<fresh, client, stream, issued, got, toBackup, toPrimary, held, cut, dead, Reached, merged>>
  BY DEF Reached, ReadEof, ConnClose, Opened
<1>3. fd \in Fds /\ c \notin fresh
  BY <1>1, <1>2 DEF StructInv
<1>4. fresh \subseteq Conns /\ freeconns \in Seq(Conns)
  BY <1>1 DEF TypeOK
<1>5. /\ ~Opened(c)' /\ conn'[c].fd = fd
      /\ \A d \in Conns : d # c => conn'[d] = conn[d]
      /\ conn' \in [Conns -> [st : {"closed", "read", "nread"}, fd : Fds \cup {0},
                              noreply : BOOLEAN]]
  BY <1>1, <1>2 DEF TypeOK, Opened
<1>6. /\ sock'[fd] = 0 /\ \A f \in Fds : f # fd => sock'[f] = sock[f]
      /\ sock' \in [Fds -> Sessions \cup {0}]
  BY <1>1, <1>2, <1>3 DEF TypeOK
<1>7. /\ freeconns' \in Seq(Conns)
      /\ \A i \in DOMAIN freeconns' :
            \/ i \in DOMAIN freeconns /\ freeconns'[i] = freeconns[i]
            \/ i = Len(freeconns) + 1 /\ freeconns'[i] = c
  BY <1>2, <1>4
<1>8. TypeOK'
  <2>1. orphaned' \in BOOLEAN
    BY <1>1, <1>2 DEF TypeOK, Due
  <2> QED
    BY <1>1, <1>2, <1>5, <1>6, <1>7, <2>1 DEF TypeOK
<1>9. Flying' = Flying /\ \A r \in Flying : r.ptr \in Conns
  <2>1. \A r \in Flying : r \in Request
    BY <1>1 DEF TypeOK, Flying
  <2> QED
    BY <1>2, <2>1 DEF Flying, Request
<1> HIDE DEF fd
<1>10. \A d \in Conns : conn'[d].fd = conn[d].fd /\ (Opened(d)' <=> Opened(d) /\ d # c)
  BY <1>5 DEF Opened, fd
<1>11. \A d \in Conns : Opened(d) /\ d # c => conn[d].fd \in Fds /\ conn[d].fd # fd
  BY <1>1, <1>2 DEF StructInv, fd
<1>12. AcceptInv'
  <2>1. Seen' = Seen /\ \A f \in Fds : sock'[f] \in {sock[f], 0}
    BY <1>2, <1>6 DEF Seen
  <2> QED
    BY <1>1, <1>2, <2>1, AcceptFrame
<1>13. StructInv'
  <2>1. \A d \in Conns : Opened(d)' => conn'[d].fd \in Fds /\ sock'[conn'[d].fd] # 0
    BY <1>1, <1>6, <1>10, <1>11 DEF StructInv
  <2>2. \A d, e \in Conns : Opened(d)' /\ Opened(e)' /\ conn'[d].fd = conn'[e].fd => d = e
    BY <1>1, <1>10 DEF StructInv
  <2>3. \A d \in Conns \ fresh' : conn'[d].fd \in Fds
    BY <1>1, <1>2, <1>10 DEF StructInv
  <2>4. \A d \in fresh' : ~Opened(d)'
    BY <1>1, <1>2, <1>4, <1>10 DEF StructInv
  <2>5. \A i \in DOMAIN freeconns' : freeconns'[i] \notin fresh'
    BY <1>1, <1>2, <1>3, <1>7 DEF StructInv
  <2>6. \A r \in Flying' : r.ptr \notin fresh'
    BY <1>1, <1>2, <1>9 DEF StructInv
  <2> QED
    BY <2>1, <2>2, <2>3, <2>4, <2>5, <2>6 DEF StructInv
<1>14. OwnInv'
  <2> SUFFICES ASSUME ~orphaned, ~Due(c) PROVE OwnInv'
    BY <1>2 DEF OwnInv
  <2>1. \A i \in DOMAIN freeconns : freeconns[i] \in Conns /\ freeconns[i] # c
                                    /\ ~Opened(freeconns[i])
    BY <1>1, <1>2, <1>4 DEF OwnInv
  <2>2. ASSUME NEW i \in DOMAIN freeconns'
        PROVE  /\ conn'[freeconns'[i]].st = "closed"
               /\ \A j \in DOMAIN freeconns' : freeconns'[i] = freeconns'[j] => i = j
    <3>1. conn'[freeconns'[i]].st = "closed"
      BY <1>5, <1>7, <2>1 DEF Opened
    <3>2. \A j \in DOMAIN freeconns' : freeconns'[i] = freeconns'[j] => i = j
      BY <1>1, <1>7, <2>1 DEF OwnInv
    <3> QED
      BY <3>1, <3>2
  <2>3. ASSUME NEW f \in Fds, sock'[f] # 0
        PROVE  \E d \in Conns : Opened(d)' /\ conn'[d].fd = f
    <3>1. f # fd /\ sock[f] # 0
      BY <1>6, <2>3
    <3>2. PICK d \in Conns : Opened(d) /\ conn[d].fd = f
      BY <1>1, <3>1 DEF OwnInv
    <3>3. d # c
      BY <3>1, <3>2 DEF fd
    <3> QED
      BY <1>10, <3>2, <3>3
  <2>4. ASSUME NEW r \in Flying
        PROVE  Opened(r.ptr)' /\ SessionOf(r.ptr)' = r.s
    <3>1. r.ptr \in Conns /\ Opened(r.ptr) /\ sock[conn[r.ptr].fd] = r.s
      BY <1>1, <1>9 DEF OwnInv, SessionOf
    <3>2. r.ptr # c
      BY DEF Due, Flying
    <3>3. conn[r.ptr].fd \in Fds /\ conn[r.ptr].fd # fd
      BY <1>11, <3>1, <3>2
    <3> QED
      BY <1>6, <1>10, <3>1, <3>2, <3>3 DEF SessionOf
  <2> QED
    BY <1>9, <2>2, <2>3, <2>4 DEF OwnInv, Opened
<1>15. StreamInv' /\ BackupInv'
  BY <1>1, <1>2 DEF StreamInv, BackupInv
<1>16. ConfirmInv'
  <2>1. \A t \in Sessions : NStored(t)' = NStored(t) /\ NStored(t) \in Nat
    BY <1>1, <1>2, CountersType DEF NStored
  <2>2. (orphaned => orphaned') /\ toPrimary' = toPrimary /\ Reached' = Reached
    BY <1>2, Zenon
  <2>3. \A t \in Sessions : NStored(t)' <= NStored(t)
    BY <2>1
  <2> QED
    BY <1>1, <1>8, <2>2, <2>3, ConfirmFrame
<1> QED
  BY <1>8, <1>12, <1>13, <1>14, <1>15, <1>16 DEF IInv

\* The handler of a BACKUP_REPLY takes the first one.
LEMMA ReplyFacts ==
  ASSUME TypeOK, StructInv, toPrimary # <<>>, toPrimary' = Tail(toPrimary), UNCHANGED toBackup
  PROVE  /\ Head(toPrimary) \in Request /\ Head(toPrimary) \in Flying
         /\ Head(toPrimary).ptr \in Conns \ fresh
         /\ toPrimary' \in Seq(Request) /\ Flying' \subseteq Flying
<1>1. toPrimary \in Seq(Request)
  BY DEF TypeOK
<1>2. /\ Len(toPrimary) \in Nat \ {0} /\ DOMAIN toPrimary = 1..Len(toPrimary)
      /\ DOMAIN toPrimary' = 1..(Len(toPrimary) - 1)
      /\ \A i \in 1..(Len(toPrimary) - 1) : toPrimary'[i] = toPrimary[i + 1]
      /\ Head(toPrimary) = toPrimary[1] /\ Head(toPrimary) \in Request
      /\ toPrimary' \in Seq(Request)
  BY <1>1, TailFacts
<1>3. Head(toPrimary) \in Flying /\ Flying' \subseteq Flying
  BY <1>2 DEF Flying
<1> QED
  BY <1>2, <1>3 DEF StructInv, Request

\* A BACKUP_REPLY for a structure that is open: as long as nothing was closed
\* with a confirmation due, it is the client whose set is confirmed.
LEMMA ReplyOpenInv ==
  ASSUME IInv, ReplyOpen
  PROVE  IInv'
<1>0. PICK r : r = Head(toPrimary)
  OBVIOUS
<1>1. TypeOK /\ AcceptInv /\ StructInv /\ OwnInv /\ StreamInv /\ BackupInv /\ ConfirmInv
  BY DEF IInv
<1>2. /\ toPrimary # <<>> /\ toPrimary' = Tail(toPrimary)
      /\ Opened(r.ptr)
      /\ OutString(r.ptr, "STORED", conn[r.ptr].noreply)
      /\ UNCHANGED <<freeconns, fresh, sock, client, stream, issued, toBackup, held, cut, dead, Reached,
                     orphaned, merged>>
  BY <1>0 DEF Reached, ReplyOpen, Opened
<1>3. /\ r \in Request /\ r \in Flying /\ r.ptr \in Conns
      /\ toPrimary' \in Seq(Request) /\ Flying' \subseteq Flying
  BY <1>0, <1>1, <1>2, ReplyFacts
<1>4. /\ conn' \in [Conns -> [st : {"closed", "read", "nread"}, fd : Fds \cup {0},
                              noreply : BOOLEAN]]
      /\ got' \in [Sessions -> Seq(Replies)]
      /\ ConnsKept
      /\ \A t \in Sessions : NStored(t)' <=
            NStored(t) + (IF t = SessionOf(r.ptr) THEN 1 ELSE 0)
  <2>1. "STORED" \in Replies
    BY DEF Replies
  <2> QED
    BY <1>1, <1>2, <1>3, <2>1, OutStringFacts
<1>5. TypeOK'
  BY <1>1, <1>2, <1>3, <1>4 DEF TypeOK
<1>6. AcceptInv' /\ StructInv' /\ OwnInv'
  BY <1>1, <1>2, <1>3, <1>4, AcceptFrame, StructFrame, OwnFrame DEF Seen
<1>7. StreamInv' /\ BackupInv'
  BY <1>1, <1>2 DEF StreamInv, BackupInv
<1>8. ConfirmInv'
  <2> SUFFICES ASSUME ~orphaned, NEW s \in Sessions
               PROVE  NStored(s)' + CountIn(toPrimary', For(s)) <= NReached(s)'
    BY <1>2 DEF ConfirmInv, For
  <2>1. SessionOf(r.ptr) = r.s
    BY <1>1, <1>3 DEF OwnInv
  <2>2. NStored(s) + CountIn(toPrimary, For(s)) <= NReached(s) /\ NReached(s)' = NReached(s)
    BY <1>1, <1>2 DEF ConfirmInv, NReached
  <2>3. CountIn(toPrimary', For(s)) + (IF r \in For(s) THEN 1 ELSE 0)
          <= CountIn(toPrimary, For(s))
    <3>1. toPrimary \in Seq(Request)
      BY <1>1 DEF TypeOK
    <3> QED
      BY <1>0, <1>2, <3>1, TailCount
  <2>4. r \in For(s) <=> s = r.s
    BY <1>3 DEF For
  <2>5. /\ NStored(s) \in Nat /\ NReached(s) \in Nat /\ CountIn(toPrimary, For(s)) \in Nat
        /\ CountIn(toPrimary', For(s)) \in Nat /\ NStored(s)' \in Nat
    <3>1. got'[s] \in Seq(Replies) /\ NStored(s)' = CountIn(got'[s], {"STORED"})
      BY <1>4 DEF NStored, CountIn
    <3> QED
      BY <1>1, <1>3, <3>1, CountersType, CountType
  <2>6. NStored(s)' <= NStored(s) + (IF s = r.s THEN 1 ELSE 0)
    BY <1>4, <2>1
  <2> QED
    BY <2>2, <2>3, <2>4, <2>5, <2>6
<1> QED
  BY <1>5, <1>6, <1>7, <1>8 DEF IInv

\* A BACKUP_REPLY for a structure on the free stack comes only when one was
\* closed with a confirmation due.
LEMMA ReplyClosedInv ==
  ASSUME IInv, ReplyClosed
  PROVE  IInv'
<1>0. PICK c : c = Head(toPrimary).ptr
  OBVIOUS
<1>1. TypeOK /\ AcceptInv /\ StructInv /\ OwnInv /\ StreamInv /\ BackupInv
  BY DEF IInv
<1>2. /\ toPrimary # <<>> /\ toPrimary' = Tail(toPrimary)
      /\ ~Opened(c)
      /\ UNCHANGED <<fresh, client, stream, issued, toBackup, held, cut, dead, Reached,
                     orphaned, merged>>
  BY <1>0 DEF Reached, ReplyClosed, Opened
<1>3. /\ Head(toPrimary) \in Flying /\ c \in Conns \ fresh
      /\ toPrimary' \in Seq(Request) /\ Flying' \subseteq Flying
  BY <1>0, <1>1, <1>2, ReplyFacts
<1>4. orphaned /\ orphaned'
  BY <1>0, <1>1, <1>2, <1>3 DEF OwnInv
<1>5. conn[c].fd \in Fds /\ SessionOf(c) \in Sessions \cup {0}
  BY <1>1, <1>3 DEF StructInv, TypeOK, SessionOf
<1>6. /\ conn' \in [Conns -> [st : {"closed", "read", "nread"}, fd : Fds \cup {0},
                              noreply : BOOLEAN]]
      /\ ConnsKept /\ sock' = sock /\ got' \in [Sessions -> Seq(Replies)]
      /\ freeconns' \in Seq(Conns)
      /\ \A i \in DOMAIN freeconns' : freeconns'[i] \notin fresh
  <2>1. /\ conn \in [Conns -> [st : {"closed", "read", "nread"}, fd : Fds \cup {0},
                               noreply : BOOLEAN]]
        /\ got \in [Sessions -> Seq(Replies)] /\ freeconns \in Seq(Conns)
        /\ sock \in [Fds -> Sessions \cup {0}]
        /\ \A i \in DOMAIN freeconns : freeconns[i] \notin fresh
    BY <1>1 DEF TypeOK, StructInv
  <2>2. CASE /\ conn' = [conn EXCEPT ![c].noreply = FALSE]
             /\ UNCHANGED <<freeconns, sock, got>>
    <3>1. /\ conn' \in [Conns -> [st : {"closed", "read", "nread"}, fd : Fds \cup {0},
                                  noreply : BOOLEAN]]
          /\ ConnsKept
      BY <1>3, <2>1, <2>2 DEF ConnsKept, Opened
    <3> QED
      BY <2>1, <2>2, <3>1
  <2>3. CASE /\ SessionOf(c) # 0 /\ Deliver(SessionOf(c), "STORED")
             /\ UNCHANGED <<conn, freeconns, sock>>
    <3>1. got' = got \/ got' = [got EXCEPT ![SessionOf(c)] = Append(@, "STORED")]
      BY <2>3 DEF Deliver
    <3>2. SessionOf(c) \in Sessions /\ Append(got[SessionOf(c)], "STORED") \in Seq(Replies)
      BY <1>5, <2>1, <2>3 DEF Replies
    <3>3. got' \in [Sessions -> Seq(Replies)]
      BY <2>1, <3>1, <3>2
    <3> QED
      BY <2>1, <2>3, <3>3 DEF ConnsKept, Opened
  <2>4. CASE SessionOf(c) = 0 /\ ConnClose(c) /\ UNCHANGED got
    <3>1. /\ conn' = [conn EXCEPT ![c].st = "closed"] /\ freeconns' = Append(freeconns, c)
          /\ sock' = [sock EXCEPT ![conn[c].fd] = 0] /\ sock[conn[c].fd] = 0
      BY <2>4 DEF ConnClose, SessionOf
    <3>2. sock' = sock
      BY <1>5, <2>1, <3>1
    <3>3. /\ conn' \in [Conns -> [st : {"closed", "read", "nread"}, fd : Fds \cup {0},
                                  noreply : BOOLEAN]]
          /\ ConnsKept
      BY <1>2, <1>3, <2>1, <3>1 DEF ConnsKept, Opened
    <3>4. freeconns' \in Seq(Conns) /\ \A i \in DOMAIN freeconns' : freeconns'[i] \notin fresh
      BY <1>3, <2>1, <3>1
    <3> QED
      BY <2>1, <2>4, <3>2, <3>3, <3>4
  <2> QED
    BY <1>0, <2>2, <2>3, <2>4 DEF ReplyClosed
<1>7. TypeOK'
  BY <1>1, <1>2, <1>3, <1>6 DEF TypeOK
<1>8. AcceptInv'
  BY <1>1, <1>2, <1>6, AcceptFrame DEF Seen
<1>9. StructInv'
  <2>1. \A d \in Conns : Opened(d)' = Opened(d) /\ conn'[d].fd = conn[d].fd
    BY <1>6 DEF ConnsKept
  <2>2. fresh' = fresh /\ fresh \subseteq Conns
    BY <1>1, <1>2 DEF TypeOK
  <2>3. \A r \in Flying' : r.ptr \notin fresh
    BY <1>1, <1>3 DEF StructInv
  <2> QED
    BY <1>1, <1>6, <2>1, <2>2, <2>3 DEF StructInv
<1>10. OwnInv' /\ ConfirmInv'
  BY <1>4 DEF OwnInv, ConfirmInv
<1>11. StreamInv' /\ BackupInv'
  BY <1>1, <1>2, SMTT(40) DEF Reached, StreamInv, BackupInv
<1> QED
  BY <1>7, <1>8, <1>9, <1>10, <1>11 DEF IInv

\* The backup takes the requests of one read, and confirms the first: its set was
\* not reached before.  Or it dies of them.
LEMMA ReadInv ==
  ASSUME IInv, NEW n \in 1..MaxBatch, Read(n),
         held' \in SUBSET (Sessions \X (1..MaxOps)), cut' \in SUBSET (Sessions \X (1..MaxOps)),
         dead' \in BOOLEAN,
         \/ Reached' = Reached \cup First(n) /\ toPrimary' = Append(toPrimary, toBackup[1])
         \/ Reached' = Reached /\ toPrimary' = toPrimary
  PROVE  IInv'
<1> DEFINE r == toBackup[1]
           new == First(n)
<1>1. TypeOK /\ AcceptInv /\ StructInv /\ OwnInv /\ StreamInv /\ BackupInv /\ ConfirmInv
  BY DEF IInv
<1>2. toBackup \in Seq(Request) /\ toPrimary \in Seq(Request) /\ n \in Nat \ {0}
      /\ n <= Len(toBackup) /\ Len(toBackup) \in Nat
      /\ DOMAIN toBackup = 1..Len(toBackup)
  BY <1>1, ReplicationAssumption DEF TypeOK, Read
<1>4. r \in Request
  BY <1>2
<1>5. /\ Reached' \subseteq Reached \cup new
      /\ toPrimary' = Append(toPrimary, r) \/ toPrimary' = toPrimary
      /\ toBackup' = SubSeq(toBackup, n + 1, Len(toBackup))
      /\ merged' = (merged \/ n > 1)
      /\ UNCHANGED <<conn, freeconns, fresh, sock, client, stream, issued, got, orphaned>>
  BY DEF Read
<1>6. /\ toBackup' \in Seq(Request)
      /\ \A i \in DOMAIN toBackup' :
            i \in Nat \ {0} /\ i + n \in DOMAIN toBackup /\ toBackup'[i] = toBackup[i + n]
  <2>1. \A i \in 1..(Len(toBackup) - n) :
           SubSeq(toBackup, n + 1, Len(toBackup))[i] = toBackup[i + n]
    BY <1>2
  <2>2. DOMAIN SubSeq(toBackup, n + 1, Len(toBackup)) = 1..(Len(toBackup) - n)
        /\ SubSeq(toBackup, n + 1, Len(toBackup)) \in Seq(Request)
    BY <1>2
  <2> QED
    BY <1>2, <1>5, <2>1, <2>2, SMTT(40)
<1>7. /\ toPrimary' \in Seq(Request)
      /\ \A i \in DOMAIN toPrimary' :
            \/ i \in DOMAIN toPrimary /\ toPrimary'[i] = toPrimary[i]
            \/ toPrimary'[i] = r
  <2>1. CASE toPrimary' = toPrimary
    BY <1>2, <2>1
  <2>2. CASE toPrimary' = Append(toPrimary, r)
    <3> HIDE DEF r
    <3> QED
      BY <1>2, <1>4, <2>2
  <2> QED
    BY <1>5, <2>1, <2>2
<1>8. \A i \in DOMAIN toBackup : toBackup[i] \in Request /\ toBackup[i].s \in Sessions
                                 /\ toBackup[i].n \in 1..MaxOps
  <2>1. \A i \in DOMAIN toBackup : toBackup[i] \in Request
    BY <1>2
  <2>2. \A q \in Request : q.s \in Sessions /\ q.n \in 1..MaxOps
    BY DEF Request
  <2> QED
    BY <2>1, <2>2
<1>9. Reached' \in SUBSET (Sessions \X (1..MaxOps)) /\ Reached \in SUBSET (Sessions \X (1..MaxOps))
  BY <1>1 DEF TypeOK, Reached
<1>10. TypeOK'
  <2>1. merged' \in BOOLEAN
    BY <1>1, <1>5 DEF TypeOK
  <2> QED
    BY <1>1, <1>5, <1>6, <1>7, <1>9, <2>1 DEF TypeOK
<1>11. Flying' \subseteq Flying
  <2>1. 1 \in DOMAIN toBackup
    BY <1>2
  <2>2. \A i \in DOMAIN toBackup : toBackup[i] \in Flying
    BY DEF Flying
  <2>3. \A i \in DOMAIN toPrimary : toPrimary[i] \in Flying
    BY DEF Flying
  <2>4. \A i \in DOMAIN toBackup' : toBackup'[i] \in Flying
    BY <1>6, <2>2
  <2>5. \A i \in DOMAIN toPrimary' : toPrimary'[i] \in Flying
    BY <1>7, <2>1, <2>2, <2>3
  <2> QED
    BY <2>4, <2>5 DEF Flying
<1>12. ConnsKept /\ Seen' = Seen
  BY <1>5 DEF ConnsKept, Opened, Seen
<1>13. AcceptInv' /\ StructInv' /\ OwnInv'
  BY <1>1, <1>5, <1>11, <1>12, AcceptFrame, StructFrame, OwnFrame
<1> HIDE DEF r, new
<1>14. \A h \in new : \E k \in 1..n : h = <<toBackup[k].s, toBackup[k].n>> /\ k \in DOMAIN toBackup
  BY <1>2 DEF new, First
<1>15. StreamInv'
  <2> SUFFICES ASSUME NEW t \in Sessions, NEW i \in DOMAIN stream[t]
               PROVE  /\ stream[t][i].n <= Len(issued[t])
                      /\ stream[t][i].kind = "data" =>
                            /\ <<t, stream[t][i].n>> \notin Reached'
                            /\ \A j \in DOMAIN toBackup' :
                                  ~(toBackup'[j].s = t /\ toBackup'[j].n = stream[t][i].n)
                            /\ \A j \in DOMAIN stream[t] :
                                  stream[t][j].kind = "data"
                                    /\ stream[t][j].n = stream[t][i].n => i = j
    BY <1>5, ZenonT(60) DEF StreamInv
  <2>1. /\ stream[t][i].n <= Len(issued[t])
        /\ stream[t][i].kind = "data" =>
              /\ <<t, stream[t][i].n>> \notin Reached
              /\ \A j \in DOMAIN toBackup :
                    ~(toBackup[j].s = t /\ toBackup[j].n = stream[t][i].n)
              /\ \A j \in DOMAIN stream[t] :
                    stream[t][j].kind = "data" /\ stream[t][j].n = stream[t][i].n => i = j
    BY <1>1 DEF StreamInv
  <2>2. stream[t][i].kind = "data" => <<t, stream[t][i].n>> \notin new
    BY <1>14, <2>1
  <2>3. stream[t][i].kind = "data" =>
           \A j \in DOMAIN toBackup' :
              ~(toBackup'[j].s = t /\ toBackup'[j].n = stream[t][i].n)
    BY <1>6, <2>1
  <2> QED
    BY <1>5, <2>1, <2>2, <2>3
<1>16. BackupInv'
  <2>1. /\ \A i \in DOMAIN toBackup : toBackup[i].n <= Len(issued[toBackup[i].s])
        /\ \A i \in DOMAIN toBackup : <<toBackup[i].s, toBackup[i].n>> \notin Reached
        /\ \A i, j \in DOMAIN toBackup :
              toBackup[i].s = toBackup[j].s /\ toBackup[i].n = toBackup[j].n => i = j
        /\ \A h \in Reached : h[2] <= Len(issued[h[1]])
    BY <1>1 DEF BackupInv
  <2>2. ASSUME NEW i \in DOMAIN toBackup'
        PROVE  /\ toBackup'[i].n <= Len(issued[toBackup'[i].s])
               /\ <<toBackup'[i].s, toBackup'[i].n>> \notin Reached'
               /\ \A j \in DOMAIN toBackup' :
                     toBackup'[i].s = toBackup'[j].s /\ toBackup'[i].n = toBackup'[j].n => i = j
    <3>1. toBackup'[i].n <= Len(issued[toBackup'[i].s])
          /\ <<toBackup'[i].s, toBackup'[i].n>> \notin Reached
      BY <1>6, <2>1
    <3>2. <<toBackup'[i].s, toBackup'[i].n>> \notin new
      <4>1. ASSUME NEW k \in 1..n, k \in DOMAIN toBackup,
                   toBackup'[i].s = toBackup[k].s, toBackup'[i].n = toBackup[k].n
            PROVE  FALSE
        <5>1. i + n = k
          BY <1>6, <2>1, <4>1
        <5> QED
          BY <1>2, <1>6, <5>1
      <4> QED
        BY <1>14, <4>1
    <3>3. ASSUME NEW j \in DOMAIN toBackup',
                 toBackup'[i].s = toBackup'[j].s, toBackup'[i].n = toBackup'[j].n
          PROVE  i = j
      <4>1. i + n = j + n /\ i \in Nat /\ j \in Nat
        BY <1>6, <2>1, <3>3
      <4> QED
        BY <1>2, <4>1
    <3> QED
      BY <1>5, <3>1, <3>2, <3>3
  <2>3. \A h \in Reached' : h[2] <= Len(issued[h[1]])
    BY <1>5, <1>14, <2>1
  <2> QED
    BY <1>5, <2>2, <2>3, Zenon DEF BackupInv
<1>17. ConfirmInv'
  <2> SUFFICES ASSUME ~orphaned, NEW s \in Sessions
               PROVE  NStored(s)' + CountIn(toPrimary', For(s)) <= NReached(s)'
    BY <1>5 DEF ConfirmInv, For
  <2>0. CASE Reached' = Reached /\ toPrimary' = toPrimary
    <3>1. NStored(s)' = NStored(s) /\ NReached(s)' = NReached(s)
      BY <1>5, <2>0 DEF NStored, NReached
    <3> QED
      BY <1>1, <2>0, <3>1 DEF ConfirmInv
  <2> SUFFICES ASSUME Reached' = Reached \cup new, toPrimary' = Append(toPrimary, r)
               PROVE  NStored(s)' + CountIn(toPrimary', For(s)) <= NReached(s)'
    BY <2>0 DEF r, new
  <2> DEFINE old == {h \in Reached : h[1] = s}
             all == {h \in Reached' : h[1] = s}
             x == <<r.s, r.n>>
  <2>1. NStored(s) + CountIn(toPrimary, For(s)) <= Cardinality(old) /\ NStored(s)' = NStored(s)
    BY <1>1, <1>5 DEF ConfirmInv, NReached, NStored
  <2>2. /\ NStored(s) \in Nat /\ CountIn(toPrimary, For(s)) \in Nat
        /\ IsFiniteSet(old) /\ Cardinality(old) \in Nat
    BY <1>1, CountersType DEF NReached
  <2>3. CountIn(toPrimary', For(s))
          = CountIn(toPrimary, For(s)) + (IF r \in For(s) THEN 1 ELSE 0)
    BY <1>2, <1>4, <1>5, AppendCount
  <2>4. r \in For(s) <=> r.s = s
    BY <1>4 DEF For
  <2>5. IsFiniteSet(all) /\ Cardinality(all) \in Nat
    <3>1. IsFiniteSet(Sessions) /\ IsFiniteSet(1..MaxOps)
      BY ReplicationAssumption, FS_Interval DEF Sessions
    <3>2. IsFiniteSet(Sessions \X (1..MaxOps))
      BY <3>1, FS_Product
    <3>3. all \in SUBSET (Sessions \X (1..MaxOps))
      BY <1>9
    <3> QED
      BY <3>2, <3>3, FS_Subset, FS_CardinalityType
  <2>6. old \in SUBSET all /\ (r.s = s => x \notin old /\ old \cup {x} \in SUBSET all)
    <3>1. 1 \in DOMAIN toBackup /\ 1 \in 1..n
      BY <1>2
    <3>2. x \notin Reached
      BY <1>1, <3>1 DEF BackupInv, r
    <3>3. x \in new
      BY <3>1 DEF r, new, First
    <3>4. x[1] = r.s
      OBVIOUS
    <3>5. x \notin old
      BY <3>2
    <3>6. r.s = s => x \in all
      BY <1>5, <3>3, <3>4
    <3>7. old \in SUBSET all
      BY <1>5
    <3> HIDE DEF x, old, all
    <3> QED
      BY <3>5, <3>6, <3>7
  <2>7. Cardinality(old) + (IF r.s = s THEN 1 ELSE 0) <= Cardinality(all)
    <3>1. CASE r.s = s
      <4>1. Cardinality(old \cup {x}) = Cardinality(old) + 1
        BY <2>2, <2>6, <3>1, FS_AddElement
      <4>2. Cardinality(old \cup {x}) <= Cardinality(all)
        BY <2>5, <2>6, <3>1, FS_Subset
      <4> QED
        BY <3>1, <4>1, <4>2
    <3>2. CASE r.s # s
      <4>1. Cardinality(old) <= Cardinality(all)
        BY <2>5, <2>6, FS_Subset
      <4> QED
        BY <2>2, <3>2, <4>1
    <3> QED
      BY <3>1, <3>2
  <2>8. NReached(s)' = Cardinality(all)
    BY DEF NReached
  <2> HIDE DEF old, all, x
  <2> QED
    BY <2>1, <2>2, <2>3, <2>4, <2>5, <2>7, <2>8
<1> QED
  BY <1>10, <1>13, <1>15, <1>16, <1>17 DEF IInv

\* So do all the ways in which a read can end.
LEMMA BackupInvariance ==
  ASSUME IInv, NEW n \in 1..MaxBatch, Backup(n)
  PROVE  IInv'
<1>1. /\ TypeOK /\ n \in Nat \ {0} /\ toBackup \in Seq(Request) /\ toPrimary \in Seq(Request)
      /\ Read(n)
  BY ReplicationAssumption
  DEF IInv, TypeOK, Backup, BackupRequest, BackupRequestPart, BackupRequestPartNull
<1>2. n <= Len(toBackup) /\ Len(toBackup) \in Nat /\ toBackup[1] \in Request
  BY <1>1 DEF Read
<1>3. ASSUME NEW k \in {n - 1, n}
      PROVE  First(k) \in SUBSET (Sessions \X (1..MaxOps)) /\ First(k) \subseteq First(n)
  <2>1. \A i \in 1..k : i \in 1..n /\ toBackup[i] \in Request
    BY <1>1, <1>2
  <2> QED
    BY <2>1 DEF First, Request
<1>4. toPrimary \o BackupAnswer(SubSeq(toBackup, 1, n)) = Append(toPrimary, toBackup[1])
  <2>1. SubSeq(toBackup, 1, n) \in Seq(Request) /\ SubSeq(toBackup, 1, n) # <<>>
        /\ SubSeq(toBackup, 1, n)[1] = toBackup[1]
    BY <1>1, <1>2
  <2>2. BackupAnswer(SubSeq(toBackup, 1, n)) = <<toBackup[1]>>
    BY <2>1 DEF BackupAnswer
  <2> QED
    BY <1>1, <1>2, <2>2
<1>5. CASE BackupRequest(n)
  <2>1. held' = held \cup First(n) /\ toPrimary' = Append(toPrimary, toBackup[1])
        /\ cut' = cut /\ dead' = dead
    BY <1>4, <1>5 DEF BackupRequest
  <2>2. Reached' = Reached \cup First(n)
    BY <2>1 DEF Reached
  <2> QED
    BY <1>1, <1>3, <2>1, <2>2, ReadInv DEF TypeOK
<1>6. ASSUME NEW stored \in BOOLEAN, BackupRequestPart(n, stored)
      PROVE  IInv'
  <2> DEFINE k == IF stored THEN n ELSE n - 1
  <2>1. held' = held \cup First(k) /\ cut' = cut \cup (First(n) \ held')
        /\ toPrimary' = Append(toPrimary, toBackup[1]) /\ dead' = dead
    BY <1>4, <1>6 DEF BackupRequestPart
  <2>2. k \in {n - 1, n}
    OBVIOUS
  <2> HIDE DEF k
  <2>3. First(k) \in SUBSET (Sessions \X (1..MaxOps)) /\ First(k) \subseteq First(n)
        /\ First(n) \in SUBSET (Sessions \X (1..MaxOps))
    BY <1>3, <2>2
  <2>4. Reached' = Reached \cup First(n)
    BY <2>1, <2>3 DEF Reached
  <2> QED
    BY <1>1, <2>1, <2>3, <2>4, ReadInv DEF TypeOK
<1>7. CASE BackupRequestPartNull(n)
  <2>1. held' = held /\ cut' = cut /\ toPrimary' = toPrimary /\ dead' = TRUE
    BY <1>7 DEF BackupRequestPartNull
  <2> QED
    BY <1>1, <2>1, ReadInv DEF TypeOK, Reached
<1> QED
  BY <1>5, <1>6, <1>7 DEF Backup

-----------------------------------------------------------------------------
\* Every step of clients, primary and backup keeps the invariant.
LEMMA NextInv ==
  ASSUME IInv, [Next]_vars
  PROVE  IInv'
<1>1. ASSUME NEW c \in Conns, Worker(c)
      PROVE  IInv'
  <2>1. CASE \E stored \in BOOLEAN : CompleteNread(c, stored)
    BY <2>1, ParseInv, PostSetDataInv
  <2> QED
    BY <1>1, <2>1, ParseInv, ReadEofInv DEF Worker
<1>2. ASSUME UNCHANGED vars
      PROVE  IInv'
  <2>1. TypeOK'
    BY <1>2 DEF IInv, TypeOK, vars
  <2>2. Flying' = Flying /\ ConnsKept /\ Seen' = Seen
    BY <1>2 DEF Flying, ConnsKept, Opened, Seen, vars
  <2>3. \A t \in Sessions : NStored(t)' = NStored(t) /\ NStored(t) \in Nat
    BY <1>2, CountersType DEF NStored, vars, IInv
  <2>4. StreamInv' /\ BackupInv'
    BY <1>2 DEF IInv, StreamInv, BackupInv, Reached, vars
  <2>5. AcceptInv' /\ StructInv' /\ OwnInv' /\ ConfirmInv'
    BY <1>2, <2>1, <2>2, <2>3, AcceptFrame, StructFrame, OwnFrame, ConfirmFrame
    DEF vars, IInv, Reached
  <2> QED
    BY <2>1, <2>4, <2>5 DEF IInv
<1> QED
  BY <1>1, <1>2, IssueInv, LeaveInv, AcceptStep, ReplyOpenInv, ReplyClosedInv, BackupInvariance
  DEF Next

\* The inductive invariant holds always.
LEMMA Invariant == Spec => []IInv
BY InitInv, NextInv, PTL DEF Spec

\* The type invariant.  It takes that conn_new() finds a structure and accept(2)
\* a descriptor for every client that comes.
THEOREM TypeCorrect == Spec => []TypeOK
<1>1. IInv => TypeOK
  BY DEF IInv
<1> QED
  BY <1>1, Invariant, PTL

\* "primary should ONLY send STORED to client after receiving backup's confirm":
\* it does, as long as no connection is closed with a confirmation due, for every
\* set that reached the backup, whole or in part.
THEOREM StoredAfterBackupAlways == Spec => []StoredAfterBackupUnlessOrphanedOrCut
<1>1. IInv => StoredAfterBackupUnlessOrphanedOrCut
  <2> SUFFICES ASSUME IInv, ~orphaned, NEW s \in Sessions
               PROVE  NStored(s) <= NReached(s)
    BY DEF StoredAfterBackupUnlessOrphanedOrCut
  <2>1. NStored(s) + CountIn(toPrimary, For(s)) <= NReached(s)
    BY DEF IInv, ConfirmInv
  <2>2. NStored(s) \in Nat /\ NReached(s) \in Nat /\ CountIn(toPrimary, For(s)) \in Nat
    BY CountersType DEF IInv
  <2> QED
    BY <2>1, <2>2
<1> QED
  BY <1>1, Invariant, PTL

\* Every open socket has one structure, and none is twice on the free stack, as
\* long as no connection is closed with a confirmation due.
THEOREM ConnsDistinctAlways == Spec => []ConnsDistinct
<1>1. IInv => ConnsDistinct
  <2> SUFFICES ASSUME IInv, ~orphaned PROVE ConnsDistinct
    BY DEF ConnsDistinct
  <2>1. ASSUME NEW f \in Fds, sock[f] # 0
        PROVE  Cardinality({c \in Conns : conn[c].st # "closed" /\ conn[c].fd = f}) = 1
    <3>1. PICK c \in Conns : Opened(c) /\ conn[c].fd = f
      BY <2>1 DEF IInv, OwnInv
    <3>2. \A d \in Conns : Opened(d) /\ conn[d].fd = f => d = c
      BY <3>1 DEF IInv, StructInv
    <3>3. {d \in Conns : conn[d].st # "closed" /\ conn[d].fd = f} = {c}
      BY <3>1, <3>2 DEF Opened
    <3> QED
      BY <3>3, FS_Singleton
  <2>2. ASSUME NEW i \in DOMAIN freeconns
        PROVE  /\ conn[freeconns[i]].st = "closed"
               /\ \A j \in DOMAIN freeconns : j # i => freeconns[i] # freeconns[j]
    BY DEF IInv, OwnInv, Opened
  <2> QED
    BY <2>1, <2>2 DEF ConnsDistinct
<1> QED
  BY <1>1, Invariant, PTL

=============================================================================
