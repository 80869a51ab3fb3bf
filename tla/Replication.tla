----------------------------- MODULE Replication -----------------------------
(***************************************************************************)
(* The path of a "set" through a primary and its backup (memcached.c:      *)
(* conn_new, conn_close, out_string, complete_nread_ascii, drive_machine;  *)
(* ramcube.c: ramcube_post_set_data, send_unit_to_backup, BACKUP_REQUEST,  *)
(* read_cb, process_command_BACKUP_REPLY).                                 *)
(*                                                                         *)
(* The primary stores the value, sends BACKUP_REQUEST with the address of  *)
(* the client's conn structure, and answers the client only when a         *)
(* BACKUP_REPLY brings that address back.  Nothing else ties the reply to  *)
(* the client: a conn structure is reused for the next client when its     *)
(* client has left, and so is the number of its socket.                    *)
(*                                                                         *)
(* A step is one pass of the worker thread over one event; the link to the *)
(* backup belongs to the same thread (process_command_TYPE connects back   *)
(* on the worker's event base).                                            *)
(***************************************************************************)
EXTENDS Naturals, Sequences, FiniteSets

CONSTANTS
    Conns,          \* conn structures
    MaxSession,     \* bound: clients 1..MaxSession connect in this order
    Pipeliners,     \* clients that send without waiting for the last reply
    Leavers,        \* clients that may leave at any moment
    MaxOps,         \* bound: commands per client
    MaxBatch,       \* requests one read of the backup may return
    Splitting       \* such a read may end inside a request

Sessions == 1..MaxSession
Fds == 1..MaxSession

ASSUME ReplicationAssumption ==
    /\ MaxSession \in Nat /\ MaxOps \in Nat /\ MaxBatch \in Nat \ {0}
    /\ Splitting \in BOOLEAN
    /\ Pipeliners \subseteq Sessions /\ Leavers \subseteq Sessions
    /\ IsFiniteSet(Conns) /\ MaxSession <= Cardinality(Conns)

VARIABLES
    conn,       \* fields of each conn structure
    freeconns,  \* the stack of structures to reuse
    fresh,      \* structures not allocated yet
    sock,       \* the session behind each open socket of the primary, 0 if none
    client,     \* "new", "open" or "left"
    stream,     \* what each client sent and the primary has not parsed
    issued,     \* commands of each client, in order
    got,        \* replies of each client, in order
    toBackup,   \* BACKUP_REQUESTs in flight
    toPrimary,  \* BACKUP_REPLYs in flight
    held,       \* sets the backup has stored, as <<session, n>>
    cut,        \* sets of which the backup read a part and no more (history)
    dead,       \* the backup died of such a read
    orphaned,   \* a conn was closed while a BACKUP_REPLY for it was due (history)
    merged      \* one read of the backup returned several requests (history)

vars == <<conn, freeconns, fresh, sock, client, stream, issued, got, toBackup,
          toPrimary, held, cut, dead, orphaned, merged>>

Ops == {"set", "set noreply", "delete"}
Token == [kind : {"line", "data"}, op : Ops, n : 1..MaxOps]
Request == [ptr : Conns, s : Sessions, n : 1..MaxOps]
Replies == {"STORED", "NOT_STORED", "DELETED", "ERROR"}

Init ==
    /\ conn = [c \in Conns |-> [st |-> "closed", fd |-> 0, noreply |-> FALSE]]
    /\ freeconns = <<>>
    /\ fresh = Conns
    /\ sock = [f \in Fds |-> 0]
    /\ client = [s \in Sessions |-> "new"]
    /\ stream = [s \in Sessions |-> <<>>]
    /\ issued = [s \in Sessions |-> <<>>]
    /\ got = [s \in Sessions |-> <<>>]
    /\ toBackup = <<>>
    /\ toPrimary = <<>>
    /\ held = {} /\ cut = {} /\ dead = FALSE
    /\ orphaned = FALSE
    /\ merged = FALSE

-----------------------------------------------------------------------------
(***************************************************************************)
(* Clients.                                                                *)
(***************************************************************************)

\* Replies a client is waiting for.
Wanted(s) == Cardinality({i \in DOMAIN issued[s] : issued[s][i] # "set noreply"})
Waiting(s) == client[s] = "open" /\ Len(got[s]) < Wanted(s)

\* A client sends a command; a set is its command line and its data block.
Issue(s, op) ==
    /\ client[s] = "open" /\ Len(issued[s]) < MaxOps
    /\ s \in Pipeliners \/ ~Waiting(s)
    /\ issued' = [issued EXCEPT ![s] = Append(@, op)]
    /\ LET tok(kind) == [kind |-> kind, op |-> op, n |-> Len(issued[s]) + 1]
       IN  stream' = [stream EXCEPT ![s] = @ \o
               IF op = "delete" THEN <<tok("line")>> ELSE <<tok("line"), tok("data")>>]
    /\ UNCHANGED <<conn, freeconns, fresh, sock, client, got, toBackup, toPrimary,
                   held, cut, dead, orphaned, merged>>

Leave(s) ==
    /\ s \in Leavers /\ client[s] = "open"
    /\ client' = [client EXCEPT ![s] = "left"]
    /\ UNCHANGED <<conn, freeconns, fresh, sock, stream, issued, got, toBackup,
                   toPrimary, held, cut, dead, orphaned, merged>>

-----------------------------------------------------------------------------
(***************************************************************************)
(* The primary.                                                            *)
(***************************************************************************)

\* The lowest free descriptor, as accept(2) returns it.
LowestFd == CHOOSE f \in Fds : sock[f] = 0 /\ \A g \in 1..(f-1) : sock[g] # 0

\* calloc: which of the unused structures makes no difference.
NewConn == CHOOSE c \in fresh : TRUE

\* conn_new: the structure on top of the free stack, a new one if it is empty.
Accept(s) ==
    /\ client[s] = "new" /\ \A t \in 1..(s-1) : client[t] # "new"
    /\ LET c == IF freeconns # <<>> THEN freeconns[Len(freeconns)] ELSE NewConn
       IN  /\ freeconns' = IF freeconns = <<>> THEN freeconns
                           ELSE SubSeq(freeconns, 1, Len(freeconns) - 1)
           /\ fresh' = fresh \ {c}
           /\ conn' = [conn EXCEPT ![c] = [st |-> "read", fd |-> LowestFd, noreply |-> FALSE]]
    /\ sock' = [sock EXCEPT ![LowestFd] = s]
    /\ client' = [client EXCEPT ![s] = "open"]
    /\ UNCHANGED <<stream, issued, got, toBackup, toPrimary, held, cut, dead, orphaned, merged>>

\* The session a structure serves.
SessionOf(c) == sock[conn[c].fd]

\* Bytes reach a client that is still there.
Deliver(s, reply) ==
    got' = IF client[s] = "open" THEN [got EXCEPT ![s] = Append(@, reply)] ELSE got

\* out_string on an open conn, then conn_write and reset_cmd_handler: the reply
\* is written unless noreply is set, which it clears, and an upload in progress
\* (c->item) is dropped.
OutString(c, reply, flag) ==
    /\ conn' = [conn EXCEPT ![c].st = "read", ![c].noreply = FALSE]
    /\ IF flag THEN UNCHANGED got ELSE Deliver(SessionOf(c), reply)

\* The next thing to parse on c is a token of this kind.
Upcoming(c, st, kind) ==
    /\ conn[c].st = st
    /\ SessionOf(c) # 0
    /\ stream[SessionOf(c)] # <<>>
    /\ Head(stream[SessionOf(c)]).kind = kind

Consume(c) == stream' = [stream EXCEPT ![SessionOf(c)] = Tail(@)]

\* set_noreply_maybe sets the flag and never clears it.
SetNoreplyMaybe(c, tok) == conn[c].noreply \/ tok.op = "set noreply"

\* process_update_command: the value is read next.
ReadSetLine(c) ==
    /\ Upcoming(c, "read", "line")
    /\ LET tok == Head(stream[SessionOf(c)])
       IN  /\ tok.op # "delete"
           /\ conn' = [conn EXCEPT ![c].st = "nread", ![c].noreply = SetNoreplyMaybe(c, tok)]
    /\ Consume(c)
    /\ UNCHANGED <<freeconns, fresh, sock, client, issued, got, toBackup, toPrimary,
                   held, cut, dead, orphaned, merged>>

\* process_delete_command (and every command that answers at once).
ReadDelete(c) ==
    /\ Upcoming(c, "read", "line")
    /\ Head(stream[SessionOf(c)]).op = "delete"
    /\ OutString(c, "DELETED", conn[c].noreply)
    /\ Consume(c)
    /\ UNCHANGED <<freeconns, fresh, sock, client, issued, toBackup, toPrimary, held, cut,
                   dead, orphaned, merged>>

\* A data block met where a command is expected: its upload was dropped.
ReadStrayData(c) ==
    /\ Upcoming(c, "read", "data")
    /\ OutString(c, "ERROR", conn[c].noreply)
    /\ Consume(c)
    /\ UNCHANGED <<freeconns, fresh, sock, client, issued, toBackup, toPrimary, held, cut,
                   dead, orphaned, merged>>

\* The code answers the client itself ("this is for test ONLY!").
PostSetData_StoredNow(c, tok) ==
    /\ OutString(c, "STORED", conn[c].noreply)
    /\ toBackup' = Append(toBackup, [ptr |-> c, s |-> SessionOf(c), n |-> tok.n])

\* ramcube_post_set_data, send_unit_to_backup: the address of c goes along, the
\* client gets no answer and noreply stays as it is.
PostSetData(c, tok) ==
    /\ toBackup' = Append(toBackup, [ptr |-> c, s |-> SessionOf(c), n |-> tok.n])
    /\ conn' = [conn EXCEPT ![c].st = "read"]
    /\ UNCHANGED got

\* complete_nread_ascii: store_item stores, or refuses and is answered at once.
CompleteNread(c, stored) ==
    /\ Upcoming(c, "nread", "data")
    /\ IF stored
       THEN PostSetData(c, Head(stream[SessionOf(c)]))
       ELSE OutString(c, "NOT_STORED", conn[c].noreply) /\ UNCHANGED toBackup
    /\ Consume(c)
    /\ UNCHANGED <<freeconns, fresh, sock, client, issued, toPrimary, held, cut, dead, orphaned, merged>>

\* Mutant of ConnClose: the structure is put on the stack twice.
ConnClose_Twice(c) ==
    /\ conn' = [conn EXCEPT ![c].st = "closed"]
    /\ freeconns' = freeconns \o <<c, c>>
    /\ sock' = [sock EXCEPT ![conn[c].fd] = 0]

\* conn_close: the socket is closed and the structure put on the free stack with
\* its fd and flags as they are.
ConnClose(c) ==
    /\ conn' = [conn EXCEPT ![c].st = "closed"]
    /\ freeconns' = Append(freeconns, c)
    /\ sock' = [sock EXCEPT ![conn[c].fd] = 0]

Due(c) == \E q \in {toBackup, toPrimary} : \E i \in DOMAIN q : q[i].ptr = c

\* read returns 0 once everything the client had sent is parsed.
ReadEof(c) ==
    /\ conn[c].st # "closed" /\ SessionOf(c) # 0
    /\ client[SessionOf(c)] = "left" /\ stream[SessionOf(c)] = <<>>
    /\ ConnClose(c)
    /\ orphaned' = (orphaned \/ Due(c))
    /\ UNCHANGED <<fresh, client, stream, issued, got, toBackup, toPrimary, held, cut, dead, merged>>

\* process_command_BACKUP_REPLY on a structure that still is open.
ReplyOpen ==
    /\ toPrimary # <<>>
    /\ LET c == Head(toPrimary).ptr
       IN  /\ conn[c].st # "closed"
           /\ OutString(c, "STORED", conn[c].noreply)
    /\ toPrimary' = Tail(toPrimary)
    /\ UNCHANGED <<freeconns, fresh, sock, client, stream, issued, toBackup, held, cut,
                   dead, orphaned, merged>>

\* process_command_BACKUP_REPLY on a structure of the free stack.  A noreply flag
\* left set is cleared; otherwise "STORED" is written to the old descriptor:
\* another client's socket if the number is in use again, else the write fails
\* and the structure is closed, that is put on the stack, once more.
ReplyClosed ==
    /\ toPrimary # <<>>
    /\ LET c == Head(toPrimary).ptr
       IN  /\ conn[c].st = "closed"
           /\ \/ /\ conn[c].noreply
                 /\ conn' = [conn EXCEPT ![c].noreply = FALSE]
                 /\ UNCHANGED <<freeconns, sock, got>>
              \/ /\ ~conn[c].noreply /\ SessionOf(c) # 0
                 /\ Deliver(SessionOf(c), "STORED")
                 /\ UNCHANGED <<conn, freeconns, sock>>
              \/ /\ ~conn[c].noreply /\ SessionOf(c) = 0
                 /\ ConnClose(c)
                 /\ UNCHANGED got
    /\ toPrimary' = Tail(toPrimary)
    /\ UNCHANGED <<fresh, client, stream, issued, toBackup, held, cut, dead, orphaned, merged>>

-----------------------------------------------------------------------------
(***************************************************************************)
(* The backup: one read returns the next n requests; all of them are       *)
(* appended to the segment (SegmentStore), the first one is answered.  The *)
(* handler needs no more than the first request line: when the read ends   *)
(* inside a later part, it takes what is there and drops the buffer.       *)
(***************************************************************************)

\* Mutant of BackupAnswer: the reply is lost.
BackupAnswer_Lost(batch) == <<>>

\* Mutant of BackupAnswer: the pointer is not sent back.
BackupAnswer_NoPtr(batch) == <<[Head(batch) EXCEPT !.ptr = 0]>>

BackupAnswer(batch) == <<Head(batch)>>

\* The sets of the first n requests.
First(n) == {<<toBackup[i].s, toBackup[i].n>> : i \in 1..n}

Read(n) ==
    /\ ~dead /\ n <= Len(toBackup)
    /\ toBackup' = SubSeq(toBackup, n + 1, Len(toBackup))
    /\ merged' = (merged \/ n > 1)
    /\ UNCHANGED <<conn, freeconns, fresh, sock, client, stream, issued, got, orphaned>>

BackupRequest(n) ==
    /\ Read(n)
    /\ held' = held \cup First(n)
    /\ toPrimary' = toPrimary \o BackupAnswer(SubSeq(toBackup, 1, n))
    /\ UNCHANGED <<cut, dead>>

\* The read ends inside the last of them, whose command is stored if its value
\* was whole.  The lines still to come are answered ERROR, which read_cb of the
\* primary ignores.
BackupRequestPart(n, stored) ==
    /\ Splitting /\ Read(n)
    /\ held' = held \cup First(IF stored THEN n ELSE n - 1)
    /\ cut' = cut \cup (First(n) \ held')
    /\ toPrimary' = toPrimary \o BackupAnswer(SubSeq(toBackup, 1, n))
    /\ UNCHANGED dead

\* The same when what came of it does not look like an address: getIp runs until
\* it is killed.  event_cb of the primary does nothing about the lost link.
BackupRequestPartNull(n) ==
    /\ Splitting /\ Read(n)
    /\ dead' = TRUE
    /\ UNCHANGED <<held, cut, toPrimary>>

-----------------------------------------------------------------------------
Backup(n) ==
    \/ BackupRequest(n)
    \/ \E stored \in BOOLEAN : BackupRequestPart(n, stored)
    \/ BackupRequestPartNull(n)

Worker(c) ==
    \/ ReadSetLine(c)
    \/ ReadDelete(c)
    \/ ReadStrayData(c)
    \/ \E stored \in BOOLEAN : CompleteNread(c, stored)
    \/ ReadEof(c)

Next ==
    \/ \E s \in Sessions, op \in Ops : Issue(s, op)
    \/ \E s \in Sessions : Leave(s)
    \/ \E s \in Sessions : Accept(s)
    \/ \E c \in Conns : Worker(c)
    \/ ReplyOpen
    \/ ReplyClosed
    \/ \E n \in 1..MaxBatch : Backup(n)

Spec == Init /\ [][Next]_vars

\* The event loops of the primary and the backup serve every ready event.
Fairness ==
    /\ \A c \in Conns : WF_vars(Worker(c))
    /\ WF_vars(ReplyOpen \/ ReplyClosed)
    /\ WF_vars(\E n \in 1..MaxBatch : Backup(n))

FairSpec == Spec /\ Fairness

-----------------------------------------------------------------------------
(***************************************************************************)
(* Properties.                                                             *)
(***************************************************************************)

\* Every variable has its type.
TypeOK ==
    /\ conn \in [Conns -> [st : {"closed", "read", "nread"}, fd : Fds \cup {0},
                           noreply : BOOLEAN]]
    /\ freeconns \in Seq(Conns)
    /\ fresh \in SUBSET Conns
    /\ sock \in [Fds -> Sessions \cup {0}]
    /\ client \in [Sessions -> {"new", "open", "left"}]
    /\ stream \in [Sessions -> Seq(Token)]
    /\ issued \in [Sessions -> Seq(Ops)]
    /\ got \in [Sessions -> Seq(Replies)]
    /\ toBackup \in Seq(Request) /\ toPrimary \in Seq(Request)
    /\ held \in SUBSET (Sessions \X (1..MaxOps))
    /\ cut \in SUBSET (Sessions \X (1..MaxOps)) /\ dead \in BOOLEAN
    /\ orphaned \in BOOLEAN /\ merged \in BOOLEAN

\* The sets of which a read of the backup returned at least a part.
Reached == held \cup cut

NStored(s) == Cardinality({i \in DOMAIN got[s] : got[s][i] = "STORED"})
NHeld(s) == Cardinality({h \in held : h[1] = s})
NReached(s) == Cardinality({h \in Reached : h[1] = s})

\* "primary should ONLY send STORED to client after receiving backup's confirm":
\* a client is told STORED at most as often as the backup has stored a set of its.
StoredAfterBackup == \A s \in Sessions : NStored(s) <= NHeld(s)

\* The same as long as no connection was closed with a confirmation due, except
\* for sets of which a read of the backup returned less than the value: they may
\* be confirmed without being stored.
StoredAfterBackupUnlessOrphanedOrCut ==
    ~orphaned => \A s \in Sessions : NStored(s) <= NReached(s)

\* As long as no connection was closed with a confirmation due, every open
\* socket is served by a structure of its own, none of them is on the free
\* stack, and none is on the stack twice.
ConnsDistinct ==
    ~orphaned =>
        /\ \A f \in Fds : sock[f] # 0 =>
              Cardinality({c \in Conns : conn[c].st # "closed" /\ conn[c].fd = f}) = 1
        /\ \A i \in DOMAIN freeconns :
              /\ conn[freeconns[i]].st = "closed"
              /\ \A j \in DOMAIN freeconns : j # i => freeconns[i] # freeconns[j]

\* Every command is answered: a client that asks for a reply and waits for it
\* gets one.  (It may not when it sent noreply commands before, when the backup
\* read several requests at once or died of a cut one, or when replies of a
\* client that left are due.)
Answered ==
    \A s \in Sessions \ Pipeliners :
        Waiting(s) ~> \/ ~Waiting(s)
                      \/ merged \/ orphaned \/ dead
                      \/ \E i \in DOMAIN issued[s] : issued[s][i] = "set noreply"

=============================================================================
