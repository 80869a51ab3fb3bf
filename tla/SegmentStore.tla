---------------------------- MODULE SegmentStore ----------------------------
(***************************************************************************)
(* The backup's store of replicated commands (Segment.c, Object.c, and the *)
(* BACKUP_REQUEST, CRASHED and DATA_REQUEST handlers of ramcube.c).        *)
(*                                                                         *)
(* A BACKUP_REQUEST carries a body of text lines: the "set" line and the   *)
(* value line of one command, then the address of the primary.  One read   *)
(* of the socket may return several requests, and may end inside one; the  *)
(* handler is given everything after the first request line and cuts it    *)
(* into commands by counting line ends, and the buffer is dropped.  Every  *)
(* command becomes a seglet of the segment of its primary, and a segment   *)
(* that overflows is written to a file and freed.  Recovery reads the      *)
(* files back.                                                             *)
(*                                                                         *)
(* Data is abstracted to lines: [kind, from, n, len] is a line of kind     *)
(* "kind" of the n-th command of primary "from", len units long.           *)
(***************************************************************************)
EXTENDS Integers, Sequences, FiniteSets

CONSTANTS
    Primaries,              \* addresses (ip:port) of the primaries
    Garbled,                \* what any other last line than an address reads as
    MAX_SEGMENT_CAPACITY,   \* the capacity a segment starts with
    Lens,                   \* lengths a command's value line may have
    Shapes,                 \* layouts a request body may have, see Body
    Splitting,              \* primaries whose link may deliver a request in parts
    MaxBatch,               \* requests one read may return
    MaxCmds,                \* bound: commands each primary sends
    MaxTime,                \* bound: seconds the clock advances
    MaxFaults,              \* bound: failures of fopen in persist
    MaxRestarts             \* bound: restarts of the backup

ASSUME SegmentAssumption ==
    /\ Garbled \notin Primaries
    /\ MAX_SEGMENT_CAPACITY \in Nat
    /\ Lens \subseteq Nat
    /\ Shapes \subseteq {"plain", "stale", "split", "glued"}
    /\ Splitting \subseteq Primaries
    /\ MaxBatch \in Nat \ {0}
    /\ MaxCmds \in Nat
    /\ MaxTime \in Nat
    /\ MaxFaults \in Nat
    /\ MaxRestarts \in Nat

VARIABLES
    up,         \* "running", "killed", or the invalid access it died of
    used,       \* Manager->used
    segment,    \* Manager->segment, the list of segments
    disk,       \* the files below backup/
    cwd,        \* working directory, relative to the one the backup started in
    now,        \* time(NULL)
    call,       \* the running call of appendToSegment, see Idle
    nsent,      \* number of commands each primary has sent
    odd,        \* primaries that sent a body that is not plain (history)
    cut,        \* primaries of which a read ended inside a request (history)
    acked,      \* commands confirmed by a BACKUP_REPLY, as <<primary, n>>
    sentBack,   \* data last sent to a recovery node for each address
    written,    \* number of files persist has written (history)
    faults, restarts

vars == <<up, used, segment, disk, cwd, now, call, nsent, odd, cut, acked,
          sentBack, written, faults, restarts>>

Addrs == Primaries \cup {Garbled}
Line == [kind : {"set", "val", "part", "rest", "junk", "req", "addr"},
         from : Addrs, n : Nat, len : Nat]
Seglet == Line \X Line
Segment == [addr : Addrs, capacity : Int, segletnum : Nat, lets : Seq(Seglet)]
File == [dir : Seq(Addrs), num : Nat, time : Nat, lets : Seq(Seglet)]

(***************************************************************************)
(* Wire format.                                                            *)
(***************************************************************************)

\* setCommandServer and send_unit_to_backup: the lines of one request body.
\* setCommandServer copies the value with strcat up to a NUL byte, so bytes an
\* earlier item left behind in the chunk follow the value: a whole line
\* ("stale") or, when that item's upload was cut short, bytes with no line end
\* ("glued").  A value may itself contain a line end ("split").
Body(a, n, shape, len) ==
    LET L(kind, from, l) == [kind |-> kind, from |-> from, n |-> n, len |-> l]
        set  == L("set", a, 1)
        addr == L("addr", IF shape = "glued" THEN Garbled ELSE a, 1)
    IN  CASE shape = "split" -> <<set, L("part", a, len), L("rest", a, 1), addr>>
          [] shape = "stale" -> <<set, L("val", a, len), L("junk", a, 1), addr>>
          [] OTHER           -> <<set, L("val", a, len), addr>>

\* The request line "BACKUP_REQUEST <conn>" that precedes a body.
ReqLine(a, n) == [kind |-> "req", from |-> a, n |-> n, len |-> 1]

\* What the handler is given when one read returns the bodies b[1], b[2], ...
\* of the commands first, first + 1, ...: everything after the first request line.
LeftCom(a, first, b) ==
    LET joined[i \in 1..Len(b)] ==
            IF i = 1 THEN b[1]
            ELSE Append(joined[i-1], ReqLine(a, first + i - 1)) \o b[i]
    IN  joined[Len(b)]

\* parseIpPort, getIp, getPort: the last line names the sender of the whole batch.
ParseIpPort(cont) == cont[Len(cont)].from

\* Mutant of Commands: only one line is skipped after a command.
Commands_SkipOne(cont) ==
    [i \in 1..(Len(cont) \div 3) |-> <<cont[3*i - 2], cont[3*i - 1]>>]

\* The loop of appendToSegment: two lines are a command, the next two are
\* skipped.  The last line is cut off, except for its first character, which
\* is what lets the command before it be stored.
Commands(cont) ==
    [i \in 1..((Len(cont) + 1) \div 4) |-> <<cont[4*i - 3], cont[4*i - 2]>>]

-----------------------------------------------------------------------------
(***************************************************************************)
(* Segments in memory.  A segment pointer is an index in the list, NULL is *)
(* 0.                                                                      *)
(***************************************************************************)

\* strlen of a seglet's command.
SegletLen(c) == c[1].len + c[2].len

\* createSegment, setHead, createSeglet, setCapacity.
NewSegment(a, c, num) ==
    [addr |-> a, capacity |-> MAX_SEGMENT_CAPACITY - SegletLen(c),
     segletnum |-> num, lets |-> <<c>>]

\* Mutant of GetSegment: the address never matches.
GetSegment_Miss(segs, a) == 0

\* getSegment: the first segment of address a.
GetSegment(segs, a) ==
    IF \E i \in DOMAIN segs : segs[i].addr = a
    THEN CHOOSE i \in DOMAIN segs :
             segs[i].addr = a /\ \A j \in 1..(i-1) : segs[j].addr # a
    ELSE 0

\* Mutant of GetLastSegment: the walk stops at the last segment, but the rest of
\* appendToSegment is left as it is.
GetLastSegment_Last(segs) == Len(segs)

\* getLastSegment: the walk only ends when the iterator is NULL, which is what
\* is returned.
GetLastSegment(segs) == 0

\* Mutant of CountSeglet: the count goes down.
CountSeglet_Down(segs) == [segs EXCEPT ![1].segletnum = @ - 1]

\* setSegletNum(Iterator->segment): always the head of the list is counted.
CountSeglet(segs) == [segs EXCEPT ![1].segletnum = @ + 1]

\* Append seglet c to segment i.
AddSeglet(segs, i, c) ==
    CountSeglet([segs EXCEPT ![i].lets = Append(@, c),
                             ![i].capacity = @ - SegletLen(c)])

\* The list after the first command of a batch has been added.
AddFirst(segs, a, c) ==
    LET cur  == GetSegment(segs, a)
        last == GetLastSegment(segs)
    IN  IF ~used                    THEN <<NewSegment(a, c, 1)>>
        ELSE IF cur # 0             THEN AddSeglet(segs, cur, c)
        ELSE IF last # 0            THEN Append(CountSeglet(segs), NewSegment(a, c, 0))
        ELSE <<NewSegment(a, c, 1)>>

\* The segment the persist loop finds overflowing (at most one segment grows
\* per command), 0 if none.
Overflowing(segs) ==
    IF \E i \in DOMAIN segs : segs[i].capacity < 0
    THEN CHOOSE i \in DOMAIN segs : segs[i].capacity < 0
    ELSE 0

\* flag3 stays 1 while no segment was freed, so Manager->segment becomes the
\* successor of the freed segment and whatever preceded it is dropped.
AfterPersist(segs) ==
    IF Overflowing(segs) = 0 THEN segs
    ELSE SubSeq(segs, Overflowing(segs) + 1, Len(segs))

\* persist: the file <segletnum>.<time>.ram of the primary's directory.
FileOf(seg) ==
    [dir |-> Append(cwd, seg.addr), num |-> seg.segletnum, time |-> now,
     lets |-> seg.lets]

\* fopen(name, "wb") truncates a file of that name.
WriteFile(files, f) ==
    {g \in files : <<g.dir, g.num, g.time>> # <<f.dir, f.num, f.time>>} \cup {f}

-----------------------------------------------------------------------------
\* No call of appendToSegment runs.
Idle == [busy |-> FALSE, addr |-> Garbled, rest |-> <<>>, first |-> TRUE,
         req |-> <<Garbled, 0>>]

Init ==
    /\ up = "running"
    /\ used = FALSE
    /\ segment = <<>>
    /\ disk = {}
    /\ cwd = <<>>
    /\ now = 0
    /\ call = Idle
    /\ nsent = [a \in Primaries |-> 0]
    /\ odd = {} /\ cut = {}
    /\ acked = {}
    /\ sentBack = [a \in Addrs |-> <<>>]
    /\ written = 0
    /\ faults = 0
    /\ restarts = 0

\* The bodies of the next n commands of primary a.
Bodies(a, n, shape, len) ==
    [i \in 1..n |-> Body(a, nsent[a] + i, shape[i], len[i])]

\* What primary a has sent after these.
Sends(a, n, shape) ==
    /\ nsent[a] + n <= MaxCmds
    /\ nsent' = [nsent EXCEPT ![a] = @ + n]
    /\ odd' = odd \cup {b \in {a} : \E i \in 1..n : shape[i] # "plain"}

\* BACKUP_REQUEST is dispatched with the pointer of the first request of a read
\* and calls appendToSegment with the lines cont after it.
NewCall(a, addr, cont) ==
    [busy |-> TRUE, addr |-> addr, rest |-> Commands(cont), first |-> TRUE,
     req |-> <<a, nsent[a] + 1>>]

\* One read of the socket returns n requests of primary a (but for the last line
\* end, which the handler does not need).
Receive(a, n, shape, len) ==
    /\ up = "running" /\ ~call.busy
    /\ Sends(a, n, shape)
    /\ LET cont == LeftCom(a, nsent[a] + 1, Bodies(a, n, shape, len))
       IN  call' = NewCall(a, ParseIpPort(cont), cont)
    /\ UNCHANGED <<up, used, segment, disk, cwd, now, cut, acked, sentBack, written,
                   faults, restarts>>

\* What the handler is given when the read ends in the last of these requests:
\* k lines, the last of them perhaps only in part.  The request line was whole;
\* what is still to come is read as commands of their own, line by line, which
\* are none of the backup's and are answered ERROR.
Part(a, n, shape, len, k) ==
    SubSeq(LeftCom(a, nsent[a] + 1, Bodies(a, n, shape, len)), 1, k)

EndsInside(a, n, shape, len, k) ==
    /\ a \in Splitting
    /\ LET b == Bodies(a, n, shape, len)
           whole == Len(LeftCom(a, nsent[a] + 1, b))
       IN  k \in (whole - Len(b[n]))..whole
    /\ cut' = cut \cup {a}

\* Such a read, when the last line has a colon (in a key, in a value, in what
\* came of the address): what is before it passes for the sender's host.
ReceivePart(a, n, shape, len, k) ==
    /\ up = "running" /\ ~call.busy
    /\ Sends(a, n, shape) /\ EndsInside(a, n, shape, len, k)
    /\ LET cont == Part(a, n, shape, len, k)
       IN  /\ Len(cont) > 1 /\ cont[k].kind # "req"
           /\ call' = NewCall(a, Garbled, cont)
    /\ UNCHANGED <<up, used, segment, disk, cwd, now, acked, sentBack, written, faults,
                   restarts>>

\* The persist loop on the list segs, with fopen succeeding or failing.  When
\* fopen fails the seglets are freed all the same and the working directory
\* stays where persist moved it.
Sweep(segs, opened) ==
    /\ segment' = AfterPersist(segs)
    /\ IF Overflowing(segs) = 0
       THEN opened /\ UNCHANGED <<disk, cwd, written, faults>>
       ELSE LET f == FileOf(segs[Overflowing(segs)])
            IN  \/ /\ opened
                   /\ disk' = WriteFile(disk, f) /\ written' = written + 1
                   /\ UNCHANGED <<cwd, faults>>
                \/ /\ ~opened /\ faults < MaxFaults
                   /\ cwd' = f.dir /\ faults' = faults + 1
                   /\ UNCHANGED <<disk, written>>

NextCommand == call' = [call EXCEPT !.rest = Tail(@), !.first = FALSE]

\* First command of a batch: find or create the segment, then persist.
AppendFirst(opened) ==
    /\ up = "running" /\ call.busy /\ call.first /\ call.rest # <<>>
    /\ Sweep(AddFirst(segment, call.addr, Head(call.rest)), opened)
    /\ used' = TRUE
    /\ NextCommand
    /\ UNCHANGED <<up, now, nsent, odd, cut, acked, sentBack, restarts>>

\* Later commands of a batch: the segment is looked up again and used
\* unchecked.
AppendLater(opened) ==
    /\ up = "running" /\ call.busy /\ ~call.first /\ call.rest # <<>>
    /\ GetSegment(segment, call.addr) # 0
    /\ Sweep(AddSeglet(segment, GetSegment(segment, call.addr), Head(call.rest)), opened)
    /\ NextCommand
    /\ UNCHANGED <<up, used, now, nsent, odd, cut, acked, sentBack, restarts>>

\* The memory of the process is gone, its files stay.
Die(how) ==
    /\ up' = how
    /\ used' = FALSE /\ segment' = <<>> /\ call' = Idle
    /\ UNCHANGED <<disk, cwd, now, acked, sentBack, written, faults, restarts>>

\* Such a read, when the last line has no colon, or there is no line end to find
\* a last line by: getIp copies what it passes until it meets a colon somewhere
\* on the stack, strrchr returns NULL.
ReceivePartNull(a, n, shape, len, k) ==
    /\ up = "running" /\ ~call.busy
    /\ Sends(a, n, shape) /\ EndsInside(a, n, shape, len, k)
    /\ Die("segv in parse")

\* currSeg->p with currSeg = NULL.
AppendLaterNull ==
    /\ up = "running" /\ call.busy /\ ~call.first /\ call.rest # <<>>
    /\ GetSegment(segment, call.addr) = 0
    /\ Die("segv in append")
    /\ UNCHANGED <<nsent, odd, cut>>

\* Back in the handler: one BACKUP_REPLY with the pointer of the first request.
Reply ==
    /\ up = "running" /\ call.busy /\ call.rest = <<>>
    /\ acked' = acked \cup {call.req}
    /\ call' = Idle
    /\ UNCHANGED <<up, used, segment, disk, cwd, now, nsent, odd, cut, sentBack, written,
                   faults, restarts>>

-----------------------------------------------------------------------------
\* loadToMem: the files it finds, relative to the working directory.
FilesOf(a) == {f \in disk : f.dir = Append(cwd, a)}

\* readFile: the file name says how many seglets are read back.
ReadFile(f) == SubSeq(f.lets, 1, f.num)

\* CRASHED (and DATA_REQUEST): loadToMem links the files in the order readdir
\* returns them, segmentToString walks the seglets of the first one only.
SendToRecovery(a) ==
    /\ up = "running" /\ ~call.busy
    /\ \E f \in FilesOf(a) : sentBack' = [sentBack EXCEPT ![a] = ReadFile(f)]
    /\ UNCHANGED <<up, used, segment, disk, cwd, now, call, nsent, odd, cut, acked, written,
                   faults, restarts>>

\* No directory, or no file in it: readdir(NULL) or seg->segleter with seg = NULL.
SendToRecoveryNull(a) ==
    /\ up = "running" /\ ~call.busy
    /\ FilesOf(a) = {}
    /\ Die("segv in load")
    /\ UNCHANGED <<nsent, odd, cut>>

Kill ==
    /\ up = "running" /\ restarts < MaxRestarts
    /\ Die("killed")
    /\ UNCHANGED <<nsent, odd, cut>>

\* The backup is started again in its original directory (init_SegmentManager).
Restart ==
    /\ up # "running" /\ restarts < MaxRestarts
    /\ up' = "running" /\ cwd' = <<>> /\ restarts' = restarts + 1
    /\ UNCHANGED <<used, segment, disk, now, call, nsent, odd, cut, acked, sentBack,
                   written, faults>>

Tick ==
    /\ now < MaxTime
    /\ now' = now + 1
    /\ UNCHANGED <<up, used, segment, disk, cwd, call, nsent, odd, cut, acked, sentBack,
                   written, faults, restarts>>

Next ==
    \/ \E a \in Primaries, n \in 1..MaxBatch :
          \E shape \in [1..n -> Shapes], len \in [1..n -> Lens] :
             \/ Receive(a, n, shape, len)
             \/ \E k \in 0..(5 * n) : ReceivePart(a, n, shape, len, k)
             \/ \E k \in 0..(5 * n) : ReceivePartNull(a, n, shape, len, k)
    \/ \E opened \in BOOLEAN : AppendFirst(opened)
    \/ \E opened \in BOOLEAN : AppendLater(opened)
    \/ AppendLaterNull
    \/ Reply
    \/ \E a \in Primaries : SendToRecovery(a)
    \/ \E a \in Primaries : SendToRecoveryNull(a)
    \/ Kill
    \/ Restart
    \/ Tick

Spec == Init /\ [][Next]_vars

-----------------------------------------------------------------------------
(***************************************************************************)
(* Properties.                                                             *)
(***************************************************************************)

\* Every variable has its type.
TypeOK ==
    /\ up \in {"running", "killed", "segv in parse", "segv in append", "segv in load"}
    /\ used \in BOOLEAN
    /\ segment \in Seq(Segment)
    /\ disk \in SUBSET File
    /\ cwd \in Seq(Addrs)
    /\ now \in Nat
    /\ call \in [busy : BOOLEAN, addr : Addrs, rest : Seq(Seglet), first : BOOLEAN,
                 req : Addrs \X Nat]
    /\ nsent \in [Primaries -> Nat]
    /\ odd \in SUBSET Primaries /\ cut \in SUBSET Primaries
    /\ acked \in SUBSET (Addrs \X Nat)
    /\ sentBack \in [Addrs -> Seq(Seglet)]
    /\ written \in Nat /\ faults \in Nat /\ restarts \in Nat

\* The header of a segment and the name of its file account for what is stored
\* with it.  readFile trusts the count and would drop seglets or read past the
\* end of the file if it were wrong; it is right although appendToSegment
\* always counts on the head of the list, because the list never grows beyond
\* one segment.  The remaining capacity is that of the seglets, and no segment
\* that overflows stays in memory once a command has been handled.
SegmentsAccounted ==
    /\ \A f \in disk : f.num = Len(f.lets)
    /\ \A i \in DOMAIN segment :
        LET lets == segment[i].lets
            total[k \in 0..Len(lets)] ==
                IF k = 0 THEN 0 ELSE total[k-1] + SegletLen(lets[k])
        IN  /\ segment[i].segletnum = Len(lets)
            /\ segment[i].capacity >= 0
            /\ segment[i].capacity = MAX_SEGMENT_CAPACITY - total[Len(lets)]

\* The two lines of a seglet are the whole n-th command of primary a.
Intact(c, a, n) ==
    /\ c[1].kind = "set" /\ c[2].kind = "val"
    /\ c[1].from = a /\ c[2].from = a
    /\ c[1].n = n /\ c[2].n = n

\* lets are whole commands of a, each later than those before it.
Rising(lets, a) ==
    \A i \in DOMAIN lets :
        /\ Intact(lets[i], a, lets[i][1].n)
        /\ \A j \in 1..(i-1) : lets[j][1].n < lets[i][1].n

\* None is missing between them.
Consecutive(lets) == \A i \in DOMAIN lets : lets[i][1].n = lets[1][1].n + i - 1

\* What is kept for a, if all its values are text of one line and nothing is
\* left behind them: whole commands in order; none is missing while no read has
\* ended inside a request.
RunOf(lets, a) ==
    a \in Primaries \ odd => Rising(lets, a) /\ (a \notin cut => Consecutive(lets))

\* A segment, a file and the data sent to a recovery node hold whole commands of
\* the one primary they are filed under, in order, none twice and none missing
\* in between: neither a batch, a read that ends inside a request, a restart in
\* the middle of a call, nor another primary's commands, whatever they are and
\* however they arrive, can mix with them.  (A request of which a read brings
\* less than the value is missing.)
RunsIntact ==
    /\ \A i \in DOMAIN segment : RunOf(segment[i].lets, segment[i].addr)
    /\ \A f \in disk : RunOf(f.lets, f.dir[Len(f.dir)])
    /\ \A a \in Primaries : RunOf(sentBack[a], a)

Held(a, n) ==
    \/ \E i \in DOMAIN segment : \E j \in DOMAIN segment[i].lets :
           Intact(segment[i].lets[j], a, n)
    \/ \E f \in disk : \E j \in DOMAIN f.lets : Intact(f.lets[j], a, n)

\* A command the backup has confirmed with a BACKUP_REPLY (so that the primary
\* told its client STORED) is in the backup's memory or in one of its files.
AckedHeld == \A r \in acked : Held(r[1], r[2])

\* The same as long as the backup runs: "we have store the data to memory".
AckedHeldWhileUp == up = "running" => AckedHeld

\* While one primary alone writes plain values, its requests arrive whole, fopen
\* never fails, no file name is used twice and the process is not killed, every
\* confirmed command is held: on the way from memory to disk none is lost, and
\* even the NULL dereference in the middle of a batch loses none, because the
\* list is empty then.
SingleWriterDurable ==
    \A a \in Primaries :
        (/\ \A b \in Primaries \ {a} : nsent[b] = 0
         /\ a \notin odd /\ a \notin cut
         /\ faults = 0 /\ restarts = 0
         /\ written = Cardinality(disk)
         /\ up \in {"running", "segv in append"})
        => AckedHeld

=============================================================================
