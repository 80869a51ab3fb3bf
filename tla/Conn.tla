-------------------------------- MODULE Conn --------------------------------
(***************************************************************************)
(* One conn structure of a worker and the clients it serves one after the  *)
(* other (memcached.c: drive_machine and what its states call, for the     *)
(* ASCII and the binary protocol over TCP).                                *)
(*                                                                         *)
(* A request is a sequence of units on the wire: two for the command line  *)
(* or the header, one for extras and key (binary), then those of the       *)
(* value.  What the item store answers is a choice among the answers it    *)
(* can give.  Not modelled: failing mallocs of buffers (only those of      *)
(* items and of the answer to stats may fail), failing libevent calls,     *)
(* UDP, SASL switched on, and the commands of RamCube, which               *)
(* Replication.tla has.                                                    *)
(***************************************************************************)
EXTENDS Naturals, Sequences, SequencesExt

CONSTANTS
    Requests,       \* the requests clients send: kind, quiet, units of value
    NoRequest,
    MaxSession,     \* bound: clients that connect
    MaxRequests,    \* bound: requests of a client, and
    LastRequests,   \* one of these on top of them, sent before any is read
    ReqsPerEvent,   \* settings.reqs_per_event
    SndBuf          \* units the socket takes before sendmsg() would block

AsciiKinds == {"get", "getlong", "set", "line", "stats", "quit", "noeol"}
KeyedKinds == {"bget", "btouch", "bset", "bappend", "bincr", "bdelete", "bflush", "bstat", "bsasl"}
BareKinds == {"bnoop", "bquit", "bunknown", "binvalid"}

\* A value elsewhere makes a binary request invalid, and an ASCII one two.
ValuedKinds == {"set", "bset", "bappend", "btouch", "bstat", "bsasl", "bunknown", "binvalid"}

ASSUME ConnAssumption ==
    /\ Requests \subseteq [kind : AsciiKinds \cup KeyedKinds \cup BareKinds,
                           quiet : BOOLEAN, value : Nat]
    /\ \A r \in Requests :
          /\ r.kind = "set" => r.value > 0      \* at least the final CRLF
          /\ r.value > 0 => r.kind \in ValuedKinds
    /\ NoRequest \notin Requests /\ LastRequests \subseteq Requests
    /\ MaxSession \in Nat /\ MaxRequests \in Nat
    /\ ReqsPerEvent \in Nat \ {0} /\ SndBuf \in Nat \ {0}

VARIABLES
    c,          \* the conn structure
    running,    \* the worker is inside drive_machine() for it
    nreqs,      \* drive_machine's budget of requests
    inq,        \* what the socket has to read
    snd,        \* units written and not read by the client yet
    open,       \* a client is connected
    eof,        \* the client has closed its end
    togo,       \* the rest of the request the client is sending
    sent,       \* requests the client has sent
    session,    \* clients there have been
    cur,        \* the request being served (history)
    replied,    \* answers to this client (history)
    held,       \* references to items taken and not given back (history)
    longkey,    \* a multiget met an illegal key after a hit (history)
    unswallowed,\* a value was left on the wire, or more than one skipped (history)
    lost        \* a value was parsed as a command: the model ends here

netvars == <<inq, open, eof, togo, sent, session>>
histvars == <<cur, replied, held, longkey, unswallowed, lost>>
vars == <<c, running, nreqs, inq, snd, open, eof, togo, sent, session,
          cur, replied, held, longkey, unswallowed, lost>>

HeadUnits == 2
Length(r) == HeadUnits + (IF r.kind \in KeyedKinds THEN 1 ELSE 0) + r.value
Units(r) == [i \in 1..Length(r) |-> <<r, i>>]

\* The requests whose first unit is in s.
RequestsIn(s) ==
    LET firsts == SelectSeq(s, LAMBDA u : u[2] = 1)
    IN  [i \in DOMAIN firsts |-> firsts[i][1]]

Binary(r) == r.kind \notin AsciiKinds

States == {"new_cmd", "waiting", "read", "parse_cmd", "nread", "swallow", "write", "mwrite",
           "closing", "closed"}

\* struct conn: rbuf is what is unparsed of it, out what msglist has to send,
\* go write_and_go, ev ev_flags.
ConnStruct ==
    [state : States, protocol : {"negotiating", "ascii", "binary"},
     rbuf : Seq(Requests \X (Nat \ {0})), rlbytes : Nat, sbytes : Nat, noreply : BOOLEAN,
     cmd : Requests \cup {NoRequest}, substate : {"none", "key", "value"},
     item : BOOLEAN, ileft : 0..2, out : Nat, go : {"new_cmd", "swallow", "closing"},
     ev : {"READ", "WRITE"}]

\* conn_new(): everything is set again but sbytes, which a structure from the
\* free list keeps from its last client.
ConnNew(sbytes) ==
    [state |-> "new_cmd", protocol |-> "negotiating", rbuf |-> <<>>, rlbytes |-> 0,
     sbytes |-> sbytes, noreply |-> FALSE, cmd |-> NoRequest, substate |-> "none",
     item |-> FALSE, ileft |-> 0, out |-> 0, go |-> "new_cmd", ev |-> "READ"]

Init ==
    /\ c = [ConnNew(0) EXCEPT !.state = "closed"]
    /\ running = FALSE
    /\ nreqs = 0
    /\ inq = <<>>
    /\ snd = 0
    /\ open = FALSE
    /\ eof = FALSE
    /\ togo = <<>>
    /\ sent = 0
    /\ session = 0
    /\ cur = NoRequest
    /\ replied = 0
    /\ held = 0
    /\ longkey = FALSE
    /\ unswallowed = FALSE
    /\ lost = FALSE

-----------------------------------------------------------------------------
(***************************************************************************)
(* Clients.                                                                *)
(***************************************************************************)
Connect ==
    /\ ~open /\ session < MaxSession
    /\ open' = TRUE
    /\ session' = session + 1
    /\ c' = ConnNew(c.sbytes)
    /\ held' = 0
    /\ longkey' = FALSE
    /\ UNCHANGED <<running, nreqs, inq, snd, eof, togo, sent, cur, replied, unswallowed, lost>>

\* A client keeps to one protocol and to the bounds, and sends nothing after a line without end.
MaySend(r) ==
    /\ \/ sent < MaxRequests
       \/ sent = MaxRequests /\ r \in LastRequests /\ Len(RequestsIn(inq)) = sent
    /\ c.protocol # "negotiating" => (c.protocol = "binary") = Binary(r)
    /\ \A i \in 1..Len(inq \o c.rbuf) :
          LET q == (inq \o c.rbuf)[i][1] IN Binary(q) = Binary(r) /\ q.kind # "noeol"

ClientSend(r) ==
    /\ open /\ ~eof /\ togo = <<>>
    /\ MaySend(r)
    /\ inq' = Append(inq, Units(r)[1])
    /\ togo' = Tail(Units(r))
    /\ sent' = sent + 1
    /\ UNCHANGED <<c, running, nreqs, snd, open, eof, session, histvars>>

ClientSendMore ==
    /\ ~eof /\ togo # <<>>
    /\ inq' = Append(inq, Head(togo))
    /\ togo' = Tail(togo)
    /\ UNCHANGED <<c, running, nreqs, snd, open, eof, sent, session, histvars>>

ClientRead ==
    /\ open /\ snd > 0
    /\ snd' = snd - 1
    /\ UNCHANGED <<c, running, nreqs, netvars, histvars>>

ClientLeave ==
    /\ open /\ ~eof
    /\ eof' = TRUE
    /\ togo' = <<>>
    /\ UNCHANGED <<c, running, nreqs, inq, snd, open, sent, session, histvars>>

-----------------------------------------------------------------------------
(***************************************************************************)
(* Answers.  Functions of the program that work on a conn are operators    *)
(* from conn to conn, or to the set of the conns they may leave.           *)
(***************************************************************************)
\* msglist and iov hold out units to send; nothing is left of the last answer.
AddMsghdr(d) == [d EXCEPT !.out = 0]
AddIov(d, units) == [d EXCEPT !.out = @ + units]

\* Mutant: noreply outlives its command.
OutString_Sticky(d) ==
    IF d.noreply THEN [d EXCEPT !.state = "new_cmd"]
    ELSE [AddIov(AddMsghdr(d), 1) EXCEPT !.state = "write", !.go = "new_cmd"]

OutString(d) ==
    IF d.noreply
    THEN [d EXCEPT !.noreply = FALSE, !.state = "new_cmd"]
    ELSE [AddIov(AddMsghdr(d), 1) EXCEPT !.state = "write", !.go = "new_cmd"]

WriteAndFree(d, units) == [AddIov(d, units) EXCEPT !.state = "write", !.go = "new_cmd"]

AddBinHeader(d, body) == AddIov(AddMsghdr(d), 1 + body)

WriteBinError(d, swallow) ==
    LET e == [AddBinHeader(d, 0) EXCEPT !.state = "mwrite"]
    IN  IF swallow > 0
        THEN [e EXCEPT !.sbytes = swallow, !.go = "swallow"]
        ELSE [e EXCEPT !.go = "new_cmd"]

WriteBinResponse(d) ==
    IF d.noreply
    THEN [d EXCEPT !.state = "new_cmd"]
    ELSE [AddBinHeader(d, 0) EXCEPT !.state = "mwrite", !.go = "new_cmd"]

HandleBinaryProtocolError(d) == [WriteBinError(d, 0) EXCEPT !.go = "closing"]

\* The answer to a stats command is gathered in a buffer that grows; when it
\* cannot, the part is left out.  The statistics of one source are one unit.
AppendStats(n) == {n, n + 1}
ServerStats(n) == AppendStats(n)
GetStats(n) == AppendStats(n)
ProcessStatSettings(n) == AppendStats(n)
GeneralStats == UNION {GetStats(n) : n \in ServerStats(0)}
Terminated(ns) == UNION {AppendStats(n) : n \in ns}

\* The buffer goes to write_and_free(), if there is one.
StatsAnswer(d, n) ==
    CASE n > 0 -> WriteAndFree(d, n)
      [] n = 0 /\ d.protocol = "ascii" -> OutString(d)
      [] n = 0 /\ d.protocol = "binary" -> WriteBinError(d, 0)

-----------------------------------------------------------------------------
(***************************************************************************)
(* ASCII commands.                                                         *)
(***************************************************************************)
\* Up to two keys are found.  ileft is set after the loop over the keys.
ProcessGet(d) ==
    {[AddIov(d, 1 + hits) EXCEPT !.ileft = hits, !.state = "mwrite"] : hits \in 0..2}

\* The loop returns at a key that is too long.
ProcessGetLong(d) == {OutString(d)}

SetNoreplyMaybe(d) == [d EXCEPT !.noreply = @ \/ d.cmd.quiet]

\* The line of a set has too few or too many words, a key that is too long,
\* something that is not a number or a negative length: its value is not
\* swallowed.
BadLine(d) == {OutString(d), OutString(SetNoreplyMaybe(d))}

\* No item: "swallow the data line".
ProcessUpdate(d) ==
    LET e == SetNoreplyMaybe(d)
    IN  {[e EXCEPT !.item = TRUE, !.rlbytes = d.cmd.value, !.state = "nread"],
         [OutString(e) EXCEPT !.go = "swallow", !.sbytes = d.cmd.value]}
            \cup BadLine(d)

\* delete, incr, decr, touch, flush_all, verbosity, version, slabs
ProcessLine(d) == {OutString(SetNoreplyMaybe(d))}

ProcessStatsDetail(d) == {OutString(d), WriteAndFree(d, 1)}

ProcessStat(d) ==
    {OutString(d)}                          \* reset, a bad line, nothing known
        \cup ProcessStatsDetail(d)
        \cup {StatsAnswer(d, n) : n \in GetStats(0)}
        \cup {StatsAnswer(d, n) : n \in Terminated(GeneralStats \cup ProcessStatSettings(0))}

ProcessCommand(d) ==
    CASE d.cmd.kind = "get" -> ProcessGet(d)
      [] d.cmd.kind = "getlong" -> ProcessGetLong(d)
      [] d.cmd.kind = "set" -> ProcessUpdate(d)
      [] d.cmd.kind = "line" -> ProcessLine(d)
      [] d.cmd.kind = "stats" -> ProcessStat(d)
      [] d.cmd.kind = "quit" -> {[d EXCEPT !.state = "closing"]}

CompleteNreadAscii(d) == {[OutString(d) EXCEPT !.item = FALSE]}

-----------------------------------------------------------------------------
(***************************************************************************)
(* Binary commands.                                                        *)
(***************************************************************************)
\* Extras and key go to rbuf behind the header.
BinReadKey(d) == [d EXCEPT !.substate = "key", !.rlbytes = 1, !.state = "nread"]

DispatchBinCommand(d) ==
    LET e == [d EXCEPT !.noreply = d.cmd.quiet]
    IN  CASE d.cmd.kind = "bnoop" -> WriteBinResponse(e)
          [] d.cmd.kind = "bquit" ->
                 IF e.noreply THEN [WriteBinResponse(e) EXCEPT !.state = "closing", !.go = "closing"]
                 ELSE [WriteBinResponse(e) EXCEPT !.go = "closing"]
          [] d.cmd.kind = "bunknown" -> WriteBinError(e, d.cmd.value)
          [] d.cmd.kind = "binvalid" -> HandleBinaryProtocolError(e)
          [] d.cmd.kind \in KeyedKinds -> BinReadKey(e)

\* A hit is answered with the item, a miss with an error unless quiet.
Found(d) == [AddBinHeader(d, 1) EXCEPT !.item = TRUE, !.state = "mwrite", !.go = "new_cmd"]
Missed(d) == IF d.noreply THEN [d EXCEPT !.state = "new_cmd"] ELSE WriteBinError(d, 0)

ProcessBinGet(d) == {Found(d), Missed(d)}
ProcessBinTouch(d) == {Found(d), Missed(d)}

\* No item: "swallow the data line".  write_bin_error() has set sbytes only
\* if there is a value.
RefuseValue_Forget(d) == WriteBinError(d, 0)      \* mutant: the value stays unread
RefuseValue(d) == [WriteBinError(d, d.cmd.value) EXCEPT !.go = "swallow"]

ReadValue(d) ==
    [d EXCEPT !.item = TRUE, !.rlbytes = d.cmd.value, !.state = "nread", !.substate = "value"]

ProcessBinUpdate(d) == {ReadValue(d), RefuseValue(d)}
ProcessBinAppendPrepend(d) == {ReadValue(d), RefuseValue(d)}

CompleteUpdateBin(d) ==
    {[e EXCEPT !.item = FALSE] : e \in {WriteBinResponse(d), WriteBinError(d, 0)}}

CompleteIncrBin(d) == {WriteBinResponse(d), WriteBinError(d, 0)}
ProcessBinDelete(d) == {WriteBinResponse(d), WriteBinError(d, 0)}
ProcessBinFlush(d) == {WriteBinResponse(d)}

ProcessBinStat(d) ==
    {WriteBinError(d, 0)}                   \* nothing known
        \cup {StatsAnswer(d, n) : n \in GetStats(0)}
        \cup {StatsAnswer(d, n) : n \in Terminated({0} \cup GeneralStats \cup ProcessStatSettings(0))}

\* SASL is off: the command is unknown.
ProcessBinSaslAuth(d) == {WriteBinError(d, d.cmd.value)}

CompleteNreadBinary(d) ==
    CASE d.substate = "value" -> CompleteUpdateBin(d)
      [] d.substate = "key" /\ d.cmd.kind = "bget" -> ProcessBinGet(d)
      [] d.substate = "key" /\ d.cmd.kind = "btouch" -> ProcessBinTouch(d)
      [] d.substate = "key" /\ d.cmd.kind = "bset" -> ProcessBinUpdate(d)
      [] d.substate = "key" /\ d.cmd.kind = "bappend" -> ProcessBinAppendPrepend(d)
      [] d.substate = "key" /\ d.cmd.kind = "bincr" -> CompleteIncrBin(d)
      [] d.substate = "key" /\ d.cmd.kind = "bdelete" -> ProcessBinDelete(d)
      [] d.substate = "key" /\ d.cmd.kind = "bflush" -> ProcessBinFlush(d)
      [] d.substate = "key" /\ d.cmd.kind = "bstat" -> ProcessBinStat(d)
      [] d.substate = "key" /\ d.cmd.kind = "bsasl" -> ProcessBinSaslAuth(d)

CompleteNread(d) == IF d.protocol = "ascii" THEN CompleteNreadAscii(d) ELSE CompleteNreadBinary(d)

-----------------------------------------------------------------------------
(***************************************************************************)
(* drive_machine(): one action per state, taken while the worker runs it.  *)
(* The ledger of references (held) is kept by hand beside each call of     *)
(* item_get(), item_alloc() and item_remove().                             *)
(***************************************************************************)
ItemRef(d) == IF d.item THEN 1 ELSE 0
Least_All(a, b) == b       \* mutant: everything there is
Least(a, b) == IF a < b THEN a ELSE b
From(s, n) == SubSeq(s, n + 1, Len(s))

Stop(d) == running' = FALSE /\ c' = d
Go(d) == running' = running /\ c' = d

\* libevent calls event_handler(), which calls drive_machine().
Event ==
    /\ ~running /\ open
    /\ \/ c.ev = "READ" /\ (inq # <<>> \/ eof)
       \/ c.ev = "WRITE" /\ (snd < SndBuf \/ eof)
    /\ running' = TRUE
    /\ nreqs' = ReqsPerEvent
    /\ UNCHANGED <<c, snd, netvars, histvars>>

ResetCmdHandler(d) ==
    [d EXCEPT !.cmd = NoRequest, !.substate = "none", !.item = FALSE,
              !.state = IF d.rbuf # <<>> THEN "parse_cmd" ELSE "waiting"]

\* Mutant: a yield leaves the event as it is.
NewCmd_Yield ==
    /\ running /\ c.state = "new_cmd"
    /\ IF nreqs > 0
       THEN nreqs' = nreqs - 1 /\ Go(ResetCmdHandler(c)) /\ held' = held - ItemRef(c)
       ELSE Stop(c) /\ UNCHANGED <<nreqs, held>>
    /\ cur' = NoRequest
    /\ UNCHANGED <<snd, netvars, replied, longkey, unswallowed, lost>>

\* A request that needs no answer is done with here.
NewCmd ==
    /\ running /\ c.state = "new_cmd"
    /\ IF nreqs > 0
       THEN /\ nreqs' = nreqs - 1
            /\ Go(ResetCmdHandler(c))
            /\ held' = held - ItemRef(c)
       ELSE /\ Stop(IF c.rbuf # <<>> THEN [c EXCEPT !.ev = "WRITE"] ELSE c)
            /\ UNCHANGED <<nreqs, held>>
    /\ cur' = NoRequest
    /\ UNCHANGED <<snd, netvars, replied, longkey, unswallowed, lost>>

Waiting ==
    /\ running /\ c.state = "waiting"
    /\ Stop([c EXCEPT !.ev = "READ", !.state = "read"])
    /\ UNCHANGED <<nreqs, snd, netvars, histvars>>

\* try_read_network(), entered only when libevent says there is something.  A
\* read that fills the buffer is followed by another one, and an end of
\* stream found there hides what was read before it.
Read ==
    /\ running /\ c.state = "read"
    /\ \/ /\ inq # <<>>
          /\ Go([c EXCEPT !.rbuf = @ \o inq, !.state = "parse_cmd"])
          /\ inq' = <<>>
       \/ /\ eof
          /\ Go([c EXCEPT !.state = "closing"])
          /\ UNCHANGED inq
    /\ UNCHANGED <<nreqs, snd, open, eof, togo, sent, session, histvars>>

\* The first byte of a client's first request tells the protocol.
Negotiate(d) ==
    IF d.protocol # "negotiating" THEN d
    ELSE [d EXCEPT !.protocol = IF Binary(Head(d.rbuf)[1]) THEN "binary" ELSE "ascii"]

\* A complete line or header is at the front of the buffer: take it.
TakeRequest(d) ==
    [AddMsghdr(d) EXCEPT !.cmd = Head(d.rbuf)[1], !.rbuf = From(@, HeadUnits)]

\* No newline in the first 1024 bytes and not a get.
NoEol(s) == s # <<>> /\ Len(s) >= HeadUnits /\ s[1][1].kind = "noeol"

\* Where the value of a request stays on the wire: an ASCII set with a bad
\* line, or refused under noreply (out_string() has said new_cmd, so
\* write_and_go is not looked at); a touch or stat, whose length is not
\* checked; a set without a value that swallows an old sbytes.
NotSwallowed(d, e) ==
    \/ d.cmd.kind = "set" /\ ~d.item /\ ~e.item /\ (e.state = "new_cmd" \/ e.go # "swallow")
    \/ d.substate = "key" /\ d.cmd.kind \in {"btouch", "bstat"} /\ d.cmd.value > 0
    \/ e.go = "swallow" /\ e.state = "mwrite" /\ d.cmd.value # e.sbytes

ParseCmd ==
    /\ running /\ c.state = "parse_cmd"
    /\ LET d == Negotiate(c)
       IN  \/ /\ Head(d.rbuf)[2] # 1        \* part of a value is at the front
              /\ lost' = TRUE
              /\ UNCHANGED <<running, c, cur, held, longkey, unswallowed>>
           \/ /\ Head(d.rbuf)[2] = 1
              /\ Len(d.rbuf) < HeadUnits
              /\ Go([d EXCEPT !.state = "waiting"])
              /\ UNCHANGED <<cur, held, longkey, unswallowed, lost>>
           \/ /\ Head(d.rbuf)[2] = 1
              /\ NoEol(d.rbuf)
              /\ Go([d EXCEPT !.state = "closing"])
              /\ UNCHANGED <<cur, held, longkey, unswallowed, lost>>
           \/ /\ Head(d.rbuf)[2] = 1
              /\ Len(d.rbuf) >= HeadUnits /\ ~NoEol(d.rbuf)
              /\ LET t == TakeRequest(d)
                     answers == IF t.protocol = "ascii" THEN ProcessCommand(t)
                                ELSE {DispatchBinCommand(t)}
                 IN  \E e \in answers, hits \in IF t.cmd.kind = "getlong" THEN 0..2 ELSE {0} :
                        /\ Go(e)
                        /\ cur' = t.cmd
                        /\ held' = held + ItemRef(e) + e.ileft + hits
                        /\ longkey' = (longkey \/ hits > 0)
                        /\ unswallowed' = (unswallowed \/ NotSwallowed(t, e))
              /\ UNCHANGED lost
    /\ UNCHANGED <<nreqs, snd, netvars, replied>>

\* Mutant: a socket with nothing to read yet is taken for a broken one.
NothingToRead_Fails(d) == Go([d EXCEPT !.state = "closing"])

\* The end of the stream, or EAGAIN.
NothingToRead(d) ==
    IF eof THEN Go([d EXCEPT !.state = "closing"]) ELSE Stop([d EXCEPT !.ev = "READ"])

\* Units are taken from the buffer first, then from the socket.
Nread ==
    /\ running /\ c.state = "nread"
    /\ LET n == Least(c.rlbytes, Len(c.rbuf))
           d == [c EXCEPT !.rlbytes = @ - n, !.rbuf = From(@, n)]
           m == Least(d.rlbytes, Len(inq))
       IN  \/ /\ c.rlbytes = 0
              /\ \E e \in CompleteNread(c) :
                    /\ Go(e)
                    /\ held' = held + ItemRef(e) - ItemRef(c)
                    /\ unswallowed' = (unswallowed \/ NotSwallowed(c, e))
              /\ UNCHANGED inq
           \/ /\ c.rlbytes > 0
              /\ d.rlbytes = 0
              /\ Go(d)
              /\ UNCHANGED <<inq, held, unswallowed>>
           \/ /\ d.rlbytes > 0 /\ m > 0
              /\ Go([d EXCEPT !.rlbytes = @ - m])
              /\ inq' = From(inq, m)
              /\ UNCHANGED <<held, unswallowed>>
           \/ /\ d.rlbytes > 0 /\ m = 0
              /\ NothingToRead(d)
              /\ UNCHANGED <<inq, held, unswallowed>>
    /\ UNCHANGED <<nreqs, snd, open, eof, togo, sent, session, cur, replied, longkey, lost>>

\* Another request is swallowed.
EatsRequest(s) == \E i \in DOMAIN s : s[i][2] = 1

Swallow ==
    /\ running /\ c.state = "swallow"
    /\ LET n == Least(c.sbytes, Len(c.rbuf))
           m == Least(c.sbytes, Len(inq))
       IN  \/ /\ c.sbytes = 0
              /\ Go([c EXCEPT !.state = "new_cmd"])
              /\ UNCHANGED <<inq, lost>>
           \/ /\ n > 0
              /\ Go([c EXCEPT !.sbytes = @ - n, !.rbuf = From(@, n)])
              /\ lost' = EatsRequest(SubSeq(c.rbuf, 1, n))
              /\ UNCHANGED inq
           \/ /\ c.sbytes > 0 /\ n = 0 /\ m > 0
              /\ Go([c EXCEPT !.sbytes = @ - m])
              /\ inq' = From(inq, m)
              /\ lost' = EatsRequest(SubSeq(inq, 1, m))
           \/ /\ c.sbytes > 0 /\ n = 0 /\ m = 0
              /\ NothingToRead(c)
              /\ UNCHANGED <<inq, lost>>
    /\ UNCHANGED <<nreqs, snd, open, eof, togo, sent, session,
                   cur, replied, held, longkey, unswallowed>>

\* Mutant: the items sent are not given back.
Written_Keep(d) ==
    [d EXCEPT !.state = IF d.state = "mwrite" /\ d.protocol = "ascii" THEN "new_cmd" ELSE d.go]

\* What follows when the whole answer is written.
Written(d) ==
    IF d.state = "mwrite"
    THEN [d EXCEPT !.ileft = 0, !.state = IF d.protocol = "binary" THEN d.go ELSE "new_cmd"]
    ELSE [d EXCEPT !.state = d.go]

Transmit ==
    /\ running /\ c.state \in {"write", "mwrite"}
    /\ LET n == Least(c.out, SndBuf - snd)
       IN  \/ /\ c.out = 0
              /\ Go(Written(c))
              /\ held' = held - (c.ileft - Written(c).ileft)
              /\ replied' = replied + 1
              /\ cur' = NoRequest
              /\ UNCHANGED snd
           \/ /\ n > 0
              /\ Go([c EXCEPT !.out = @ - n])
              /\ snd' = snd + n
              /\ UNCHANGED <<held, replied, cur>>
           \/ /\ c.out > 0 /\ n = 0
              /\ Stop([c EXCEPT !.ev = "WRITE"])
              /\ UNCHANGED <<snd, held, replied, cur>>
           \/ /\ c.out > 0 /\ eof           \* the client is gone
              /\ Go([c EXCEPT !.state = "closing"])
              /\ UNCHANGED <<snd, held, replied, cur>>
    /\ UNCHANGED <<nreqs, netvars, longkey, unswallowed, lost>>

\* conn_close(): the structure goes to the free list or is freed.
Closing ==
    /\ running /\ c.state = "closing"
    /\ \E sbytes \in {0, c.sbytes} : Stop([ConnNew(sbytes) EXCEPT !.state = "closed"])
    /\ held' = held - ItemRef(c) - c.ileft
    /\ open' = FALSE
    /\ inq' = <<>> /\ snd' = 0 /\ eof' = FALSE /\ togo' = <<>> /\ sent' = 0
    /\ cur' = NoRequest
    /\ replied' = 0
    /\ unswallowed' = FALSE
    /\ UNCHANGED <<nreqs, session, longkey, lost>>

DriveMachine ==
    \/ NewCmd
    \/ Waiting
    \/ Read
    \/ ParseCmd
    \/ Nread
    \/ Swallow
    \/ Transmit
    \/ Closing

Client ==
    \/ Connect
    \/ \E r \in Requests : ClientSend(r)
    \/ ClientSendMore
    \/ ClientRead
    \/ ClientLeave

\* Once a value was taken for a command there is no telling what it asks for.
Next == ~lost /\ (Event \/ DriveMachine \/ Client)

\* The worker's event loop serves what is ready; a client that has begun to
\* send a request sends all of it, and reads what it is sent.
Fairness ==
    /\ WF_vars(~lost /\ (Event \/ DriveMachine))
    /\ WF_vars(~lost /\ ClientSendMore)
    /\ WF_vars(~lost /\ ClientRead)

Spec == Init /\ [][Next]_vars /\ Fairness

-----------------------------------------------------------------------------
(***************************************************************************)
(* Properties.                                                             *)
(***************************************************************************)
\* Each variable has its type; a structure no client uses is closed.
TypeOK ==
    /\ c \in ConnStruct
    /\ open <=> c.state # "closed"
    /\ snd \in 0..SndBuf
    /\ nreqs \in 0..ReqsPerEvent
    /\ cur \in Requests \cup {NoRequest}

\* When the server looks for the next command, the next unread unit is the
\* first of a request: values are read or swallowed to their last byte and
\* never further (conn_nread, conn_swallow), in every command, split and
\* reuse of the structure, except after what unswallowed records: an ASCII
\* set with a bad line, or refused under noreply; a touch or stat with a value
\* it does not take; a refused binary set without one that meets the sbytes
\* an earlier client left.
AlignedUnlessUnswallowed ==
    c.state \in {"new_cmd", "waiting", "read", "parse_cmd"} /\ c.rbuf \o inq # <<>>
        => Head(c.rbuf \o inq)[2] = 1 \/ unswallowed

\* Between requests, and when the structure is closed, every reference to an
\* item that commands of this client took has been given back, whatever was
\* sent, cut off or refused in between; only a multiget that met an illegal
\* key after a hit keeps some for ever.
RefsReleasedUnlessLongKey ==
    c.state \in {"waiting", "read", "closed"} => held = 0 \/ longkey

\* The server hangs up on a client only if it left, asked for it (quit),
\* broke the binary protocol, or sent a kilobyte without a newline: a
\* write_and_go of an earlier request never closes the connection.
ClosedForCause ==
    [][c.state # "closing" /\ c'.state = "closing"
        => \/ eof
           \/ {cur, cur'} \cap {r \in Requests : r.kind \in {"quit", "bquit", "binvalid"}} # {}
           \/ NoEol(c.rbuf)]_vars

\* Every request that reached the server is answered or done with, if the
\* client stays: neither a yield with requests in the buffer, a full socket,
\* nor a request split at any unit leaves it waiting for an event that does
\* not come.
Outstanding == RequestsIn(c.rbuf \o inq) # <<>> \/ cur # NoRequest
RequestsAnswered == open /\ Outstanding ~> ~Outstanding \/ ~open \/ lost

\* The connection implements what RequestReply promises; a client whose value
\* was taken for a command counts as one that was hung up on.
Served == open /\ ~lost
RR == INSTANCE RequestReply WITH
    Silent <- {r \in Requests : r.quiet},
    open <- Served,
    pending <- IF Served THEN RequestsIn(c.rbuf \o inq) ELSE <<>>,
    cur <- IF Served THEN cur ELSE NoRequest,
    replied <- IF Served THEN replied ELSE 0
ImplementsRequestReply == RR!Spec
=============================================================================
