----------------------------- MODULE ConnProofs -----------------------------
(***************************************************************************)
(* Proofs about Conn.  The inductive invariant says, beside the types:     *)
(* which protocol the units on their way belong to, what each state of the *)
(* machine finds in the conn structure, who holds the references, and -    *)
(* the one the alignment of requests rests on - how the wire, the unread   *)
(* part of the buffer followed by what the socket has and what the client  *)
(* is still to send, continues the request that is being served.           *)
(***************************************************************************)
EXTENDS Conn, Integers, SequenceTheorems, TLAPS

Unit == Requests \X (Nat \ {0})

Wire == c.rbuf \o inq \o togo

TypeInv ==
    /\ TypeOK
    /\ inq \in Seq(Unit)
    /\ togo \in Seq(Unit)
    /\ held \in Int
    /\ open \in BOOLEAN /\ eof \in BOOLEAN /\ running \in BOOLEAN
    /\ longkey \in BOOLEAN /\ unswallowed \in BOOLEAN /\ lost \in BOOLEAN

\* A client keeps to one protocol, and to the one negotiated.
OneProtocol(w) == \A i, j \in 1..Len(w) : Binary(w[i][1]) = Binary(w[j][1])
Agrees(p, w) ==
    p # "negotiating" => \A i \in 1..Len(w) : Binary(w[i][1]) = (p = "binary")
ProtocolInv == OneProtocol(Wire) /\ Agrees(c.protocol, Wire)

\* What the states that serve a request find in the structure.
ServingInv ==
    /\ c.state = "parse_cmd" => c.rbuf # <<>>
    /\ c.state = "nread" =>
          /\ c.cmd \in Requests
          /\ \/ c.protocol = "ascii"
             \/ (c.protocol = "binary" /\ c.substate = "value")
             \/ (c.protocol = "binary" /\ c.substate = "key" /\ c.cmd.kind \in KeyedKinds)

\* Only the answer to a request that ends the connection is followed by its end.
HangUpInv ==
    c.go = "closing" =>
       \/ c.state = "closing"
       \/ /\ c.state = "mwrite" /\ c.protocol = "binary"
          /\ cur \in Requests /\ cur.kind \in {"bquit", "binvalid"}

\* The ledger of references is what the structure holds.
RefInv ==
    /\ longkey \/ held = ItemRef(c) + c.ileft
    /\ c.ileft > 0 => c.state \in {"mwrite", "closing"}
    /\ c.item => c.state \notin {"waiting", "read", "parse_cmd", "closed"}

\* Without a client there is nothing on the wire.
IdleInv == ~open => c.rbuf = <<>> /\ inq = <<>> /\ togo = <<>> /\ ~eof

SafeInv == TypeInv /\ IdleInv /\ ProtocolInv /\ ServingInv /\ HangUpInv /\ RefInv

-----------------------------------------------------------------------------
(***************************************************************************)
(* What the functions of the program that answer a request do to a conn.   *)
(***************************************************************************)
\* The fields no answer touches.
Kept(d, e) ==
    /\ e \in ConnStruct
    /\ e.protocol = d.protocol
    /\ e.rbuf = d.rbuf
    /\ e.cmd = d.cmd
    /\ e.ileft = d.ileft

\* Two conns that differ in what they have to send.
SameButOut(d, e) ==
    /\ e \in ConnStruct
    /\ e.state = d.state /\ e.protocol = d.protocol /\ e.rbuf = d.rbuf
    /\ e.rlbytes = d.rlbytes /\ e.sbytes = d.sbytes /\ e.noreply = d.noreply
    /\ e.cmd = d.cmd /\ e.substate = d.substate /\ e.item = d.item
    /\ e.ileft = d.ileft /\ e.go = d.go

(* add_iov() and add_msghdr() change only what there is to send. *)
LEMMA AddIovEffect ==
    ASSUME NEW d \in ConnStruct, NEW n \in Nat
    PROVE  SameButOut(d, AddIov(d, n))
  <1>1. AddIov(d, n) = [d EXCEPT !.out = d.out + n]
    BY DEF AddIov
  <1>2. d.out \in Nat /\ d.out + n \in Nat
    BY DEF ConnStruct
  <1>3. PICK k \in Nat : k = d.out + n
    BY <1>2
  <1>4. SameButOut(d, [d EXCEPT !.out = k])
    BY DEF ConnStruct, SameButOut
  <1> QED
    BY <1>1, <1>3, <1>4

LEMMA AddMsghdrEffect ==
    ASSUME NEW d \in ConnStruct
    PROVE  SameButOut(d, AddMsghdr(d))
  BY DEF AddMsghdr, ConnStruct, SameButOut

LEMMA AddBinHeaderEffect ==
    ASSUME NEW d \in ConnStruct, NEW n \in Nat
    PROVE  SameButOut(d, AddBinHeader(d, n))
  <1>1. PICK f : f = AddMsghdr(d)
    OBVIOUS
  <1>2. SameButOut(d, f)
    BY <1>1, AddMsghdrEffect
  <1>3. 1 + n \in Nat
    OBVIOUS
  <1>4. SameButOut(f, AddIov(f, 1 + n))
    BY <1>2, <1>3, AddIovEffect DEF SameButOut
  <1> QED
    BY <1>1, <1>2, <1>4 DEF SameButOut, AddBinHeader

(* conn_set_state() with a write_and_go. *)
LEMMA SetWrite ==
    ASSUME NEW d \in ConnStruct, NEW e,
           e = [d EXCEPT !.state = "write", !.go = "new_cmd"]
    PROVE  /\ Kept(d, e)
           /\ e.item = d.item /\ e.sbytes = d.sbytes /\ e.rlbytes = d.rlbytes
           /\ e.state = "write" /\ e.go = "new_cmd"
  <1>1. e \in ConnStruct
    BY DEF ConnStruct, States
  <1> QED
    BY <1>1 DEF ConnStruct, Kept

LEMMA SetMwrite ==
    ASSUME NEW d \in ConnStruct, NEW e,
           e = [d EXCEPT !.state = "mwrite", !.go = "new_cmd"]
    PROVE  /\ Kept(d, e)
           /\ e.item = d.item /\ e.sbytes = d.sbytes /\ e.rlbytes = d.rlbytes
           /\ e.state = "mwrite" /\ e.go = "new_cmd"
  <1>1. e \in ConnStruct
    BY DEF ConnStruct, States
  <1> QED
    BY <1>1 DEF ConnStruct, Kept

(* out_string() answers unless noreply is set, and what follows is new_cmd. *)
LEMMA OutStringEffect ==
    ASSUME NEW d \in ConnStruct, NEW e, e = OutString(d)
    PROVE  /\ Kept(d, e)
           /\ e.item = d.item /\ e.sbytes = d.sbytes /\ e.rlbytes = d.rlbytes
           /\ \/ d.noreply /\ e.state = "new_cmd" /\ e.go = d.go
              \/ ~d.noreply /\ e.state = "write" /\ e.go = "new_cmd"
  <1>1. d.noreply \in BOOLEAN
    BY DEF ConnStruct
  <1>2. CASE d.noreply
    BY <1>2 DEF OutString, Kept, ConnStruct, States
  <1>3. CASE ~d.noreply
    <2>1. PICK f : f = AddMsghdr(d)
      OBVIOUS
    <2>2. SameButOut(d, f)
      BY <2>1, AddMsghdrEffect
    <2>3. PICK g : g = AddIov(f, 1)
      OBVIOUS
    <2>4. SameButOut(f, g)
      BY <2>2, <2>3, AddIovEffect DEF SameButOut
    <2>5. e = [g EXCEPT !.state = "write", !.go = "new_cmd"]
      BY <1>3, <2>1, <2>3 DEF OutString
    <2>6. /\ Kept(g, e)
          /\ e.item = g.item /\ e.sbytes = g.sbytes /\ e.rlbytes = g.rlbytes
          /\ e.state = "write" /\ e.go = "new_cmd"
      <3>1. g \in ConnStruct
        BY <2>4 DEF SameButOut
      <3> QED
        BY <3>1, <2>5, SetWrite
    <2> QED
      BY <1>3, <2>2, <2>4, <2>6 DEF Kept, SameButOut
  <1> QED
    BY <1>1, <1>2, <1>3

(* write_and_free() sends a buffer, and what follows is new_cmd. *)
LEMMA WriteAndFreeEffect ==
    ASSUME NEW d \in ConnStruct, NEW n \in Nat, NEW e, e = WriteAndFree(d, n)
    PROVE  /\ Kept(d, e)
           /\ e.item = d.item /\ e.sbytes = d.sbytes /\ e.rlbytes = d.rlbytes
           /\ e.state = "write" /\ e.go = "new_cmd"
  <1>1. PICK g : g = AddIov(d, n)
    OBVIOUS
  <1>2. SameButOut(d, g)
    BY <1>1, AddIovEffect
  <1>3. e = [g EXCEPT !.state = "write", !.go = "new_cmd"]
    BY <1>1 DEF WriteAndFree
  <1>4. /\ Kept(g, e)
        /\ e.item = g.item /\ e.sbytes = g.sbytes /\ e.rlbytes = g.rlbytes
        /\ e.state = "write" /\ e.go = "new_cmd"
    <2>1. g \in ConnStruct
      BY <1>2 DEF SameButOut
    <2> QED
      BY <2>1, <1>3, SetWrite
  <1> QED
    BY <1>2, <1>4 DEF Kept, SameButOut

(* write_bin_error() has the value swallowed that it is told of. *)
LEMMA WriteBinErrorEffect ==
    ASSUME NEW d \in ConnStruct, NEW n \in Nat, NEW e, e = WriteBinError(d, n)
    PROVE  /\ Kept(d, e)
           /\ e.item = d.item /\ e.rlbytes = d.rlbytes
           /\ e.state = "mwrite"
           /\ \/ n > 0 /\ e.go = "swallow" /\ e.sbytes = n
              \/ n = 0 /\ e.go = "new_cmd" /\ e.sbytes = d.sbytes
  <1>1. PICK g : g = AddBinHeader(d, 0)
    OBVIOUS
  <1>2. SameButOut(d, g)
    BY <1>1, AddBinHeaderEffect
  <1>3. PICK h : h = [g EXCEPT !.state = "mwrite"]
    OBVIOUS
  <1>4. /\ Kept(d, h)
        /\ h.item = d.item /\ h.rlbytes = d.rlbytes /\ h.sbytes = d.sbytes
        /\ h.state = "mwrite"
    BY <1>2, <1>3 DEF Kept, SameButOut, ConnStruct, States
  <1>5. CASE n > 0
    <2>1. e = [h EXCEPT !.sbytes = n, !.go = "swallow"]
      BY <1>1, <1>3, <1>5 DEF WriteBinError
    <2> QED
      BY <1>4, <1>5, <2>1, ZenonT(60) DEF Kept, ConnStruct
  <1>6. CASE ~(n > 0)
    <2>1. e = [h EXCEPT !.go = "new_cmd"]
      BY <1>1, <1>3, <1>6 DEF WriteBinError
    <2> QED
      BY <1>4, <1>6, <2>1 DEF Kept, ConnStruct
  <1> QED
    BY <1>5, <1>6

(* write_bin_response() answers unless noreply is set. *)
LEMMA WriteBinResponseEffect ==
    ASSUME NEW d \in ConnStruct, NEW e, e = WriteBinResponse(d)
    PROVE  /\ Kept(d, e)
           /\ e.item = d.item /\ e.sbytes = d.sbytes /\ e.rlbytes = d.rlbytes
           /\ \/ d.noreply /\ e.state = "new_cmd" /\ e.go = d.go
              \/ ~d.noreply /\ e.state = "mwrite" /\ e.go = "new_cmd"
  <1>1. d.noreply \in BOOLEAN
    BY DEF ConnStruct
  <1>2. CASE d.noreply
    BY <1>2 DEF WriteBinResponse, Kept, ConnStruct, States
  <1>3. CASE ~d.noreply
    <2>1. PICK g : g = AddBinHeader(d, 0)
      OBVIOUS
    <2>2. SameButOut(d, g)
      BY <2>1, AddBinHeaderEffect
    <2>3. e = [g EXCEPT !.state = "mwrite", !.go = "new_cmd"]
      BY <1>3, <2>1 DEF WriteBinResponse
    <2>4. /\ Kept(g, e)
          /\ e.item = g.item /\ e.sbytes = g.sbytes /\ e.rlbytes = g.rlbytes
          /\ e.state = "mwrite" /\ e.go = "new_cmd"
      <3>1. g \in ConnStruct
        BY <2>2 DEF SameButOut
      <3> QED
        BY <3>1, <2>3, SetMwrite
    <2> QED
      BY <1>3, <2>2, <2>4 DEF Kept, SameButOut
  <1> QED
    BY <1>1, <1>2, <1>3

-----------------------------------------------------------------------------
(***************************************************************************)
(* What the commands do.  Most end in an ordinary answer, after which the  *)
(* next command is looked for.                                             *)
(***************************************************************************)
Ordinary(d, e) ==
    /\ Kept(d, e)
    /\ \/ e.state \in {"write", "mwrite"} /\ e.go = "new_cmd"
       \/ e.state = "new_cmd" /\ e.go = d.go

LEMMA OutStringOrdinary ==
    ASSUME NEW d \in ConnStruct
    PROVE  Ordinary(d, OutString(d))
  BY OutStringEffect DEF Ordinary

LEMMA WriteAndFreeOrdinary ==
    ASSUME NEW d \in ConnStruct, NEW n \in Nat
    PROVE  Ordinary(d, WriteAndFree(d, n))
  BY WriteAndFreeEffect DEF Ordinary

LEMMA WriteBinErrorOrdinary ==
    ASSUME NEW d \in ConnStruct
    PROVE  Ordinary(d, WriteBinError(d, 0))
  <1>1. PICK e : e = WriteBinError(d, 0)
    OBVIOUS
  <1>2. /\ Kept(d, e)
        /\ e.state = "mwrite"
        /\ \/ 0 > 0 /\ e.go = "swallow" /\ e.sbytes = 0
           \/ 0 = 0 /\ e.go = "new_cmd" /\ e.sbytes = d.sbytes
    BY <1>1, WriteBinErrorEffect
  <1> QED
    BY <1>1, <1>2 DEF Ordinary

LEMMA WriteBinResponseOrdinary ==
    ASSUME NEW d \in ConnStruct
    PROVE  Ordinary(d, WriteBinResponse(d))
  BY WriteBinResponseEffect DEF Ordinary

(* Setting or dropping the item of an ordinary answer keeps it ordinary. *)
LEMMA OrdinaryItem ==
    ASSUME NEW d \in ConnStruct, NEW e, Ordinary(d, e)
    PROVE  Ordinary(d, [e EXCEPT !.item = FALSE])
  <1>1. e \in ConnStruct
    BY DEF Ordinary, Kept
  <1>2. [e EXCEPT !.item = FALSE] \in ConnStruct
    BY <1>1 DEF ConnStruct
  <1> QED
    BY <1>1, <1>2 DEF Ordinary, Kept, ConnStruct

(* A hit of a binary get is an answer that holds the item. *)
LEMMA FoundOrdinary ==
    ASSUME NEW d \in ConnStruct
    PROVE  Ordinary(d, Found(d))
  <1>1. PICK g : g = AddBinHeader(d, 1)
    OBVIOUS
  <1>2. SameButOut(d, g)
    BY <1>1, AddBinHeaderEffect
  <1>3. PICK e : e = [g EXCEPT !.item = TRUE, !.state = "mwrite", !.go = "new_cmd"]
    OBVIOUS
  <1>4. g \in ConnStruct
    BY <1>2 DEF SameButOut
  <1>5. e \in ConnStruct
    BY <1>3, <1>4 DEF ConnStruct, States
  <1>6. Ordinary(g, e)
    BY <1>3, <1>4, <1>5 DEF ConnStruct, Ordinary, Kept
  <1>7. e = Found(d)
    BY <1>1, <1>3 DEF Found
  <1>8. Ordinary(d, e)
    BY <1>2, <1>6 DEF Ordinary, Kept, SameButOut
  <1> QED
    BY <1>7, <1>8

LEMMA MissedOrdinary ==
    ASSUME NEW d \in ConnStruct
    PROVE  Ordinary(d, Missed(d))
  <1>1. d.noreply \in BOOLEAN
    BY DEF ConnStruct
  <1>2. CASE d.noreply
    <2>1. Missed(d) = [d EXCEPT !.state = "new_cmd"]
      BY <1>2 DEF Missed
    <2> QED
      BY <2>1 DEF Ordinary, Kept, ConnStruct, States
  <1>3. CASE ~d.noreply
    <2>1. Missed(d) = WriteBinError(d, 0)
      BY <1>3 DEF Missed
    <2> QED
      BY <2>1, WriteBinErrorOrdinary
  <1> QED
    BY <1>1, <1>2, <1>3

(* An answer to stats has some number of units. *)
LEMMA StatsUnits ==
    /\ GetStats(0) \subseteq Nat
    /\ ProcessStatSettings(0) \subseteq Nat
    /\ GeneralStats \subseteq Nat
    /\ \A ns \in SUBSET Nat : Terminated(ns) \subseteq Nat
  BY DEF GetStats, ProcessStatSettings, GeneralStats, ServerStats, AppendStats, Terminated

LEMMA StatsAnswerOrdinary ==
    ASSUME NEW d \in ConnStruct, NEW n \in Nat, d.protocol \in {"ascii", "binary"}
    PROVE  Ordinary(d, StatsAnswer(d, n))
  <1>1. CASE n > 0
    <2>1. StatsAnswer(d, n) = WriteAndFree(d, n)
      BY <1>1 DEF StatsAnswer
    <2> QED
      BY <2>1, WriteAndFreeOrdinary
  <1>2. CASE n = 0 /\ d.protocol = "ascii"
    <2>1. StatsAnswer(d, n) = OutString(d)
      BY <1>2 DEF StatsAnswer
    <2> QED
      BY <2>1, OutStringOrdinary
  <1>3. CASE n = 0 /\ d.protocol = "binary"
    <2>1. StatsAnswer(d, n) = WriteBinError(d, 0)
      BY <1>3 DEF StatsAnswer
    <2> QED
      BY <2>1, WriteBinErrorOrdinary
  <1> QED
    BY <1>1, <1>2, <1>3

LEMMA ProcessStatOrdinary ==
    ASSUME NEW d \in ConnStruct, d.protocol \in {"ascii", "binary"}, NEW e \in ProcessStat(d)
    PROVE  Ordinary(d, e)
  <1>1. CASE e = OutString(d)
    BY <1>1, OutStringOrdinary
  <1>2. CASE e = WriteAndFree(d, 1)
    BY <1>2, WriteAndFreeOrdinary
  <1>3. CASE \E n \in GetStats(0) : e = StatsAnswer(d, n)
    BY <1>3, StatsUnits, StatsAnswerOrdinary
  <1>4. CASE \E n \in Terminated(GeneralStats \cup ProcessStatSettings(0)) : e = StatsAnswer(d, n)
    <2>1. GeneralStats \cup ProcessStatSettings(0) \in SUBSET Nat
      BY StatsUnits
    <2>2. Terminated(GeneralStats \cup ProcessStatSettings(0)) \subseteq Nat
      BY <2>1, StatsUnits
    <2> QED
      BY <1>4, <2>2, StatsAnswerOrdinary
  <1> QED
    BY <1>1, <1>2, <1>3, <1>4 DEF ProcessStat, ProcessStatsDetail

LEMMA ProcessBinStatOrdinary ==
    ASSUME NEW d \in ConnStruct, d.protocol \in {"ascii", "binary"}, NEW e \in ProcessBinStat(d)
    PROVE  Ordinary(d, e)
  <1>1. CASE e = WriteBinError(d, 0)
    BY <1>1, WriteBinErrorOrdinary
  <1>2. CASE \E n \in GetStats(0) : e = StatsAnswer(d, n)
    BY <1>2, StatsUnits, StatsAnswerOrdinary
  <1>3. CASE \E n \in Terminated({0} \cup GeneralStats \cup ProcessStatSettings(0)) :
                 e = StatsAnswer(d, n)
    <2>1. {0} \cup GeneralStats \cup ProcessStatSettings(0) \in SUBSET Nat
      <3>1. GeneralStats \subseteq Nat /\ ProcessStatSettings(0) \subseteq Nat /\ 0 \in Nat
        BY StatsUnits
      <3> QED
        BY <3>1
    <2>2. Terminated({0} \cup GeneralStats \cup ProcessStatSettings(0)) \subseteq Nat
      BY <2>1, StatsUnits
    <2> QED
      BY <1>3, <2>2, StatsAnswerOrdinary
  <1> QED
    BY <1>1, <1>2, <1>3 DEF ProcessBinStat

-----------------------------------------------------------------------------
(***************************************************************************)
(* How many units of the request it serves a conn has still to take.       *)
(***************************************************************************)
Owed(d) ==
    CASE d.state = "nread" ->
             d.rlbytes + (IF d.protocol = "binary" /\ d.substate = "key" THEN d.cmd.value ELSE 0)
      [] \/ d.state = "swallow"
         \/ d.state = "write" /\ d.go = "swallow"
         \/ d.state = "mwrite" /\ d.protocol = "binary" /\ d.go = "swallow" -> d.sbytes
      [] OTHER -> 0

\* Units of a request behind the line or the header.
Rest(r) == (IF r.kind \in KeyedKinds THEN 1 ELSE 0) + r.value

LEMMA OrdinaryOwes ==
    ASSUME NEW d, NEW e, Ordinary(d, e), d.go # "closing"
    PROVE  e.go # "closing" /\ Owed(e) = 0
  BY DEF Ordinary, Owed

\* What a command that was taken from the buffer leaves.
Taken(d, e) ==
    /\ e \in ConnStruct /\ e.protocol = d.protocol /\ e.rbuf = d.rbuf /\ e.cmd = d.cmd
    /\ e.state \in {"write", "mwrite", "new_cmd", "nread", "closing"}
    /\ e.ileft > 0 => e.state = "mwrite"
    /\ e.state = "nread" =>
          e.protocol = "ascii" \/ (e.substate = "key" /\ e.cmd.kind \in KeyedKinds)
    /\ e.state = "closing" => d.cmd.kind \in {"quit", "bquit"}
    /\ e.go = "closing" =>
          e.state \in {"mwrite", "closing"} /\ d.cmd.kind \in {"bquit", "binvalid"}
    /\ \/ e.go = "closing" \/ e.state = "closing"
       \/ NotSwallowed(d, e)
       \/ Owed(e) = Rest(d.cmd)

LEMMA OrdinaryTaken ==
    ASSUME NEW d \in ConnStruct, d.cmd \in Requests, d.go # "closing", d.ileft = 0,
           NEW e, Ordinary(d, e),
           d.cmd.kind \notin ValuedKinds, d.cmd.kind \notin KeyedKinds
    PROVE  Taken(d, e)
  <1>1. e.go # "closing" /\ Owed(e) = 0
    BY OrdinaryOwes
  <1>2. Rest(d.cmd) = 0
    BY ConnAssumption DEF Rest
  <1>3. e \in ConnStruct /\ e.protocol = d.protocol /\ e.rbuf = d.rbuf /\ e.cmd = d.cmd
        /\ e.ileft = 0 /\ e.state \in {"write", "mwrite", "new_cmd"}
    BY DEF Ordinary, Kept
  <1> QED
    BY <1>1, <1>2, <1>3 DEF Taken

(* noreply of a line is added to what the conn has. *)
LEMMA SetNoreplyMaybeEffect ==
    ASSUME NEW d \in ConnStruct, d.cmd \in Requests
    PROVE  /\ SetNoreplyMaybe(d) \in ConnStruct
           /\ Kept(d, SetNoreplyMaybe(d))
           /\ SetNoreplyMaybe(d).go = d.go
           /\ SetNoreplyMaybe(d).sbytes = d.sbytes
           /\ SetNoreplyMaybe(d).item = d.item
  <1>1. PICK b \in BOOLEAN : b = (d.noreply \/ d.cmd.quiet)
    OBVIOUS
  <1>2. SetNoreplyMaybe(d) = [d EXCEPT !.noreply = b]
    BY <1>1 DEF SetNoreplyMaybe
  <1>3. [d EXCEPT !.noreply = b] \in ConnStruct
    BY DEF ConnStruct
  <1> QED
    BY <1>2, <1>3 DEF ConnStruct, Kept

(* get answers with the items it found, and holds them until they are sent. *)
LEMMA ProcessGetTaken ==
    ASSUME NEW d \in ConnStruct, d.cmd \in Requests, d.go # "closing", d.protocol = "ascii",
           d.cmd.kind = "get", NEW e \in ProcessGet(d)
    PROVE  Taken(d, e)
  <1>1. PICK hits \in 0..2 : e = [AddIov(d, 1 + hits) EXCEPT !.ileft = hits, !.state = "mwrite"]
    BY DEF ProcessGet
  <1>2. PICK g : g = AddIov(d, 1 + hits)
    OBVIOUS
  <1>3. SameButOut(d, g)
    BY <1>2, AddIovEffect
  <1>4. e = [g EXCEPT !.ileft = hits, !.state = "mwrite"]
    BY <1>1, <1>2
  <1>5. g \in ConnStruct
    BY <1>3 DEF SameButOut
  <1>6. e \in ConnStruct
    BY <1>4, <1>5 DEF ConnStruct, States
  <1>7. /\ e.protocol = g.protocol /\ e.rbuf = g.rbuf /\ e.cmd = g.cmd /\ e.go = g.go
        /\ e.state = "mwrite"
    BY <1>4, <1>5 DEF ConnStruct
  <1>8. /\ e.protocol = "ascii" /\ e.rbuf = d.rbuf /\ e.cmd = d.cmd /\ e.go # "closing"
        /\ e.state = "mwrite"
    BY <1>3, <1>7 DEF SameButOut
  <1>9. Owed(e) = 0
    BY <1>8 DEF Owed
  <1>10. Rest(d.cmd) = 0
    BY ConnAssumption DEF ValuedKinds, Rest, KeyedKinds
  <1> QED
    BY <1>6, <1>8, <1>9, <1>10 DEF Taken

(* set reads its value, or has it swallowed - unless the line is bad or      *)
(* noreply hides the refusal.                                               *)
LEMMA ProcessUpdateTaken ==
    ASSUME NEW d \in ConnStruct, d.cmd \in Requests, d.go # "closing", d.protocol = "ascii",
           d.cmd.kind = "set", d.ileft = 0, d.item = FALSE, NEW e \in ProcessUpdate(d)
    PROVE  Taken(d, e)
  <1>1. PICK f : f = SetNoreplyMaybe(d)
    OBVIOUS
  <1>2. f \in ConnStruct /\ Kept(d, f) /\ f.go = d.go /\ f.item = d.item
    BY <1>1, SetNoreplyMaybeEffect
  <1>3. PICK v \in Nat : v = d.cmd.value
    BY ConnAssumption
  <1>4. Rest(d.cmd) = v
    BY <1>3 DEF Rest, KeyedKinds
  <1>5. CASE e = [f EXCEPT !.item = TRUE, !.rlbytes = v, !.state = "nread"]
    <2>1. e \in ConnStruct
      BY <1>2, <1>5, ZenonT(60) DEF ConnStruct, States
    <2>2. /\ e.protocol = f.protocol /\ e.rbuf = f.rbuf /\ e.cmd = f.cmd /\ e.ileft = f.ileft
          /\ e.state = "nread" /\ e.rlbytes = v /\ e.go = f.go
      BY <1>2, <1>5 DEF ConnStruct
    <2>3. /\ e.protocol = "ascii" /\ e.rbuf = d.rbuf /\ e.cmd = d.cmd /\ e.ileft = 0
          /\ e.state = "nread" /\ e.rlbytes = v /\ e.go # "closing"
      BY <1>2, <2>2 DEF Kept
    <2>4. Owed(e) = v
      BY <2>3 DEF Owed
    <2> QED
      BY <1>4, <2>1, <2>3, <2>4 DEF Taken
  <1>6. CASE e = [OutString(f) EXCEPT !.go = "swallow", !.sbytes = v]
    <2>1. PICK g : g = OutString(f)
      OBVIOUS
    <2>2. /\ Kept(f, g)
          /\ g.item = f.item
          /\ g.state \in {"new_cmd", "write"}
      BY <1>2, <2>1, OutStringEffect
    <2>3. e = [g EXCEPT !.go = "swallow", !.sbytes = v]
      BY <1>6, <2>1
    <2>4. g \in ConnStruct
      BY <2>2 DEF Kept
    <2>5. e \in ConnStruct
      BY <2>3, <2>4 DEF ConnStruct
    <2>6. /\ e.protocol = g.protocol /\ e.rbuf = g.rbuf /\ e.cmd = g.cmd /\ e.ileft = g.ileft
          /\ e.state = g.state /\ e.item = g.item /\ e.go = "swallow" /\ e.sbytes = v
      BY <2>3, <2>4 DEF ConnStruct
    <2>7. /\ e.protocol = "ascii" /\ e.rbuf = d.rbuf /\ e.cmd = d.cmd /\ e.ileft = 0
          /\ e.state \in {"new_cmd", "write"} /\ e.item = FALSE
      BY <1>2, <2>2, <2>6 DEF Kept
    <2>8. e.state = "write" => Owed(e) = v
      BY <2>6 DEF Owed
    <2>9. e.state = "new_cmd" => NotSwallowed(d, e)
      BY <2>7 DEF NotSwallowed
    <2> QED
      BY <1>4, <2>5, <2>6, <2>7, <2>8, <2>9 DEF Taken
  <1>7. CASE e \in BadLine(d)
    <2>1. PICK g \in {d, f} : e = OutString(g)
      BY <1>1, <1>7 DEF BadLine
    <2>2. g \in ConnStruct /\ Kept(d, g) /\ g.go = d.go /\ g.item = FALSE
      <3>1. Kept(d, d)
        BY DEF Kept
      <3> QED
        BY <1>2, <2>1, <3>1
    <2>3. /\ Kept(g, e)
          /\ e.item = g.item
          /\ \/ e.state = "new_cmd" /\ e.go = g.go
             \/ e.state = "write" /\ e.go = "new_cmd"
      BY <2>1, <2>2, OutStringEffect
    <2>4. /\ e \in ConnStruct /\ e.protocol = "ascii" /\ e.rbuf = d.rbuf /\ e.cmd = d.cmd
          /\ e.ileft = 0 /\ e.item = FALSE /\ e.go # "closing"
      BY <2>2, <2>3 DEF Kept
    <2>5. NotSwallowed(d, e)
      BY <2>3, <2>4 DEF NotSwallowed
    <2> QED
      BY <2>3, <2>4, <2>5 DEF Taken
  <1> QED
    BY <1>1, <1>3, <1>5, <1>6, <1>7 DEF ProcessUpdate

LEMMA ProcessLineTaken ==
    ASSUME NEW d \in ConnStruct, d.cmd \in Requests, d.go # "closing", d.protocol = "ascii",
           d.cmd.kind = "line", d.ileft = 0, NEW e \in ProcessLine(d)
    PROVE  Taken(d, e)
  <1>1. PICK f : f = SetNoreplyMaybe(d)
    OBVIOUS
  <1>2. f \in ConnStruct /\ Kept(d, f) /\ f.go = d.go
    BY <1>1, SetNoreplyMaybeEffect
  <1>3. Ordinary(f, e)
    BY <1>1, <1>2, OutStringOrdinary DEF ProcessLine
  <1>4. Ordinary(d, e)
    BY <1>2, <1>3 DEF Ordinary, Kept
  <1>5. d.cmd.kind \notin ValuedKinds /\ d.cmd.kind \notin KeyedKinds
    BY DEF ValuedKinds, KeyedKinds
  <1> QED
    BY <1>4, <1>5, OrdinaryTaken

(* Every ASCII command but a line without an end. *)
LEMMA ProcessCommandTaken ==
    ASSUME NEW d \in ConnStruct, d.cmd \in Requests, d.go # "closing", d.protocol = "ascii",
           d.ileft = 0, d.item = FALSE,
           d.cmd.kind \in AsciiKinds \ {"noeol"}, NEW e \in ProcessCommand(d)
    PROVE  Taken(d, e)
  <1>1. CASE d.cmd.kind = "get"
    <2>1. e \in ProcessGet(d)
      BY <1>1 DEF ProcessCommand
    <2> QED
      BY <1>1, <2>1, ProcessGetTaken
  <1>2. CASE d.cmd.kind = "getlong"
    <2>1. e \in ProcessGetLong(d)
      BY <1>2 DEF ProcessCommand
    <2>2. Ordinary(d, e)
      BY <2>1, OutStringOrdinary DEF ProcessGetLong
    <2>3. d.cmd.kind \notin ValuedKinds /\ d.cmd.kind \notin KeyedKinds
      BY <1>2 DEF ValuedKinds, KeyedKinds
    <2> QED
      BY <2>2, <2>3, OrdinaryTaken
  <1>3. CASE d.cmd.kind = "set"
    <2>1. e \in ProcessUpdate(d)
      BY <1>3 DEF ProcessCommand
    <2> QED
      BY <1>3, <2>1, ProcessUpdateTaken
  <1>4. CASE d.cmd.kind = "line"
    <2>1. e \in ProcessLine(d)
      BY <1>4 DEF ProcessCommand
    <2> QED
      BY <1>4, <2>1, ProcessLineTaken
  <1>5. CASE d.cmd.kind = "stats"
    <2>1. e \in ProcessStat(d)
      BY <1>5 DEF ProcessCommand
    <2>2. Ordinary(d, e)
      BY <2>1, ProcessStatOrdinary
    <2>3. d.cmd.kind \notin ValuedKinds /\ d.cmd.kind \notin KeyedKinds
      BY <1>5 DEF ValuedKinds, KeyedKinds
    <2> QED
      BY <2>2, <2>3, OrdinaryTaken
  <1>6. CASE d.cmd.kind = "quit"
    <2>1. e = [d EXCEPT !.state = "closing"]
      BY <1>6 DEF ProcessCommand
    <2>2. e \in ConnStruct
      BY <2>1 DEF ConnStruct, States
    <2>3. /\ e.protocol = d.protocol /\ e.rbuf = d.rbuf /\ e.cmd = d.cmd /\ e.ileft = 0
          /\ e.state = "closing" /\ e.go # "closing"
      BY <2>1 DEF ConnStruct
    <2> QED
      BY <1>6, <2>2, <2>3 DEF Taken
  <1> QED
    BY <1>1, <1>2, <1>3, <1>4, <1>5, <1>6 DEF AsciiKinds

(* A binary command from its header. *)
LEMMA DispatchBinCommandTaken ==
    ASSUME NEW d \in ConnStruct, d.cmd \in Requests, d.go # "closing", d.protocol = "binary",
           d.ileft = 0, d.cmd.kind \in KeyedKinds \cup BareKinds,
           NEW e, e = DispatchBinCommand(d)
    PROVE  Taken(d, e)
  <1>1. PICK f : f = [d EXCEPT !.noreply = d.cmd.quiet]
    OBVIOUS
  <1>2. /\ f \in ConnStruct
        /\ Kept(d, f) /\ f.go = d.go
        /\ f.noreply = d.cmd.quiet
    <2>1. d.cmd.quiet \in BOOLEAN
      BY ConnAssumption
    <2>2. f \in ConnStruct
      BY <1>1, <2>1 DEF ConnStruct
    <2> QED
      BY <1>1, <2>2 DEF ConnStruct, Kept
  <1>3. PICK v \in Nat : v = d.cmd.value
    BY ConnAssumption
  <1>4. CASE d.cmd.kind = "bnoop"
    <2>1. e = WriteBinResponse(f)
      BY <1>1, <1>4 DEF DispatchBinCommand, KeyedKinds
    <2>2. Ordinary(f, e)
      BY <1>2, <2>1, WriteBinResponseOrdinary
    <2>3. Ordinary(d, e)
      BY <1>2, <2>2 DEF Ordinary, Kept
    <2>4. d.cmd.kind \notin ValuedKinds /\ d.cmd.kind \notin KeyedKinds
      BY <1>4 DEF ValuedKinds, KeyedKinds
    <2> QED
      BY <2>3, <2>4, OrdinaryTaken
  <1>5. CASE d.cmd.kind = "bquit"
    <2>1. PICK g : g = WriteBinResponse(f)
      OBVIOUS
    <2>2. /\ Kept(f, g)
          /\ \/ f.noreply /\ g.state = "new_cmd"
             \/ ~f.noreply /\ g.state = "mwrite"
      BY <1>2, <2>1, WriteBinResponseEffect
    <2>3. g \in ConnStruct
      BY <2>2 DEF Kept
    <2>4. \/ e = [g EXCEPT !.state = "closing", !.go = "closing"]
          \/ ~f.noreply /\ e = [g EXCEPT !.go = "closing"]
      BY <1>1, <1>5, <2>1 DEF DispatchBinCommand, KeyedKinds
    <2>5. e \in ConnStruct
      <3>1. [g EXCEPT !.go = "closing"] \in ConnStruct
        BY <2>3 DEF ConnStruct
      <3>2. [g EXCEPT !.state = "closing", !.go = "closing"] \in ConnStruct
        BY <2>3, ZenonT(60) DEF ConnStruct, States
      <3> QED
        BY <2>4, <3>1, <3>2
    <2>6. /\ e.protocol = g.protocol /\ e.rbuf = g.rbuf /\ e.cmd = g.cmd /\ e.ileft = g.ileft
          /\ e.go = "closing"
          /\ e.state = "closing" \/ (~f.noreply /\ e.state = g.state)
      BY <2>3, <2>4 DEF ConnStruct
    <2>7. /\ e.protocol = d.protocol /\ e.rbuf = d.rbuf /\ e.cmd = d.cmd /\ e.ileft = 0
          /\ e.state \in {"mwrite", "closing"}
      BY <1>2, <2>2, <2>6 DEF Kept
    <2> QED
      BY <1>5, <2>5, <2>6, <2>7 DEF Taken
  <1>6. CASE d.cmd.kind = "bunknown"
    <2>1. e = WriteBinError(f, v)
      BY <1>1, <1>3, <1>6 DEF DispatchBinCommand, KeyedKinds
    <2>2. /\ Kept(f, e)
          /\ e.state = "mwrite"
          /\ \/ v > 0 /\ e.go = "swallow" /\ e.sbytes = v
             \/ v = 0 /\ e.go = "new_cmd"
      BY <1>2, <2>1, WriteBinErrorEffect
    <2>3. /\ e \in ConnStruct
          /\ e.protocol = "binary" /\ e.rbuf = d.rbuf /\ e.cmd = d.cmd /\ e.ileft = 0
      BY <1>2, <2>2 DEF Kept
    <2>4. Owed(e) = v
      BY <2>2, <2>3 DEF Owed
    <2>5. Rest(d.cmd) = v
      BY <1>3, <1>6 DEF Rest, KeyedKinds
    <2> QED
      BY <2>2, <2>3, <2>4, <2>5 DEF Taken
  <1>7. CASE d.cmd.kind = "binvalid"
    <2>1. PICK g : g = WriteBinError(f, 0)
      OBVIOUS
    <2>2. Ordinary(f, g)
      BY <1>2, <2>1, WriteBinErrorOrdinary
    <2>3. Kept(f, g) /\ g.state = "mwrite"
      BY <1>2, <2>1, WriteBinErrorEffect
    <2>4. g \in ConnStruct
      BY <2>3 DEF Kept
    <2>5. e = [g EXCEPT !.go = "closing"]
      BY <1>1, <1>7, <2>1 DEF DispatchBinCommand, HandleBinaryProtocolError, KeyedKinds
    <2>6. e \in ConnStruct
      BY <2>4, <2>5 DEF ConnStruct
    <2>7. /\ e.protocol = g.protocol /\ e.rbuf = g.rbuf /\ e.cmd = g.cmd /\ e.ileft = g.ileft
          /\ e.go = "closing" /\ e.state = "mwrite"
      BY <2>3, <2>4, <2>5 DEF ConnStruct
    <2>8. e.protocol = d.protocol /\ e.rbuf = d.rbuf /\ e.cmd = d.cmd /\ e.ileft = 0
      BY <1>2, <2>3, <2>7 DEF Kept
    <2> QED
      BY <1>7, <2>6, <2>7, <2>8 DEF Taken
  <1>8. CASE d.cmd.kind \in KeyedKinds
    <2>1. e = BinReadKey(f)
      BY <1>1, <1>8 DEF DispatchBinCommand, KeyedKinds
    <2>2. e = [f EXCEPT !.substate = "key", !.rlbytes = 1, !.state = "nread"]
      BY <2>1 DEF BinReadKey
    <2>3. e \in ConnStruct
      <3>1. f \in ConnStruct
        BY <1>2
      <3>2. [f EXCEPT !.substate = "key"] \in ConnStruct
        BY <3>1 DEF ConnStruct
      <3>3. [f EXCEPT !.substate = "key", !.rlbytes = 1] \in ConnStruct
        BY <3>2 DEF ConnStruct
      <3>4. PICK h : h = [f EXCEPT !.substate = "key", !.rlbytes = 1]
        OBVIOUS
      <3>5. e = [h EXCEPT !.state = "nread"]
        BY <2>2, <3>4
      <3>6. h \in ConnStruct
        BY <3>3, <3>4
      <3> QED
        BY <3>5, <3>6, ZenonT(60) DEF ConnStruct, States
    <2>4. /\ e.protocol = f.protocol /\ e.rbuf = f.rbuf /\ e.cmd = f.cmd /\ e.ileft = f.ileft
          /\ e.state = "nread" /\ e.substate = "key" /\ e.rlbytes = 1 /\ e.go = f.go
      BY <1>2, <2>2 DEF ConnStruct
    <2>5. /\ e.protocol = "binary" /\ e.rbuf = d.rbuf /\ e.cmd = d.cmd /\ e.ileft = 0
          /\ e.go # "closing"
      BY <1>2, <2>4 DEF Kept
    <2>6. Owed(e) = 1 + v
      BY <1>3, <2>4, <2>5 DEF Owed
    <2>7. Rest(d.cmd) = 1 + v
      BY <1>3, <1>8 DEF Rest
    <2> QED
      BY <1>8, <2>3, <2>4, <2>5, <2>6, <2>7 DEF Taken
  <1> QED
    BY <1>4, <1>5, <1>6, <1>7, <1>8 DEF BareKinds

-----------------------------------------------------------------------------
(***************************************************************************)
(* What complete_nread() leaves, once all that was asked for is read.      *)
(***************************************************************************)
Completed(d, e) ==
    /\ Kept(d, e)
    /\ e.go # "closing"
    /\ e.state \in {"write", "mwrite", "new_cmd", "nread"}
    /\ e.state = "nread" => e.protocol = "binary" /\ e.substate = "value"
    /\ NotSwallowed(d, e) \/ Owed(e) = Owed(d)

LEMMA OrdinaryCompleted ==
    ASSUME NEW d \in ConnStruct, d.cmd \in Requests, d.go # "closing",
           d.state = "nread", d.rlbytes = 0,
           d.protocol = "binary" /\ d.substate = "key" =>
              d.cmd.kind \notin ValuedKinds \ {"btouch", "bstat"},
           NEW e, Ordinary(d, e)
    PROVE  Completed(d, e)
  <1>1. e.go # "closing" /\ Owed(e) = 0
    BY OrdinaryOwes
  <1>2. NotSwallowed(d, e) \/ Owed(d) = 0
    <2>1. d.cmd.value \in Nat
      BY ConnAssumption
    <2>2. CASE d.protocol = "binary" /\ d.substate = "key"
      <3>1. Owed(d) = d.rlbytes + d.cmd.value
        BY <2>2 DEF Owed
      <3>2. CASE d.cmd.kind \in {"btouch", "bstat"} /\ d.cmd.value > 0
        BY <2>2, <3>2 DEF NotSwallowed
      <3>3. CASE ~(d.cmd.kind \in {"btouch", "bstat"} /\ d.cmd.value > 0)
        <4>1. d.cmd.value > 0 => d.cmd.kind \in ValuedKinds
          BY ConnAssumption
        <4>2. d.cmd.value = 0
          BY <2>1, <2>2, <3>3, <4>1
        <4> QED
          BY <3>1, <4>2
      <3> QED
        BY <3>2, <3>3
    <2>3. CASE ~(d.protocol = "binary" /\ d.substate = "key")
      <3>1. Owed(d) = d.rlbytes + 0
        BY <2>3 DEF Owed
      <3> QED
        BY <3>1
    <2> QED
      BY <2>2, <2>3
  <1>3. Kept(d, e) /\ e.state \in {"write", "mwrite", "new_cmd"}
    BY DEF Ordinary
  <1> QED
    BY <1>1, <1>2, <1>3 DEF Completed

(* The value of a binary set or append is read next. *)
LEMMA ReadValueCompleted ==
    ASSUME NEW d \in ConnStruct, d.cmd \in Requests, d.go # "closing", d.protocol = "binary",
           d.state = "nread", d.rlbytes = 0, d.substate = "key",
           NEW e, e = ReadValue(d)
    PROVE  Completed(d, e)
  <1>1. PICK v \in Nat : v = d.cmd.value
    BY ConnAssumption
  <1>2. PICK h : h = [d EXCEPT !.item = TRUE, !.rlbytes = v]
    OBVIOUS
  <1>3. h \in ConnStruct
    BY <1>2 DEF ConnStruct
  <1>4. e = [h EXCEPT !.state = "nread", !.substate = "value"]
    BY <1>1, <1>2 DEF ReadValue
  <1>5. e \in ConnStruct
    BY <1>3, <1>4, ZenonT(60) DEF ConnStruct, States
  <1>6. /\ h.protocol = d.protocol /\ h.rbuf = d.rbuf /\ h.cmd = d.cmd /\ h.ileft = d.ileft
        /\ h.rlbytes = v /\ h.go = d.go
    BY <1>2 DEF ConnStruct
  <1>7. /\ e.protocol = h.protocol /\ e.rbuf = h.rbuf /\ e.cmd = h.cmd /\ e.ileft = h.ileft
        /\ e.rlbytes = h.rlbytes /\ e.go = h.go /\ e.state = "nread" /\ e.substate = "value"
    BY <1>3, <1>4 DEF ConnStruct
  <1>8. Kept(d, e) /\ e.go # "closing" /\ e.protocol = "binary" /\ e.rlbytes = v
    BY <1>5, <1>6, <1>7 DEF Kept
  <1>9. Owed(e) = v
    BY <1>7, <1>8 DEF Owed
  <1>10. Owed(d) = v
    BY <1>1 DEF Owed
  <1> QED
    BY <1>7, <1>8, <1>9, <1>10 DEF Completed

(* A value there is no item for is swallowed, unless an old sbytes is in its place. *)
LEMMA RefuseValueCompleted ==
    ASSUME NEW d \in ConnStruct, d.cmd \in Requests, d.go # "closing", d.protocol = "binary",
           d.state = "nread", d.rlbytes = 0, d.substate = "key",
           NEW e, e = RefuseValue(d)
    PROVE  Completed(d, e)
  <1>1. PICK v \in Nat : v = d.cmd.value
    BY ConnAssumption
  <1>2. PICK g : g = WriteBinError(d, v)
    OBVIOUS
  <1>3. Kept(d, g) /\ g.state = "mwrite"
    BY <1>2, WriteBinErrorEffect
  <1>4. g \in ConnStruct
    BY <1>3 DEF Kept
  <1>5. e = [g EXCEPT !.go = "swallow"]
    BY <1>1, <1>2 DEF RefuseValue
  <1>6. e \in ConnStruct
    BY <1>4, <1>5 DEF ConnStruct
  <1>7. /\ e.protocol = g.protocol /\ e.rbuf = g.rbuf /\ e.cmd = g.cmd /\ e.ileft = g.ileft
        /\ e.go = "swallow" /\ e.state = "mwrite"
    BY <1>3, <1>4, <1>5 DEF ConnStruct
  <1>8. Kept(d, e) /\ e.protocol = "binary"
    BY <1>3, <1>6, <1>7 DEF Kept
  <1>9. Owed(e) = e.sbytes
    BY <1>7, <1>8 DEF Owed
  <1>10. Owed(d) = v
    BY <1>1 DEF Owed
  <1>11. e.sbytes # v => NotSwallowed(d, e)
    BY <1>1, <1>7 DEF NotSwallowed
  <1> QED
    BY <1>7, <1>8, <1>9, <1>10, <1>11 DEF Completed

(* SASL is off: the value is swallowed with the rest of an unknown command. *)
LEMMA ProcessBinSaslAuthCompleted ==
    ASSUME NEW d \in ConnStruct, d.cmd \in Requests, d.go # "closing", d.protocol = "binary",
           d.state = "nread", d.rlbytes = 0, d.substate = "key",
           NEW e \in ProcessBinSaslAuth(d)
    PROVE  Completed(d, e)
  <1>1. PICK v \in Nat : v = d.cmd.value
    BY ConnAssumption
  <1>2. e = WriteBinError(d, v)
    BY <1>1 DEF ProcessBinSaslAuth
  <1>3. /\ Kept(d, e) /\ e.state = "mwrite"
        /\ \/ v > 0 /\ e.go = "swallow" /\ e.sbytes = v
           \/ v = 0 /\ e.go = "new_cmd"
    BY <1>2, WriteBinErrorEffect
  <1>4. e.protocol = "binary"
    BY <1>3 DEF Kept
  <1>5. Owed(e) = v
    BY <1>3, <1>4 DEF Owed
  <1>6. Owed(d) = v
    BY <1>1 DEF Owed
  <1> QED
    BY <1>3, <1>5, <1>6 DEF Completed

(* The value is stored or refused, and its item let go of. *)
LEMMA CompleteUpdateBinOrdinary ==
    ASSUME NEW d \in ConnStruct, NEW e \in CompleteUpdateBin(d)
    PROVE  Ordinary(d, e)
  <1>1. PICK f \in {WriteBinResponse(d), WriteBinError(d, 0)} : e = [f EXCEPT !.item = FALSE]
    BY DEF CompleteUpdateBin
  <1>2. Ordinary(d, f)
    BY <1>1, WriteBinResponseOrdinary, WriteBinErrorOrdinary
  <1>3. Ordinary(d, [f EXCEPT !.item = FALSE])
    BY <1>2, OrdinaryItem
  <1> QED
    BY <1>1, <1>3

(* The binary commands that answer when their key is there. *)
Answering == {"bget", "btouch", "bincr", "bdelete", "bflush", "bstat"}

LEMMA AnsweringOrdinary ==
    ASSUME NEW d \in ConnStruct, d.protocol = "binary", d.substate = "key",
           d.cmd.kind \in Answering, NEW e \in CompleteNreadBinary(d)
    PROVE  Ordinary(d, e)
  <1>1. CASE d.cmd.kind = "bget"
    <2>1. e \in ProcessBinGet(d)
      BY <1>1 DEF CompleteNreadBinary
    <2> QED
      BY <2>1, FoundOrdinary, MissedOrdinary DEF ProcessBinGet
  <1>2. CASE d.cmd.kind = "btouch"
    <2>1. e \in ProcessBinTouch(d)
      BY <1>2 DEF CompleteNreadBinary
    <2> QED
      BY <2>1, FoundOrdinary, MissedOrdinary DEF ProcessBinTouch
  <1>3. CASE d.cmd.kind = "bincr"
    <2>1. e \in CompleteIncrBin(d)
      BY <1>3 DEF CompleteNreadBinary
    <2> QED
      BY <2>1, WriteBinResponseOrdinary, WriteBinErrorOrdinary DEF CompleteIncrBin
  <1>4. CASE d.cmd.kind = "bdelete"
    <2>1. e \in ProcessBinDelete(d)
      BY <1>4 DEF CompleteNreadBinary
    <2> QED
      BY <2>1, WriteBinResponseOrdinary, WriteBinErrorOrdinary DEF ProcessBinDelete
  <1>5. CASE d.cmd.kind = "bflush"
    <2>1. e \in ProcessBinFlush(d)
      BY <1>5 DEF CompleteNreadBinary
    <2> QED
      BY <2>1, WriteBinResponseOrdinary DEF ProcessBinFlush
  <1>6. CASE d.cmd.kind = "bstat"
    <2>1. e \in ProcessBinStat(d)
      BY <1>6 DEF CompleteNreadBinary
    <2> QED
      BY <2>1, ProcessBinStatOrdinary
  <1> QED
    BY <1>1, <1>2, <1>3, <1>4, <1>5, <1>6 DEF Answering

LEMMA CompleteNreadCompleted ==
    ASSUME NEW d \in ConnStruct, d.cmd \in Requests, d.go # "closing",
           d.state = "nread", d.rlbytes = 0,
           \/ d.protocol = "ascii"
           \/ d.protocol = "binary" /\ d.substate = "value"
           \/ d.protocol = "binary" /\ d.substate = "key" /\ d.cmd.kind \in KeyedKinds,
           NEW e \in CompleteNread(d)
    PROVE  Completed(d, e)
  <1>1. CASE d.protocol = "ascii"
    <2>1. e = [OutString(d) EXCEPT !.item = FALSE]
      BY <1>1 DEF CompleteNread, CompleteNreadAscii
    <2>2. Ordinary(d, OutString(d))
      BY OutStringOrdinary
    <2>3. Ordinary(d, e)
      BY <2>1, <2>2, OrdinaryItem
    <2> QED
      BY <1>1, <2>3, OrdinaryCompleted
  <1>2. CASE d.protocol = "binary" /\ d.substate = "value"
    <2>1. e \in CompleteUpdateBin(d)
      BY <1>2 DEF CompleteNread, CompleteNreadBinary
    <2>2. Ordinary(d, e)
      BY <2>1, CompleteUpdateBinOrdinary
    <2> QED
      BY <1>2, <2>2, OrdinaryCompleted
  <1>3. CASE d.protocol = "binary" /\ d.substate = "key" /\ d.cmd.kind \in Answering
    <2>1. e \in CompleteNreadBinary(d)
      BY <1>3 DEF CompleteNread
    <2>2. Ordinary(d, e)
      BY <1>3, <2>1, AnsweringOrdinary
    <2>3. d.cmd.kind \notin ValuedKinds \ {"btouch", "bstat"}
      BY <1>3 DEF Answering, ValuedKinds
    <2> QED
      BY <2>2, <2>3, OrdinaryCompleted
  <1>4. CASE d.protocol = "binary" /\ d.substate = "key" /\ d.cmd.kind \in {"bset", "bappend"}
    <2>1. e \in {ReadValue(d), RefuseValue(d)}
      BY <1>4 DEF CompleteNread, CompleteNreadBinary, ProcessBinUpdate, ProcessBinAppendPrepend
    <2> QED
      BY <1>4, <2>1, ReadValueCompleted, RefuseValueCompleted
  <1>5. CASE d.protocol = "binary" /\ d.substate = "key" /\ d.cmd.kind = "bsasl"
    <2>1. e \in ProcessBinSaslAuth(d)
      BY <1>5 DEF CompleteNread, CompleteNreadBinary
    <2> QED
      BY <1>5, <2>1, ProcessBinSaslAuthCompleted
  <1> QED
    BY <1>1, <1>2, <1>3, <1>4, <1>5 DEF KeyedKinds, Answering

-----------------------------------------------------------------------------
(***************************************************************************)
(* The wire: the buffer, the socket, what the client has not sent yet.     *)
(* Units only move along it, are taken from its front and put on its end.  *)
(***************************************************************************)
LEMMA FromFacts ==
    ASSUME NEW S, NEW s \in Seq(S), NEW n \in 0..Len(s)
    PROVE  /\ From(s, n) \in Seq(S)
           /\ Len(From(s, n)) = Len(s) - n
           /\ \A i \in 1..(Len(s) - n) : From(s, n)[i] = s[i + n]
  <1>1. Len(s) \in Nat /\ n \in Int /\ n + 1 \in Int /\ Len(s) \in Int
    OBVIOUS
  <1>2. \A i \in (n + 1)..Len(s) : s[i] \in S
    OBVIOUS
  <1>3. /\ SubSeq(s, n + 1, Len(s)) \in Seq(S)
        /\ Len(SubSeq(s, n + 1, Len(s)))
              = IF n + 1 <= Len(s) THEN Len(s) - (n + 1) + 1 ELSE 0
        /\ \A i \in 1..(Len(s) - (n + 1) + 1) :
              SubSeq(s, n + 1, Len(s))[i] = s[(n + 1) + i - 1]
    BY <1>1, <1>2, SubSeqProperties
  <1> QED
    BY <1>1, <1>3 DEF From

(* Taking units from the buffer takes them from the wire. *)
LEMMA FromOfConcat ==
    ASSUME NEW S, NEW s \in Seq(S), NEW t \in Seq(S), NEW n \in 0..Len(s)
    PROVE  From(s, n) \o t = From(s \o t, n)
  <1>1. /\ s \o t \in Seq(S) /\ Len(s \o t) = Len(s) + Len(t)
        /\ \A i \in 1..(Len(s) + Len(t)) :
              (s \o t)[i] = IF i <= Len(s) THEN s[i] ELSE t[i - Len(s)]
    BY ConcatProperties
  <1>2. n \in 0..Len(s \o t)
    BY <1>1
  <1>3. /\ From(s, n) \in Seq(S)
        /\ Len(From(s, n)) = Len(s) - n
        /\ \A i \in 1..(Len(s) - n) : From(s, n)[i] = s[i + n]
    BY FromFacts
  <1>4. /\ From(s \o t, n) \in Seq(S)
        /\ Len(From(s \o t, n)) = Len(s \o t) - n
        /\ \A i \in 1..(Len(s \o t) - n) : From(s \o t, n)[i] = (s \o t)[i + n]
    BY <1>1, <1>2, FromFacts
  <1>5. /\ From(s, n) \o t \in Seq(S)
        /\ Len(From(s, n) \o t) = Len(From(s, n)) + Len(t)
        /\ \A i \in 1..(Len(From(s, n)) + Len(t)) :
              (From(s, n) \o t)[i]
                 = IF i <= Len(From(s, n)) THEN From(s, n)[i] ELSE t[i - Len(From(s, n))]
    BY <1>3, ConcatProperties
  <1>6. Len(From(s, n) \o t) = Len(From(s \o t, n))
    BY <1>1, <1>3, <1>4, <1>5
  <1>7. ASSUME NEW i \in 1..Len(From(s, n) \o t)
        PROVE  (From(s, n) \o t)[i] = From(s \o t, n)[i]
    <2>1. i \in 1..(Len(s) + Len(t) - n)
      BY <1>1, <1>4, <1>6
    <2>2. i + n \in 1..(Len(s) + Len(t))
      BY <2>1
    <2>3. From(s \o t, n)[i] = (s \o t)[i + n]
      BY <1>1, <1>4, <2>1
    <2>4. CASE i <= Len(s) - n
      <3>1. (From(s, n) \o t)[i] = s[i + n]
        BY <1>3, <1>5, <2>1, <2>4
      <3>2. (s \o t)[i + n] = s[i + n]
        BY <1>1, <2>1, <2>2, <2>4
      <3> QED
        BY <2>3, <3>1, <3>2
    <2>5. CASE ~(i <= Len(s) - n)
      <3>1. (From(s, n) \o t)[i] = t[i - (Len(s) - n)]
        BY <1>3, <1>5, <2>1, <2>5
      <3>2. (s \o t)[i + n] = t[(i + n) - Len(s)]
        BY <1>1, <2>1, <2>2, <2>5
      <3>3. i - (Len(s) - n) = (i + n) - Len(s)
        BY <2>1
      <3> QED
        BY <2>3, <3>1, <3>2, <3>3
    <2> QED
      BY <2>4, <2>5
  <1>8. From(s, n) \o t \in Seq(S) /\ From(s \o t, n) \in Seq(S)
    BY <1>4, <1>5
  <1> QED
    BY <1>6, <1>7, <1>8, SeqEqual

(* Moving a unit from one part of the wire to the one before it. *)
LEMMA MoveHead ==
    ASSUME NEW S, NEW q \in Seq(S), NEW t \in Seq(S), t # <<>>
    PROVE  /\ Append(q, Head(t)) \in Seq(S) /\ Tail(t) \in Seq(S)
           /\ Append(q, Head(t)) \o Tail(t) = q \o t
  <1>1. Head(t) \in S /\ Tail(t) \in Seq(S) /\ t = <<Head(t)>> \o Tail(t)
    OBVIOUS
  <1>2. PICK h \in S, r \in Seq(S) : h = Head(t) /\ r = Tail(t)
    BY <1>1
  <1>3. Append(q, h) = q \o <<h>> /\ <<h>> \in Seq(S) /\ Append(q, h) \in Seq(S)
    BY AppendIsConcat
  <1>4. (q \o <<h>>) \o r = q \o (<<h>> \o r)
    BY <1>3, ConcatAssociative
  <1> QED
    BY <1>1, <1>2, <1>3, <1>4

LEMMA ProtocolFrom ==
    ASSUME NEW p, NEW w \in Seq(Unit), NEW n \in 0..Len(w), OneProtocol(w), Agrees(p, w)
    PROVE  OneProtocol(From(w, n)) /\ Agrees(p, From(w, n))
  <1>1. PICK v : v = From(w, n)
    OBVIOUS
  <1>2. Len(v) = Len(w) - n /\ \A i \in 1..(Len(w) - n) : v[i] = w[i + n]
    BY <1>1, FromFacts
  <1>3. \A i \in 1..Len(v) : i + n \in 1..Len(w) /\ v[i] = w[i + n]
    BY <1>2
  <1>4. OneProtocol(v)
    BY <1>3 DEF OneProtocol
  <1>5. Agrees(p, v)
    BY <1>3 DEF Agrees
  <1> QED
    BY <1>1, <1>4, <1>5

LEMMA ProtocolConcat ==
    ASSUME NEW p, NEW w \in Seq(Unit), NEW u \in Seq(Unit)
    PROVE  /\ OneProtocol(w \o u) /\ Agrees(p, w \o u) => OneProtocol(w) /\ Agrees(p, w)
           /\ \A b \in BOOLEAN :
                 /\ \A i \in 1..Len(w) : Binary(w[i][1]) = b
                 /\ \A i \in 1..Len(u) : Binary(u[i][1]) = b
                 /\ p # "negotiating" => (p = "binary") = b
                 => OneProtocol(w \o u) /\ Agrees(p, w \o u)
  <1>1. PICK v : v = w \o u
    OBVIOUS
  <1>2. /\ Len(v) = Len(w) + Len(u) /\ Len(w) \in Nat /\ Len(u) \in Nat
        /\ \A i \in 1..(Len(w) + Len(u)) : v[i] = IF i <= Len(w) THEN w[i] ELSE u[i - Len(w)]
    BY <1>1, ConcatProperties
  <1>3. \A i \in 1..Len(w) : i \in 1..Len(v) /\ v[i] = w[i]
    BY <1>2
  <1>4. OneProtocol(v) /\ Agrees(p, v) => OneProtocol(w) /\ Agrees(p, w)
    BY <1>3 DEF OneProtocol, Agrees
  <1>5. ASSUME NEW b \in BOOLEAN,
               \A i \in 1..Len(w) : Binary(w[i][1]) = b,
               \A i \in 1..Len(u) : Binary(u[i][1]) = b,
               p # "negotiating" => (p = "binary") = b
        PROVE  OneProtocol(v) /\ Agrees(p, v)
    <2>1. ASSUME NEW i \in 1..Len(v)
          PROVE  Binary(v[i][1]) = b
      <3>1. CASE i <= Len(w)
        <4>1. i \in 1..Len(w) /\ v[i] = w[i]
          BY <1>2, <3>1
        <4> QED
          BY <1>5, <4>1
      <3>2. CASE ~(i <= Len(w))
        <4>1. i - Len(w) \in 1..Len(u) /\ v[i] = u[i - Len(w)]
          BY <1>2, <3>2
        <4> QED
          BY <1>5, <4>1
      <3> QED
        BY <3>1, <3>2
    <2> QED
      BY <1>5, <2>1, Zenon DEF OneProtocol, Agrees
  <1> QED
    BY <1>1, <1>4, <1>5

LEMMA WireType ==
    ASSUME TypeInv
    PROVE  /\ c \in ConnStruct /\ c.rbuf \in Seq(Unit) /\ inq \in Seq(Unit) /\ togo \in Seq(Unit)
           /\ c.rbuf \o inq \in Seq(Unit) /\ inq \o togo \in Seq(Unit)
           /\ Wire \in Seq(Unit) /\ Wire = c.rbuf \o (inq \o togo)
  <1>1. c \in ConnStruct /\ inq \in Seq(Unit) /\ togo \in Seq(Unit)
    BY Zenon DEF TypeInv, TypeOK
  <1>2. c.rbuf \in Seq(Unit)
    BY <1>1 DEF ConnStruct, Unit
  <1>3. c.rbuf \o inq \in Seq(Unit) /\ inq \o togo \in Seq(Unit)
    BY <1>1, <1>2, ConcatProperties
  <1>4. (c.rbuf \o inq) \o togo \in Seq(Unit)
    BY <1>1, <1>3, ConcatProperties
  <1>5. (c.rbuf \o inq) \o togo = c.rbuf \o (inq \o togo)
    <2>1. PICK b \in Seq(Unit), q \in Seq(Unit), t \in Seq(Unit) : b = c.rbuf /\ q = inq /\ t = togo
      BY <1>1, <1>2
    <2>2. (b \o q) \o t = b \o (q \o t)
      BY ConcatAssociative
    <2> QED
      BY <2>1, <2>2
  <1> QED
    BY <1>1, <1>2, <1>3, <1>4, <1>5 DEF Wire

(* Nothing on the wire, nothing to disagree about. *)
LEMMA EmptyWire ==
    /\ <<>> \in Seq(Unit)
    /\ <<>> \o <<>> \o <<>> = <<>>
    /\ OneProtocol(<<>>)
    /\ \A p : Agrees(p, <<>>)
  <1>1. <<>> \in Seq(Unit) /\ Len(<<>>) = 0
    OBVIOUS
  <1>2. <<>> \o <<>> \o <<>> = <<>>
    BY <1>1, ConcatEmptySeq
  <1>3. \A i \in 1..Len(<<>>) : FALSE
    BY <1>1
  <1> QED
    BY <1>1, <1>2, <1>3, Zenon DEF OneProtocol, Agrees

(* A structure that was set again. *)
LEMMA ConnNewType ==
    ASSUME NEW n \in Nat
    PROVE  /\ ConnNew(n) \in ConnStruct
           /\ ConnNew(n).state = "new_cmd" /\ ConnNew(n).protocol = "negotiating"
           /\ ConnNew(n).rbuf = <<>> /\ ConnNew(n).item = FALSE /\ ConnNew(n).ileft = 0
           /\ ConnNew(n).go = "new_cmd"
  <1>1. <<>> \in Seq(Requests \X (Nat \ {0}))
    OBVIOUS
  <1> QED
    BY <1>1 DEF ConnNew, ConnStruct, States

LEMMA ConnClosedType ==
    ASSUME NEW n \in Nat, NEW e, e = [ConnNew(n) EXCEPT !.state = "closed"]
    PROVE  /\ e \in ConnStruct
           /\ e.state = "closed" /\ e.protocol = "negotiating"
           /\ e.rbuf = <<>> /\ e.item = FALSE /\ e.ileft = 0
           /\ e.go = "new_cmd"
  <1>1. PICK g : g = ConnNew(n)
    OBVIOUS
  <1>2. /\ g \in ConnStruct
        /\ g.protocol = "negotiating" /\ g.rbuf = <<>> /\ g.item = FALSE /\ g.ileft = 0
        /\ g.go = "new_cmd"
    BY <1>1, ConnNewType
  <1>3. e = [g EXCEPT !.state = "closed"]
    BY <1>1
  <1> QED
    BY <1>2, <1>3 DEF ConnStruct, States

LEMMA InitSafe == Init => SafeInv
  <1> SUFFICES ASSUME Init
               PROVE  SafeInv
    OBVIOUS
  <1>1. c = [ConnNew(0) EXCEPT !.state = "closed"]
    BY DEF Init
  <1>2. /\ c \in ConnStruct
        /\ c.state = "closed" /\ c.protocol = "negotiating"
        /\ c.rbuf = <<>> /\ c.item = FALSE /\ c.ileft = 0
        /\ c.go = "new_cmd"
    BY <1>1, ConnClosedType
  <1>3. /\ inq = <<>> /\ togo = <<>> /\ held = 0 /\ snd = 0 /\ nreqs = 0 /\ cur = NoRequest
        /\ open = FALSE /\ eof = FALSE /\ running = FALSE
        /\ longkey = FALSE /\ unswallowed = FALSE /\ lost = FALSE
    BY DEF Init
  <1>4. TypeInv
    <2>1. snd \in 0..SndBuf /\ nreqs \in 0..ReqsPerEvent /\ held \in Int
      BY <1>3, ConnAssumption
    <2>2. TypeOK
      BY <1>2, <1>3, <2>1 DEF TypeOK
    <2>3. inq \in Seq(Unit) /\ togo \in Seq(Unit)
      BY <1>3, EmptyWire
    <2> QED
      BY <1>3, <2>1, <2>2, <2>3, Zenon DEF TypeInv
  <1>5. IdleInv
    BY <1>2, <1>3 DEF IdleInv
  <1>6. ProtocolInv
    <2>1. Wire = <<>>
      BY <1>2, <1>3, EmptyWire DEF Wire
    <2> QED
      BY <2>1, EmptyWire, Zenon DEF ProtocolInv
  <1>7. ServingInv
    BY <1>2 DEF ServingInv
  <1>8. HangUpInv
    BY <1>2 DEF HangUpInv
  <1>9. RefInv
    BY <1>2, <1>3 DEF RefInv, ItemRef
  <1> QED
    BY <1>4, <1>5, <1>6, <1>7, <1>8, <1>9 DEF SafeInv

-----------------------------------------------------------------------------
(***************************************************************************)
(* The steps of clients and the events keep the invariant.                 *)
(***************************************************************************)
LEMMA ConnectSafe ==
    ASSUME SafeInv, Connect
    PROVE  SafeInv'
  <1>1. /\ TypeInv /\ IdleInv
        /\ ~open /\ open' = TRUE /\ c' = ConnNew(c.sbytes) /\ held' = 0 /\ longkey' = FALSE
        /\ running' = running /\ nreqs' = nreqs /\ inq' = inq /\ snd' = snd /\ eof' = eof
        /\ togo' = togo /\ cur' = cur /\ unswallowed' = unswallowed /\ lost' = lost
    BY DEF SafeInv, Connect
  <1>2. c \in ConnStruct /\ inq = <<>> /\ togo = <<>> /\ ~eof
    BY <1>1, Zenon DEF TypeInv, TypeOK, IdleInv
  <1>3. c.sbytes \in Nat
    BY <1>2 DEF ConnStruct
  <1>4. /\ c' \in ConnStruct
        /\ c'.state = "new_cmd" /\ c'.protocol = "negotiating" /\ c'.rbuf = <<>>
        /\ c'.item = FALSE /\ c'.ileft = 0 /\ c'.go = "new_cmd"
    BY <1>1, <1>3, ConnNewType
  <1>5. TypeInv'
    <2>1. c'.state # "closed" /\ held' \in Int
      BY <1>1, <1>4
    <2>2. longkey' \in BOOLEAN /\ open' \in BOOLEAN
      BY <1>1, Zenon
    <2> QED
      BY <1>1, <1>4, <2>1, <2>2, Zenon DEF TypeInv, TypeOK
  <1>6. IdleInv'
    BY <1>1 DEF IdleInv
  <1>7. ProtocolInv'
    <2>1. Wire' = <<>>
      BY <1>1, <1>2, <1>4, EmptyWire DEF Wire
    <2> QED
      BY <2>1, EmptyWire, Zenon DEF ProtocolInv
  <1>8. ServingInv'
    BY <1>4 DEF ServingInv
  <1>9. HangUpInv'
    BY <1>4 DEF HangUpInv
  <1>10. RefInv'
    BY <1>1, <1>4 DEF RefInv, ItemRef
  <1> QED
    BY <1>5, <1>6, <1>7, <1>8, <1>9, <1>10 DEF SafeInv

(* A step that leaves the structure and its ledgers alone, and the wire as it is or agreed on. *)
LEMMA OutsideSafe ==
    ASSUME SafeInv,
           c' = c, cur' = cur, held' = held, longkey' = longkey,
           unswallowed' = unswallowed, lost' = lost, open' = open, open,
           running' \in BOOLEAN, eof' \in BOOLEAN, inq' \in Seq(Unit), togo' \in Seq(Unit),
           snd' \in 0..SndBuf, nreqs' \in 0..ReqsPerEvent,
           OneProtocol(Wire'), Agrees(c.protocol, Wire')
    PROVE  SafeInv'
  <1>1. TypeInv'
    BY Zenon DEF SafeInv, TypeInv, TypeOK
  <1>2. IdleInv'
    BY DEF IdleInv
  <1>3. ProtocolInv'
    BY Zenon DEF ProtocolInv
  <1>4. ServingInv'
    BY Zenon DEF SafeInv, ServingInv
  <1>5. HangUpInv'
    BY Zenon DEF SafeInv, HangUpInv
  <1>6. RefInv'
    BY Zenon DEF SafeInv, RefInv
  <1> QED
    BY <1>1, <1>2, <1>3, <1>4, <1>5, <1>6 DEF SafeInv

LEMMA UnitsFacts ==
    ASSUME NEW r \in Requests
    PROVE  /\ Length(r) \in Nat /\ Length(r) >= HeadUnits /\ Length(r) = HeadUnits + Rest(r)
           /\ Rest(r) \in Nat
           /\ Units(r) \in Seq(Unit) /\ Len(Units(r)) = Length(r) /\ Units(r) # <<>>
           /\ \A i \in 1..Length(r) : Units(r)[i] = <<r, i>>
           /\ Head(Units(r)) = Units(r)[1]
  <1>1. r.value \in Nat
    BY ConnAssumption
  <1>2. Length(r) \in Nat /\ Length(r) >= HeadUnits /\ Length(r) = HeadUnits + Rest(r)
        /\ Rest(r) \in Nat /\ Length(r) >= 2
    BY <1>1 DEF Length, HeadUnits, Rest
  <1>3. PICK k \in Nat : k = Length(r) /\ k >= 2
    BY <1>2
  <1>4. \A i \in 1..k : <<r, i>> \in Unit
    BY DEF Unit
  <1>5. PICK u : u = [i \in 1..k |-> <<r, i>>]
    OBVIOUS
  <1>6. u \in Seq(Unit) /\ Len(u) = k /\ u # <<>> /\ (\A i \in 1..k : u[i] = <<r, i>>) /\ Head(u) = u[1]
    BY <1>3, <1>4, <1>5, SMTT(40)
  <1>7. Units(r) = u
    BY <1>3, <1>5 DEF Units
  <1> QED
    BY <1>2, <1>3, <1>6, <1>7

(* The client puts a whole request behind what is on the wire. *)
LEMMA SendWire ==
    ASSUME SafeInv, NEW r \in Requests, ClientSend(r)
    PROVE  /\ Wire' = Wire \o Units(r)
           /\ inq' \in Seq(Unit) /\ togo' \in Seq(Unit)
           /\ Wire = c.rbuf \o inq
  <1>1. /\ c.rbuf \in Seq(Unit) /\ inq \in Seq(Unit) /\ Wire = c.rbuf \o (inq \o togo)
    BY WireType, Zenon DEF SafeInv
  <1>2. /\ togo = <<>> /\ inq' = Append(inq, Units(r)[1]) /\ togo' = Tail(Units(r)) /\ c' = c
    BY DEF ClientSend
  <1>3. PICK b \in Seq(Unit), q \in Seq(Unit), u \in Seq(Unit) :
            b = c.rbuf /\ q = inq /\ u = Units(r) /\ u # <<>> /\ Head(u) = Units(r)[1]
    BY <1>1, UnitsFacts
  <1>4. Append(q, Head(u)) \in Seq(Unit) /\ Tail(u) \in Seq(Unit) /\ Append(q, Head(u)) \o Tail(u) = q \o u
    BY <1>3, MoveHead
  <1>5. PICK q1 \in Seq(Unit), u1 \in Seq(Unit) : q1 = Append(q, Head(u)) /\ u1 = Tail(u)
    BY <1>4
  <1>6. (b \o q1) \o u1 = b \o (q1 \o u1) /\ (b \o q) \o u = b \o (q \o u)
    <2>1. (b \o q1) \o u1 = b \o (q1 \o u1)
      BY ConcatAssociative, SMTT(40)
    <2>2. (b \o q) \o u = b \o (q \o u)
      BY ConcatAssociative
    <2> QED
      BY <2>1, <2>2
  <1>7. inq' = q1 /\ togo' = u1 /\ c'.rbuf = b
    BY <1>2, <1>3, <1>5
  <1>8. Wire' = (b \o q1) \o u1
    BY <1>7 DEF Wire
  <1>9. Wire = b \o q
    <2>1. q \o <<>> = q
      BY ConcatEmptySeq
    <2> QED
      BY <1>1, <1>2, <1>3, <2>1
  <1>10. Wire' = (b \o q) \o u
    BY <1>4, <1>5, <1>6, <1>8
  <1> QED
    BY <1>3, <1>7, <1>9, <1>10

LEMMA ClientSendSafe ==
    ASSUME SafeInv, NEW r \in Requests, ClientSend(r)
    PROVE  SafeInv'
  <1>1. /\ c.rbuf \in Seq(Unit) /\ inq \in Seq(Unit) /\ Wire \in Seq(Unit)
    BY WireType, Zenon DEF SafeInv
  <1>2. Wire' = Wire \o Units(r) /\ inq' \in Seq(Unit) /\ togo' \in Seq(Unit) /\ Wire = c.rbuf \o inq
    BY SendWire
  <1>3. PICK b \in Seq(Unit), q \in Seq(Unit) : b = c.rbuf /\ q = inq
    BY <1>1
  <1>4. \A i \in 1..Len(q \o b) : Binary((q \o b)[i][1]) = Binary(r)
    BY <1>3 DEF ClientSend, MaySend
  <1>5. \A i \in 1..Len(b \o q) : Binary((b \o q)[i][1]) = Binary(r)
    <2>1. /\ Len(b) \in Nat /\ Len(q) \in Nat
          /\ Len(b \o q) = Len(b) + Len(q) /\ Len(q \o b) = Len(q) + Len(b)
          /\ \A i \in 1..(Len(b) + Len(q)) : (b \o q)[i] = IF i <= Len(b) THEN b[i] ELSE q[i - Len(b)]
          /\ \A i \in 1..(Len(q) + Len(b)) : (q \o b)[i] = IF i <= Len(q) THEN q[i] ELSE b[i - Len(q)]
      BY ConcatProperties
    <2> TAKE i \in 1..Len(b \o q)
    <2>2. CASE i <= Len(b)
      <3>1. i + Len(q) \in 1..Len(q \o b) /\ (q \o b)[i + Len(q)] = b[i] /\ (b \o q)[i] = b[i]
        BY <2>1, <2>2
      <3> QED
        BY <1>4, <3>1
    <2>3. CASE ~(i <= Len(b))
      <3>1. i - Len(b) \in 1..Len(q \o b) /\ (q \o b)[i - Len(b)] = q[i - Len(b)]
            /\ (b \o q)[i] = q[i - Len(b)]
        BY <2>1, <2>3
      <3> QED
        BY <1>4, <3>1
    <2> QED
      BY <2>2, <2>3
  <1>6. \A i \in 1..Len(Wire) : Binary(Wire[i][1]) = Binary(r)
    BY <1>2, <1>3, <1>5
  <1>7. \A i \in 1..Len(Units(r)) : Binary(Units(r)[i][1]) = Binary(r)
    BY UnitsFacts
  <1>8. c.protocol # "negotiating" => (c.protocol = "binary") = Binary(r)
    BY DEF ClientSend, MaySend
  <1>9. Units(r) \in Seq(Unit) /\ Binary(r) \in BOOLEAN
    BY UnitsFacts DEF Binary
  <1>10. OneProtocol(Wire \o Units(r)) /\ Agrees(c.protocol, Wire \o Units(r))
    BY <1>1, <1>6, <1>7, <1>8, <1>9, ProtocolConcat, Zenon
  <1>11. OneProtocol(Wire') /\ Agrees(c.protocol, Wire')
    BY <1>2, <1>10
  <1>12. /\ c' = c /\ cur' = cur /\ held' = held /\ longkey' = longkey
         /\ unswallowed' = unswallowed /\ lost' = lost /\ open' = open /\ open
         /\ running' = running /\ eof' = eof /\ snd' = snd /\ nreqs' = nreqs
    BY DEF ClientSend, histvars
  <1>13. /\ running' \in BOOLEAN /\ eof' \in BOOLEAN
         /\ snd' \in 0..SndBuf /\ nreqs' \in 0..ReqsPerEvent
    BY <1>12, Zenon DEF SafeInv, TypeInv, TypeOK
  <1> QED
    BY <1>2, <1>11, <1>12, <1>13, OutsideSafe

LEMMA ClientSendMoreSafe ==
    ASSUME SafeInv, ClientSendMore
    PROVE  /\ SafeInv'
           /\ Wire' = Wire
  <1>1. /\ c.rbuf \in Seq(Unit) /\ inq \in Seq(Unit) /\ togo \in Seq(Unit)
        /\ Wire \in Seq(Unit) /\ Wire = c.rbuf \o (inq \o togo)
    BY WireType, Zenon DEF SafeInv
  <1>2. /\ c' = c /\ cur' = cur /\ held' = held /\ longkey' = longkey
        /\ unswallowed' = unswallowed /\ lost' = lost /\ open' = open
        /\ running' = running /\ eof' = eof /\ snd' = snd /\ nreqs' = nreqs
        /\ togo # <<>> /\ inq' = Append(inq, Head(togo)) /\ togo' = Tail(togo)
    BY DEF ClientSendMore, histvars
  <1>3. PICK b \in Seq(Unit), q \in Seq(Unit), t \in Seq(Unit) :
            b = c.rbuf /\ q = inq /\ t = togo /\ t # <<>>
    BY <1>1, <1>2
  <1>4. /\ Append(q, Head(t)) \in Seq(Unit) /\ Tail(t) \in Seq(Unit)
        /\ Append(q, Head(t)) \o Tail(t) = q \o t
    BY <1>3, MoveHead
  <1>5. PICK q1 \in Seq(Unit), t1 \in Seq(Unit) : q1 = Append(q, Head(t)) /\ t1 = Tail(t)
    BY <1>4
  <1>6. (b \o q1) \o t1 = b \o (q1 \o t1)
    BY ConcatAssociative, SMTT(40)
  <1>7. inq' = q1 /\ togo' = t1 /\ c'.rbuf = b
    BY <1>2, <1>3, <1>5
  <1>8. Wire' = Wire
    <2>1. Wire' = (b \o q1) \o t1
      BY <1>7 DEF Wire
    <2>2. Wire = b \o (q \o t)
      BY <1>1, <1>3
    <2> QED
      BY <1>4, <1>5, <1>6, <2>1, <2>2
  <1>9. OneProtocol(Wire') /\ Agrees(c.protocol, Wire')
    BY <1>8, Zenon DEF SafeInv, ProtocolInv
  <1>10. open
    BY <1>2, Zenon DEF SafeInv, IdleInv
  <1>11. /\ running' \in BOOLEAN /\ eof' \in BOOLEAN
         /\ snd' \in 0..SndBuf /\ nreqs' \in 0..ReqsPerEvent
    BY <1>2, Zenon DEF SafeInv, TypeInv, TypeOK
  <1>12. inq' \in Seq(Unit) /\ togo' \in Seq(Unit)
    BY <1>7
  <1>13. SafeInv'
    BY <1>2, <1>9, <1>10, <1>11, <1>12, OutsideSafe
  <1> QED
    BY <1>8, <1>13

LEMMA ClientLeaveSafe ==
    ASSUME SafeInv, ClientLeave
    PROVE  /\ SafeInv'
           /\ Wire = Wire' \o togo /\ Wire' \in Seq(Unit)
  <1>1. /\ c.rbuf \in Seq(Unit) /\ inq \in Seq(Unit) /\ togo \in Seq(Unit)
        /\ c.rbuf \o inq \in Seq(Unit)
    BY WireType, Zenon DEF SafeInv
  <1>2. /\ c' = c /\ cur' = cur /\ held' = held /\ longkey' = longkey
        /\ unswallowed' = unswallowed /\ lost' = lost /\ open' = open /\ open
        /\ running' = running /\ eof' = TRUE /\ snd' = snd /\ nreqs' = nreqs
        /\ inq' = inq /\ togo' = <<>>
    BY DEF ClientLeave, histvars
  <1>3. PICK w \in Seq(Unit) : w = c.rbuf \o inq
    BY <1>1
  <1>4. Wire' = w
    <2>1. w \o <<>> = w
      BY ConcatEmptySeq
    <2> QED
      BY <1>2, <1>3, <2>1 DEF Wire
  <1>5. Wire = w \o togo
    BY <1>3 DEF Wire
  <1>6. OneProtocol(w \o togo) /\ Agrees(c.protocol, w \o togo)
    BY <1>5, Zenon DEF SafeInv, ProtocolInv
  <1>7. OneProtocol(w) /\ Agrees(c.protocol, w)
    BY <1>1, <1>6, ProtocolConcat
  <1>8. OneProtocol(Wire') /\ Agrees(c.protocol, Wire')
    BY <1>4, <1>7
  <1>9. /\ running' \in BOOLEAN /\ eof' \in BOOLEAN
        /\ snd' \in 0..SndBuf /\ nreqs' \in 0..ReqsPerEvent
    BY <1>2, Zenon DEF SafeInv, TypeInv, TypeOK
  <1>10. inq' \in Seq(Unit) /\ togo' \in Seq(Unit)
    BY <1>1, <1>2, EmptyWire
  <1>11. SafeInv'
    BY <1>2, <1>8, <1>9, <1>10, OutsideSafe
  <1> QED
    BY <1>4, <1>5, <1>11

(* Events and the client's reading leave the wire as it is. *)
LEMMA EventSafe ==
    ASSUME SafeInv, Event \/ ClientRead
    PROVE  SafeInv' /\ Wire' = Wire
  <1>1. /\ c' = c /\ cur' = cur /\ held' = held /\ longkey' = longkey
        /\ unswallowed' = unswallowed /\ lost' = lost /\ open' = open /\ open
        /\ eof' = eof /\ inq' = inq /\ togo' = togo
    BY DEF Event, ClientRead, netvars, histvars
  <1>2. Wire' = Wire
    BY <1>1 DEF Wire
  <1>3. snd \in 0..SndBuf /\ nreqs \in 0..ReqsPerEvent
    BY Zenon DEF SafeInv, TypeInv, TypeOK
  <1>4. snd' \in 0..SndBuf /\ nreqs' \in 0..ReqsPerEvent
    BY <1>3, ConnAssumption DEF Event, ClientRead
  <1>5. running' \in BOOLEAN /\ eof' \in BOOLEAN
    <2>1. running \in BOOLEAN /\ eof \in BOOLEAN
      BY Zenon DEF SafeInv, TypeInv
    <2>2. running' = TRUE \/ running' = running
      BY Zenon DEF Event, ClientRead
    <2> QED
      BY <1>1, <2>1, <2>2, Zenon
  <1>6. inq' \in Seq(Unit) /\ togo' \in Seq(Unit)
    BY <1>1, Zenon DEF SafeInv, TypeInv
  <1>7. OneProtocol(Wire') /\ Agrees(c.protocol, Wire')
    BY <1>2, Zenon DEF SafeInv, ProtocolInv
  <1>8. SafeInv'
    BY <1>1, <1>4, <1>5, <1>6, <1>7, OutsideSafe
  <1> QED
    BY <1>2, <1>8

-----------------------------------------------------------------------------
(***************************************************************************)
(* The steps of drive_machine() keep the invariant.                        *)
(***************************************************************************)
(* What every step but the last leaves to show. *)
LEMMA MachineSafe ==
    ASSUME SafeInv, c.state # "closed",
           c' \in ConnStruct, c'.state # "closed", open' = open, eof' = eof, togo' = togo,
           inq' \in Seq(Unit), running' \in BOOLEAN, snd' \in 0..SndBuf,
           nreqs' \in 0..ReqsPerEvent, cur' \in Requests \cup {NoRequest}, held' \in Int,
           longkey' \in BOOLEAN, unswallowed' \in BOOLEAN, lost' \in BOOLEAN,
           OneProtocol(Wire'), Agrees(c'.protocol, Wire'),
           ServingInv', HangUpInv', RefInv'
    PROVE  SafeInv'
  <1>1. open /\ open \in BOOLEAN /\ eof \in BOOLEAN /\ togo \in Seq(Unit)
    BY Zenon DEF SafeInv, TypeInv, TypeOK
  <1>2. TypeInv'
    BY <1>1, Zenon DEF TypeInv, TypeOK
  <1>3. IdleInv'
    BY <1>1 DEF IdleInv
  <1>4. ProtocolInv'
    BY Zenon DEF ProtocolInv
  <1> QED
    BY <1>2, <1>3, <1>4 DEF SafeInv

\* The variables that most steps leave alone have their types.
LEMMA TypesNow ==
    ASSUME SafeInv
    PROVE  /\ c \in ConnStruct /\ inq \in Seq(Unit) /\ togo \in Seq(Unit)
           /\ snd \in 0..SndBuf /\ nreqs \in 0..ReqsPerEvent
           /\ cur \in Requests \cup {NoRequest} /\ held \in Int
           /\ running \in BOOLEAN /\ longkey \in BOOLEAN /\ unswallowed \in BOOLEAN
           /\ lost \in BOOLEAN
           /\ OneProtocol(Wire) /\ Agrees(c.protocol, Wire)
           /\ ServingInv /\ HangUpInv /\ RefInv
  BY Zenon DEF SafeInv, TypeInv, TypeOK, ProtocolInv

LEMMA NewCmdEffect ==
    ASSUME SafeInv, NewCmd
    PROVE  /\ c' \in ConnStruct /\ c'.protocol = c.protocol /\ c'.rbuf = c.rbuf
           /\ c'.go = c.go /\ c'.ileft = c.ileft /\ c'.sbytes = c.sbytes
           /\ c'.state \in {"new_cmd", "parse_cmd", "waiting"}
           /\ c'.state = "parse_cmd" => c.rbuf # <<>>
           /\ \/ c'.item = FALSE /\ held' = held - ItemRef(c)
              \/ c'.item = c.item /\ held' = held /\ c'.state = "new_cmd"
           /\ nreqs' \in 0..ReqsPerEvent /\ running' \in BOOLEAN
  <1>1. c \in ConnStruct /\ nreqs \in 0..ReqsPerEvent /\ running \in BOOLEAN /\ ReqsPerEvent \in Nat
    BY TypesNow, ConnAssumption
  <1>2. CASE nreqs > 0
    <2>1. c' = ResetCmdHandler(c) /\ held' = held - ItemRef(c) /\ nreqs' = nreqs - 1 /\ running' = running
      BY <1>2 DEF NewCmd, Go
    <2>2. PICK st \in {"parse_cmd", "waiting"} :
              st = (IF c.rbuf # <<>> THEN "parse_cmd" ELSE "waiting")
      OBVIOUS
    <2>3. PICK d : d = [c EXCEPT !.cmd = NoRequest, !.substate = "none"]
      OBVIOUS
    <2>4. d \in ConnStruct
      BY <1>1, <2>3 DEF ConnStruct
    <2>5. /\ d.protocol = c.protocol /\ d.rbuf = c.rbuf /\ d.go = c.go /\ d.ileft = c.ileft
          /\ d.sbytes = c.sbytes
      BY <1>1, <2>3 DEF ConnStruct
    <2>6. c' = [d EXCEPT !.item = FALSE, !.state = st]
      BY <2>1, <2>2, <2>3 DEF ResetCmdHandler
    <2>7. c' \in ConnStruct
      BY <2>2, <2>4, <2>6 DEF ConnStruct, States
    <2>8. /\ c'.protocol = d.protocol /\ c'.rbuf = d.rbuf /\ c'.go = d.go /\ c'.ileft = d.ileft
          /\ c'.sbytes = d.sbytes /\ c'.item = FALSE /\ c'.state = st
      BY <2>4, <2>6 DEF ConnStruct
    <2>9. nreqs' \in 0..ReqsPerEvent
      BY <1>1, <1>2, <2>1
    <2>10. running' \in BOOLEAN
      BY <1>1, <2>1, Zenon
    <2>11. st = "parse_cmd" => c.rbuf # <<>>
      BY <2>2
    <2>12. c'.state \in {"new_cmd", "parse_cmd", "waiting"}
      BY <2>2, <2>8
    <2> QED
      BY <2>1, <2>5, <2>7, <2>8, <2>9, <2>10, <2>11, <2>12, Zenon
  <1>3. CASE ~(nreqs > 0)
    <2>1. /\ c' = (IF c.rbuf # <<>> THEN [c EXCEPT !.ev = "WRITE"] ELSE c)
          /\ held' = held /\ nreqs' = nreqs /\ running' = FALSE /\ c.state = "new_cmd"
      BY <1>3 DEF NewCmd, Stop
    <2>2. /\ c' \in ConnStruct /\ c'.protocol = c.protocol /\ c'.rbuf = c.rbuf
          /\ c'.go = c.go /\ c'.ileft = c.ileft /\ c'.sbytes = c.sbytes
          /\ c'.state = "new_cmd" /\ c'.item = c.item
      BY <1>1, <2>1 DEF ConnStruct
    <2>3. running' \in BOOLEAN
      BY <2>1, Zenon
    <2>4. c'.state \in {"new_cmd", "parse_cmd", "waiting"} /\ c'.state # "parse_cmd"
      BY <2>2
    <2> QED
      BY <1>1, <2>1, <2>2, <2>3, <2>4, Zenon
  <1> QED
    BY <1>2, <1>3

LEMMA NewCmdSafe ==
    ASSUME SafeInv, NewCmd
    PROVE  SafeInv' /\ Wire' = Wire
  <1>1. /\ c \in ConnStruct /\ inq \in Seq(Unit) /\ snd \in 0..SndBuf /\ held \in Int
        /\ longkey \in BOOLEAN /\ unswallowed \in BOOLEAN /\ lost \in BOOLEAN
        /\ OneProtocol(Wire) /\ Agrees(c.protocol, Wire) /\ HangUpInv /\ RefInv
    BY TypesNow
  <1>2. /\ c' \in ConnStruct /\ c'.protocol = c.protocol /\ c'.rbuf = c.rbuf
        /\ c'.go = c.go /\ c'.ileft = c.ileft
        /\ c'.state \in {"new_cmd", "parse_cmd", "waiting"}
        /\ c'.state = "parse_cmd" => c.rbuf # <<>>
        /\ \/ c'.item = FALSE /\ held' = held - ItemRef(c)
           \/ c'.item = c.item /\ held' = held /\ c'.state = "new_cmd"
        /\ nreqs' \in 0..ReqsPerEvent /\ running' \in BOOLEAN
    BY NewCmdEffect
  <1>3. /\ c.state = "new_cmd" /\ cur' = NoRequest /\ open' = open /\ eof' = eof /\ togo' = togo
        /\ inq' = inq /\ snd' = snd /\ longkey' = longkey /\ unswallowed' = unswallowed
        /\ lost' = lost
    BY DEF NewCmd, netvars
  <1>4. Wire' = Wire
    BY <1>2, <1>3 DEF Wire
  <1>5. OneProtocol(Wire') /\ Agrees(c'.protocol, Wire')
    BY <1>1, <1>2, <1>4
  <1>6. ServingInv'
    BY <1>2 DEF ServingInv
  <1>7. HangUpInv'
    BY <1>1, <1>2, <1>3 DEF HangUpInv
  <1>8. c.ileft = 0 /\ (longkey \/ held = ItemRef(c))
    BY <1>1, <1>3 DEF RefInv, ConnStruct, ItemRef
  <1>9. RefInv'
    <2>1. c'.ileft = 0
      BY <1>2, <1>8
    <2>2. longkey' \/ held' = ItemRef(c')
      BY <1>1, <1>2, <1>3, <1>8 DEF ItemRef
    <2>3. c'.item => c'.state \notin {"waiting", "read", "parse_cmd", "closed"}
      BY <1>2
    <2>4. ItemRef(c') \in Nat
      BY DEF ItemRef
    <2> QED
      BY <2>1, <2>2, <2>3, <2>4 DEF RefInv
  <1>10. held' \in Int
    BY <1>1, <1>2 DEF ItemRef
  <1>11. /\ longkey' \in BOOLEAN /\ unswallowed' \in BOOLEAN /\ lost' \in BOOLEAN
         /\ inq' \in Seq(Unit) /\ snd' \in 0..SndBuf /\ cur' \in Requests \cup {NoRequest}
    BY <1>1, <1>3, Zenon
  <1>12. c.state # "closed" /\ c'.state # "closed"
    BY <1>2, <1>3
  <1>13. SafeInv'
    BY <1>2, <1>3, <1>5, <1>6, <1>7, <1>9, <1>10, <1>11, <1>12, MachineSafe, Zenon
  <1> QED
    BY <1>4, <1>13

LEMMA WaitingSafe ==
    ASSUME SafeInv, Waiting
    PROVE  SafeInv' /\ Wire' = Wire
  <1>1. /\ c \in ConnStruct /\ inq \in Seq(Unit) /\ snd \in 0..SndBuf /\ held \in Int
        /\ nreqs \in 0..ReqsPerEvent /\ cur \in Requests \cup {NoRequest}
        /\ longkey \in BOOLEAN /\ unswallowed \in BOOLEAN /\ lost \in BOOLEAN
        /\ OneProtocol(Wire) /\ Agrees(c.protocol, Wire) /\ HangUpInv /\ RefInv
    BY TypesNow
  <1>2. /\ c.state = "waiting" /\ cur' = cur /\ open' = open /\ eof' = eof /\ togo' = togo
        /\ inq' = inq /\ snd' = snd /\ longkey' = longkey /\ unswallowed' = unswallowed
        /\ lost' = lost /\ held' = held /\ nreqs' = nreqs /\ running' = FALSE
        /\ c' = [c EXCEPT !.ev = "READ", !.state = "read"]
    BY DEF Waiting, Stop, netvars, histvars
  <1>3. c' \in ConnStruct
    BY <1>1, <1>2 DEF ConnStruct, States
  <1>4. /\ c'.protocol = c.protocol /\ c'.rbuf = c.rbuf /\ c'.go = c.go /\ c'.ileft = c.ileft
        /\ c'.item = c.item /\ c'.state = "read"
    BY <1>1, <1>2 DEF ConnStruct
  <1>5. Wire' = Wire
    BY <1>2, <1>4 DEF Wire
  <1>6. OneProtocol(Wire') /\ Agrees(c'.protocol, Wire')
    BY <1>1, <1>4, <1>5
  <1>7. ServingInv'
    BY <1>4 DEF ServingInv
  <1>8. HangUpInv'
    BY <1>1, <1>2, <1>4 DEF HangUpInv
  <1>9. RefInv'
    BY <1>1, <1>2, <1>4 DEF RefInv, ItemRef
  <1>10. running' \in BOOLEAN
    BY <1>2, Zenon
  <1>11. c.state # "closed" /\ c'.state # "closed"
    BY <1>2, <1>4
  <1>12. /\ inq' \in Seq(Unit) /\ snd' \in 0..SndBuf /\ held' \in Int
         /\ nreqs' \in 0..ReqsPerEvent /\ cur' \in Requests \cup {NoRequest}
         /\ longkey' \in BOOLEAN /\ unswallowed' \in BOOLEAN /\ lost' \in BOOLEAN
    BY <1>1, <1>2, Zenon
  <1>13. SafeInv'
    BY <1>2, <1>3, <1>6, <1>7, <1>8, <1>9, <1>10, <1>11, <1>12, MachineSafe, Zenon
  <1> QED
    BY <1>5, <1>13

LEMMA ReadEffect ==
    ASSUME SafeInv, Read
    PROVE  /\ c' \in ConnStruct /\ c'.protocol = c.protocol /\ c'.go = c.go /\ c'.ileft = c.ileft
           /\ c'.item = c.item /\ inq' \in Seq(Unit) /\ Wire' = Wire
           /\ \/ c'.state = "parse_cmd" /\ c'.rbuf # <<>>
              \/ eof /\ c'.state = "closing"
  <1>1. /\ c \in ConnStruct /\ c.rbuf \in Seq(Unit) /\ inq \in Seq(Unit) /\ c.rbuf \o inq \in Seq(Unit)
    BY WireType, Zenon DEF SafeInv
  <1>2. togo' = togo
    BY DEF Read
  <1>3. CASE inq # <<>> /\ c' = [c EXCEPT !.rbuf = c.rbuf \o inq, !.state = "parse_cmd"] /\ inq' = <<>>
    <2>1. PICK w : w = c.rbuf \o inq
      OBVIOUS
    <2>2. w \in Seq(Unit) /\ w \in Seq(Requests \X (Nat \ {0}))
      BY <1>1, <2>1 DEF Unit
    <2>3. w # <<>>
      <3>1. PICK b \in Seq(Unit), q \in Seq(Unit) : b = c.rbuf /\ q = inq /\ q # <<>>
        BY <1>1, <1>3
      <3>2. b \o q # <<>>
        BY <3>1, ConcatEqualIffEmpty
      <3> QED
        BY <2>1, <3>1, <3>2
    <2>4. c' = [c EXCEPT !.rbuf = w, !.state = "parse_cmd"]
      BY <1>3, <2>1
    <2>5. c' \in ConnStruct
      BY <1>1, <2>2, <2>4 DEF ConnStruct, States
    <2>6. /\ c'.protocol = c.protocol /\ c'.go = c.go /\ c'.ileft = c.ileft /\ c'.item = c.item
          /\ c'.rbuf = w /\ c'.state = "parse_cmd"
      BY <1>1, <2>4 DEF ConnStruct
    <2>7. w \o <<>> = w
      BY <2>2, ConcatEmptySeq
    <2>8. Wire' = Wire
      BY <1>2, <1>3, <2>1, <2>6, <2>7 DEF Wire
    <2>9. inq' \in Seq(Unit)
      BY <1>3, EmptyWire
    <2> QED
      BY <2>3, <2>5, <2>6, <2>8, <2>9
  <1>4. CASE eof /\ c' = [c EXCEPT !.state = "closing"] /\ inq' = inq
    <2>1. c' \in ConnStruct
      BY <1>1, <1>4 DEF ConnStruct, States
    <2>2. /\ c'.protocol = c.protocol /\ c'.go = c.go /\ c'.ileft = c.ileft /\ c'.item = c.item
          /\ c'.rbuf = c.rbuf /\ c'.state = "closing"
      BY <1>1, <1>4 DEF ConnStruct
    <2>3. Wire' = Wire
      BY <1>2, <1>4, <2>2 DEF Wire
    <2> QED
      BY <1>1, <1>4, <2>1, <2>2, <2>3
  <1> QED
    BY <1>3, <1>4 DEF Read, Go

LEMMA ReadSafe ==
    ASSUME SafeInv, Read
    PROVE  SafeInv'
  <1>1. /\ c \in ConnStruct /\ snd \in 0..SndBuf /\ held \in Int /\ running \in BOOLEAN
        /\ nreqs \in 0..ReqsPerEvent /\ cur \in Requests \cup {NoRequest}
        /\ longkey \in BOOLEAN /\ unswallowed \in BOOLEAN /\ lost \in BOOLEAN
        /\ OneProtocol(Wire) /\ Agrees(c.protocol, Wire) /\ HangUpInv /\ RefInv
    BY TypesNow
  <1>2. /\ c.state = "read" /\ cur' = cur /\ open' = open /\ eof' = eof /\ togo' = togo
        /\ snd' = snd /\ longkey' = longkey /\ unswallowed' = unswallowed
        /\ lost' = lost /\ held' = held /\ nreqs' = nreqs /\ running' = running
    BY DEF Read, Go, histvars
  <1>3. /\ c' \in ConnStruct /\ c'.protocol = c.protocol /\ c'.go = c.go /\ c'.ileft = c.ileft
        /\ c'.item = c.item /\ inq' \in Seq(Unit) /\ Wire' = Wire
        /\ \/ c'.state = "parse_cmd" /\ c'.rbuf # <<>>
           \/ eof /\ c'.state = "closing"
    BY ReadEffect
  <1>4. OneProtocol(Wire') /\ Agrees(c'.protocol, Wire')
    BY <1>1, <1>3
  <1>5. ServingInv'
    BY <1>3 DEF ServingInv
  <1>6. HangUpInv'
    BY <1>1, <1>2, <1>3 DEF HangUpInv
  <1>7. RefInv'
    <2>1. c.ileft = 0 /\ ~c.item
      BY <1>1, <1>2 DEF RefInv, ConnStruct
    <2> QED
      BY <1>1, <1>2, <1>3, <2>1 DEF RefInv, ItemRef
  <1>8. c.state # "closed" /\ c'.state # "closed"
    BY <1>2, <1>3
  <1>9. /\ snd' \in 0..SndBuf /\ held' \in Int /\ running' \in BOOLEAN
        /\ nreqs' \in 0..ReqsPerEvent /\ cur' \in Requests \cup {NoRequest}
        /\ longkey' \in BOOLEAN /\ unswallowed' \in BOOLEAN /\ lost' \in BOOLEAN
    BY <1>1, <1>2, Zenon
  <1> QED
    BY <1>2, <1>3, <1>4, <1>5, <1>6, <1>7, <1>8, <1>9, MachineSafe, Zenon

LEMMA ClosingSafe ==
    ASSUME SafeInv, Closing
    PROVE  SafeInv' /\ Wire' = <<>> /\ open' = FALSE /\ eof' = FALSE
  <1>1. /\ c \in ConnStruct /\ held \in Int
        /\ nreqs \in 0..ReqsPerEvent
        /\ longkey \in BOOLEAN /\ lost \in BOOLEAN /\ RefInv
    BY TypesNow
  <1>2. /\ cur' = NoRequest /\ open' = FALSE /\ eof' = FALSE /\ togo' = <<>> /\ inq' = <<>>
        /\ snd' = 0 /\ longkey' = longkey /\ unswallowed' = FALSE
        /\ lost' = lost /\ held' = held - ItemRef(c) - c.ileft /\ nreqs' = nreqs /\ running' = FALSE
    BY DEF Closing, Stop
  <1>3. PICK n \in {0, c.sbytes} : c' = [ConnNew(n) EXCEPT !.state = "closed"]
    BY DEF Closing, Stop
  <1>4. n \in Nat /\ c.ileft \in Nat /\ ItemRef(c) \in Nat
    BY <1>1 DEF ConnStruct, ItemRef
  <1>5. /\ c' \in ConnStruct
        /\ c'.state = "closed" /\ c'.protocol = "negotiating"
        /\ c'.rbuf = <<>> /\ c'.item = FALSE /\ c'.ileft = 0
        /\ c'.go = "new_cmd"
    BY <1>3, <1>4, ConnClosedType
  <1>6. Wire' = <<>>
    BY <1>2, <1>5, EmptyWire DEF Wire
  <1>7. TypeInv'
    <2>1. snd' \in 0..SndBuf /\ held' \in Int
      BY <1>1, <1>2, <1>4, ConnAssumption
    <2>2. inq' \in Seq(Unit) /\ togo' \in Seq(Unit)
      BY <1>2, EmptyWire
    <2> QED
      BY <1>1, <1>2, <1>5, <2>1, <2>2, Zenon DEF TypeInv, TypeOK
  <1>8. IdleInv'
    BY <1>2, <1>5 DEF IdleInv
  <1>9. ProtocolInv'
    BY <1>6, EmptyWire, Zenon DEF ProtocolInv
  <1>10. ServingInv'
    BY <1>5 DEF ServingInv
  <1>11. HangUpInv'
    BY <1>5 DEF HangUpInv
  <1>12. RefInv'
    <2>1. longkey' \/ held' = 0
      BY <1>1, <1>2, <1>4 DEF RefInv
    <2> QED
      BY <1>5, <2>1 DEF RefInv, ItemRef
  <1> QED
    BY <1>2, <1>6, <1>7, <1>8, <1>9, <1>10, <1>11, <1>12 DEF SafeInv

LEMMA WrittenEffect ==
    ASSUME NEW d \in ConnStruct, NEW e, e = Written(d)
    PROVE  /\ e \in ConnStruct /\ e.protocol = d.protocol /\ e.rbuf = d.rbuf /\ e.go = d.go
           /\ e.item = d.item /\ e.sbytes = d.sbytes
           /\ d.state = "mwrite" => e.ileft = 0
           /\ d.state # "mwrite" => e.ileft = d.ileft
           /\ e.state = IF d.state = "mwrite" /\ d.protocol # "binary" THEN "new_cmd" ELSE d.go
  <1>1. CASE d.state = "mwrite"
    <2>1. PICK st \in {"new_cmd", "swallow", "closing"} :
              st = (IF d.protocol = "binary" THEN d.go ELSE "new_cmd")
      BY DEF ConnStruct
    <2>2. e = [d EXCEPT !.ileft = 0, !.state = st]
      BY <1>1, <2>1 DEF Written
    <2>3. e \in ConnStruct
      <3>0. PICK z \in 0..2 : z = 0
        OBVIOUS
      <3>1. PICK h : h = [d EXCEPT !.ileft = z]
        OBVIOUS
      <3>2. h \in ConnStruct
        BY <3>1 DEF ConnStruct
      <3>3. e = [h EXCEPT !.state = st]
        BY <2>2, <3>0, <3>1
      <3> QED
        BY <3>2, <3>3, ZenonT(60) DEF ConnStruct, States
    <2>4. /\ e.protocol = d.protocol /\ e.rbuf = d.rbuf /\ e.go = d.go
          /\ e.item = d.item /\ e.sbytes = d.sbytes /\ e.ileft = 0 /\ e.state = st
      BY <2>2 DEF ConnStruct
    <2> QED
      BY <1>1, <2>1, <2>3, <2>4
  <1>2. CASE d.state # "mwrite"
    <2>1. PICK st \in {"new_cmd", "swallow", "closing"} : st = d.go
      BY DEF ConnStruct
    <2>2. e = [d EXCEPT !.state = st]
      BY <1>2, <2>1 DEF Written
    <2>3. e \in ConnStruct
      BY <2>1, <2>2 DEF ConnStruct, States
    <2>4. /\ e.protocol = d.protocol /\ e.rbuf = d.rbuf /\ e.go = d.go
          /\ e.item = d.item /\ e.sbytes = d.sbytes /\ e.ileft = d.ileft /\ e.state = st
      BY <2>2 DEF ConnStruct
    <2> QED
      BY <1>2, <2>1, <2>3, <2>4
  <1> QED
    BY <1>1, <1>2

LEMMA TransmitEffect ==
    ASSUME SafeInv, Transmit
    PROVE  /\ c' \in ConnStruct /\ c'.protocol = c.protocol /\ c'.rbuf = c.rbuf /\ c'.go = c.go
           /\ c'.item = c.item /\ c'.sbytes = c.sbytes
           /\ \/ /\ c.state = "mwrite" => c'.ileft = 0
                 /\ c.state # "mwrite" => c'.ileft = c.ileft
                 /\ c'.state = IF c.state = "mwrite" /\ c.protocol # "binary" THEN "new_cmd" ELSE c.go
                 /\ held' = held - (c.ileft - c'.ileft) /\ cur' = NoRequest
              \/ c'.state = c.state /\ c'.ileft = c.ileft /\ held' = held /\ cur' = cur
              \/ eof /\ c'.state = "closing" /\ c'.ileft = c.ileft /\ held' = held /\ cur' = cur
           /\ snd' \in 0..SndBuf /\ running' \in BOOLEAN
  <1>1. /\ c \in ConnStruct /\ snd \in 0..SndBuf /\ running \in BOOLEAN /\ SndBuf \in Nat
    BY TypesNow, ConnAssumption
  <1>2. c.out \in Nat
    BY <1>1 DEF ConnStruct
  <1>3. PICK n \in 0..c.out : n = Least(c.out, SndBuf - snd) /\ n <= SndBuf - snd
    BY <1>1, <1>2 DEF Least
  <1>4. CASE /\ c' = Written(c) /\ running' = running /\ held' = held - (c.ileft - Written(c).ileft)
             /\ cur' = NoRequest /\ snd' = snd
    <2>1. /\ c' \in ConnStruct /\ c'.protocol = c.protocol /\ c'.rbuf = c.rbuf /\ c'.go = c.go
          /\ c'.item = c.item /\ c'.sbytes = c.sbytes
          /\ c.state = "mwrite" => c'.ileft = 0
          /\ c.state # "mwrite" => c'.ileft = c.ileft
          /\ c'.state = IF c.state = "mwrite" /\ c.protocol # "binary" THEN "new_cmd" ELSE c.go
      BY <1>1, <1>4, WrittenEffect
    <2>2. held' = held - (c.ileft - c'.ileft)
      BY <1>4
    <2>3. running' \in BOOLEAN
      BY <1>1, <1>4, Zenon
    <2> QED
      BY <1>1, <1>4, <2>1, <2>2, <2>3, Zenon
  <1>5. CASE /\ c' = [c EXCEPT !.out = c.out - n] /\ running' = running
             /\ snd' = snd + n /\ held' = held /\ cur' = cur
    <2>1. PICK k \in Nat : k = c.out - n
      BY <1>2
    <2>2. c' = [c EXCEPT !.out = k]
      BY <1>5, <2>1
    <2>3. c' \in ConnStruct
      BY <1>1, <2>2 DEF ConnStruct
    <2>4. /\ c'.protocol = c.protocol /\ c'.rbuf = c.rbuf /\ c'.go = c.go
          /\ c'.item = c.item /\ c'.sbytes = c.sbytes /\ c'.state = c.state /\ c'.ileft = c.ileft
      BY <1>1, <2>2 DEF ConnStruct
    <2>5. snd' \in 0..SndBuf
      BY <1>1, <1>3, <1>5
    <2>6. running' \in BOOLEAN
      BY <1>1, <1>5, Zenon
    <2> QED
      BY <1>5, <2>3, <2>4, <2>5, <2>6, Zenon
  <1>6. CASE /\ c' = [c EXCEPT !.ev = "WRITE"] /\ running' = FALSE
             /\ snd' = snd /\ held' = held /\ cur' = cur
    <2>1. c' \in ConnStruct
      BY <1>1, <1>6 DEF ConnStruct
    <2>2. /\ c'.protocol = c.protocol /\ c'.rbuf = c.rbuf /\ c'.go = c.go
          /\ c'.item = c.item /\ c'.sbytes = c.sbytes /\ c'.state = c.state /\ c'.ileft = c.ileft
      BY <1>1, <1>6 DEF ConnStruct
    <2>3. running' \in BOOLEAN
      BY <1>6, Zenon
    <2> QED
      BY <1>1, <1>6, <2>1, <2>2, <2>3, Zenon
  <1>7. CASE /\ eof /\ c' = [c EXCEPT !.state = "closing"] /\ running' = running
             /\ snd' = snd /\ held' = held /\ cur' = cur
    <2>1. c' \in ConnStruct
      BY <1>1, <1>7 DEF ConnStruct, States
    <2>2. /\ c'.protocol = c.protocol /\ c'.rbuf = c.rbuf /\ c'.go = c.go
          /\ c'.item = c.item /\ c'.sbytes = c.sbytes /\ c'.state = "closing" /\ c'.ileft = c.ileft
      BY <1>1, <1>7 DEF ConnStruct
    <2>3. running' \in BOOLEAN
      BY <1>1, <1>7, Zenon
    <2> QED
      BY <1>1, <1>7, <2>1, <2>2, <2>3, Zenon
  <1> QED
    BY <1>3, <1>4, <1>5, <1>6, <1>7 DEF Transmit, Go, Stop

LEMMA TransmitSafe ==
    ASSUME SafeInv, Transmit
    PROVE  SafeInv' /\ Wire' = Wire
  <1>1. /\ c \in ConnStruct /\ inq \in Seq(Unit) /\ held \in Int
        /\ nreqs \in 0..ReqsPerEvent /\ cur \in Requests \cup {NoRequest}
        /\ longkey \in BOOLEAN /\ unswallowed \in BOOLEAN /\ lost \in BOOLEAN
        /\ OneProtocol(Wire) /\ Agrees(c.protocol, Wire) /\ HangUpInv /\ RefInv
    BY TypesNow
  <1>2. /\ c.state \in {"write", "mwrite"} /\ open' = open /\ eof' = eof /\ togo' = togo
        /\ inq' = inq /\ longkey' = longkey /\ unswallowed' = unswallowed
        /\ lost' = lost /\ nreqs' = nreqs
    BY DEF Transmit, netvars
  <1>3. /\ c' \in ConnStruct /\ c'.protocol = c.protocol /\ c'.rbuf = c.rbuf /\ c'.go = c.go
        /\ c'.item = c.item
        /\ \/ /\ c.state = "mwrite" => c'.ileft = 0
              /\ c.state # "mwrite" => c'.ileft = c.ileft
              /\ c'.state = IF c.state = "mwrite" /\ c.protocol # "binary" THEN "new_cmd" ELSE c.go
              /\ held' = held - (c.ileft - c'.ileft) /\ cur' = NoRequest
           \/ c'.state = c.state /\ c'.ileft = c.ileft /\ held' = held /\ cur' = cur
           \/ eof /\ c'.state = "closing" /\ c'.ileft = c.ileft /\ held' = held /\ cur' = cur
        /\ snd' \in 0..SndBuf /\ running' \in BOOLEAN
    BY TransmitEffect
  <1>4. Wire' = Wire
    BY <1>2, <1>3 DEF Wire
  <1>5. OneProtocol(Wire') /\ Agrees(c'.protocol, Wire')
    BY <1>1, <1>3, <1>4
  <1>6. c.go \in {"new_cmd", "swallow", "closing"} /\ c.ileft \in Nat
    BY <1>1 DEF ConnStruct
  <1>7. c'.state \in {"new_cmd", "swallow", "closing", "write", "mwrite"}
    BY <1>2, <1>3, <1>6
  <1>8. ServingInv'
    BY <1>7 DEF ServingInv
  <1>9. HangUpInv'
    BY <1>1, <1>2, <1>3 DEF HangUpInv
  <1>10. RefInv'
    <2>1. c.state = "write" => c.ileft = 0
      BY <1>1, <1>6 DEF RefInv
    <2>2. c'.ileft \in Nat /\ ItemRef(c) \in Nat
      BY <1>3 DEF ConnStruct, ItemRef
    <2>3. ItemRef(c') = ItemRef(c)
      BY <1>3 DEF ItemRef
    <2>4. longkey \/ held = ItemRef(c) + c.ileft
      BY <1>1 DEF RefInv
    <2>5. longkey' \/ held' = ItemRef(c') + c'.ileft
      BY <1>1, <1>2, <1>3, <1>6, <2>1, <2>2, <2>3, <2>4
    <2>6. c'.ileft > 0 => c'.state \in {"mwrite", "closing"}
      BY <1>2, <1>3, <2>1
    <2> QED
      BY <1>7, <2>5, <2>6 DEF RefInv
  <1>11. held' \in Int
    <2>1. c'.ileft \in Nat
      BY <1>3 DEF ConnStruct
    <2> QED
      BY <1>1, <1>3, <1>6, <2>1
  <1>12. c.state # "closed" /\ c'.state # "closed"
    BY <1>2, <1>7
  <1>13. /\ inq' \in Seq(Unit) /\ nreqs' \in 0..ReqsPerEvent
         /\ longkey' \in BOOLEAN /\ unswallowed' \in BOOLEAN /\ lost' \in BOOLEAN
    BY <1>1, <1>2, Zenon
  <1>14. cur' \in Requests \cup {NoRequest}
    BY <1>1, <1>3
  <1>15. SafeInv'
    BY <1>2, <1>3, <1>5, <1>8, <1>9, <1>10, <1>11, <1>12, <1>13, <1>14, MachineSafe, Zenon
  <1> QED
    BY <1>4, <1>15

(* Units are taken from the front of the wire, whichever part they are in. *)
LEMMA FromZero ==
    ASSUME NEW S, NEW s \in Seq(S)
    PROVE  From(s, 0) = s
  <1>1. SubSeq(s, 1, Len(s)) = s
    BY SubSeqFull
  <1> QED
    BY <1>1 DEF From

LEMMA FromPast ==
    ASSUME NEW S, NEW s \in Seq(S), NEW t \in Seq(S), NEW m \in 0..Len(t)
    PROVE  From(s \o t, Len(s) + m) = From(t, m)
  <1>1. /\ Len(s) \in Nat /\ Len(t) \in Nat
        /\ s \o t \in Seq(S) /\ Len(s \o t) = Len(s) + Len(t)
        /\ \A i \in 1..(Len(s) + Len(t)) :
              (s \o t)[i] = IF i <= Len(s) THEN s[i] ELSE t[i - Len(s)]
    BY ConcatProperties
  <1>0. PICK w \in Seq(S) : w = s \o t
    BY <1>1
  <1>2. PICK k \in 0..Len(w) : w = s \o t /\ k = Len(s) + m
    BY <1>0, <1>1
  <1>3. /\ From(t, m) \in Seq(S) /\ Len(From(t, m)) = Len(t) - m
        /\ \A i \in 1..(Len(t) - m) : From(t, m)[i] = t[i + m]
    BY FromFacts
  <1>4. /\ From(w, k) \in Seq(S) /\ Len(From(w, k)) = Len(w) - k
        /\ \A i \in 1..(Len(w) - k) : From(w, k)[i] = w[i + k]
    BY FromFacts
  <1>5. Len(w) - k = Len(t) - m
    BY <1>1, <1>2
  <1>6. ASSUME NEW i \in 1..(Len(t) - m)
        PROVE  From(w, k)[i] = From(t, m)[i]
    <2>1. From(w, k)[i] = w[i + k] /\ From(t, m)[i] = t[i + m]
      BY <1>3, <1>4, <1>5
    <2>2. i + k \in 1..(Len(s) + Len(t)) /\ ~(i + k <= Len(s)) /\ (i + k) - Len(s) = i + m
      BY <1>1, <1>2
    <2>3. w[i + k] = t[(i + k) - Len(s)]
      BY <1>1, <1>2, <2>2
    <2> QED
      BY <2>1, <2>2, <2>3
  <1>7. PICK a \in Seq(S), b \in Seq(S) : a = From(w, k) /\ b = From(t, m)
    BY <1>3, <1>4
  <1>8. Len(a) = Len(b) /\ \A i \in 1..Len(a) : a[i] = b[i]
    BY <1>3, <1>4, <1>5, <1>6, <1>7
  <1>9. a = b
    BY <1>8, SeqEqual
  <1> QED
    BY <1>2, <1>7, <1>9

LEMMA WireFromBuffer ==
    ASSUME NEW b \in Seq(Unit), NEW q \in Seq(Unit), NEW t \in Seq(Unit), NEW n \in 0..Len(b)
    PROVE  /\ From(b, n) \o q \o t = From(b \o q \o t, n)
           /\ n \in 0..Len(b \o q \o t)
  <1>1. PICK u \in Seq(Unit) : u = q \o t
    BY ConcatProperties
  <1>2. PICK a \in Seq(Unit) : a = From(b, n)
    BY FromFacts
  <1>3. \A x \in Seq(Unit) : (x \o q) \o t = x \o (q \o t)
    BY ConcatAssociative, SMTT(40)
  <1>4. (b \o q) \o t = b \o (q \o t) /\ (a \o q) \o t = a \o (q \o t)
    BY <1>3, Zenon
  <1>5. a \o u = From(b \o u, n)
    BY <1>2, FromOfConcat
  <1>6. Len(b \o u) = Len(b) + Len(u) /\ Len(b) \in Nat /\ Len(u) \in Nat
    BY ConcatProperties
  <1>7. n \in 0..Len(b \o u)
    BY <1>6
  <1> QED
    BY <1>1, <1>2, <1>3, <1>4, <1>5, <1>7

LEMMA WireFromSocket ==
    ASSUME NEW b \in Seq(Unit), NEW q \in Seq(Unit), NEW t \in Seq(Unit), NEW m \in 0..Len(q)
    PROVE  /\ From(b, Len(b)) \o From(q, m) \o t = From(b \o q \o t, Len(b) + m)
           /\ Len(b) + m \in 0..Len(b \o q \o t)
           /\ From(q, m) \in Seq(Unit)
  <1>1. PICK u \in Seq(Unit) : u = q \o t
    BY ConcatProperties
  <1>2. PICK a \in Seq(Unit) : a = From(q, m)
    BY FromFacts
  <1>3. a \o t = From(u, m)
    BY <1>1, <1>2, FromOfConcat
  <1>4. Len(u) = Len(q) + Len(t) /\ Len(q) \in Nat /\ Len(t) \in Nat /\ Len(b) \in Nat
    BY <1>1, ConcatProperties
  <1>5. m \in 0..Len(u)
    BY <1>4
  <1>6. From(b \o u, Len(b) + m) = From(u, m)
    BY <1>5, FromPast
  <1>7. (b \o q) \o t = b \o (q \o t)
    BY ConcatAssociative, SMTT(40)
  <1>8. From(b, Len(b)) = <<>>
    <2>1. Len(b) \in 0..Len(b)
      BY <1>4
    <2>2. PICK k \in 0..Len(b) : k = Len(b)
      BY <2>1
    <2>3. From(b, k) \in Seq(Unit) /\ Len(From(b, k)) = Len(b) - k
      BY FromFacts
    <2>4. PICK v \in Seq(Unit) : v = From(b, k)
      BY <2>3
    <2>5. v = <<>>
      <3>1. Len(v) = Len(b) - k /\ Len(b) - k = 0
        BY <1>4, <2>2, <2>3, <2>4
      <3> QED
        BY <3>1
    <2>6. From(b, k) = <<>>
      BY <2>4, <2>5
    <2> QED
      BY <2>2, <2>6
  <1>9. <<>> \o a = a
    BY ConcatEmptySeq
  <1>10. Len(b \o u) = Len(b) + Len(u)
    BY ConcatProperties
  <1>11. Len(b) + m \in 0..Len(b \o u)
    BY <1>4, <1>5, <1>10
  <1>12. From(b, Len(b)) \o a \o t = a \o t
    BY <1>8, <1>9
  <1> QED
    BY <1>1, <1>2, <1>3, <1>6, <1>7, <1>11, <1>12

LEMMA TakenFromBuffer ==
    ASSUME SafeInv, NEW n \in 0..Len(c.rbuf),
           c'.rbuf = From(c.rbuf, n), inq' = inq, togo' = togo
    PROVE  Wire' = From(Wire, n) /\ n \in 0..Len(Wire)
  <1>1. /\ c.rbuf \in Seq(Unit) /\ inq \in Seq(Unit) /\ togo \in Seq(Unit)
    BY WireType, Zenon DEF SafeInv
  <1>2. /\ From(c.rbuf, n) \o inq \o togo = From(c.rbuf \o inq \o togo, n)
        /\ n \in 0..Len(c.rbuf \o inq \o togo)
    BY <1>1, WireFromBuffer
  <1> QED
    BY <1>2 DEF Wire

LEMMA TakenFromSocket ==
    ASSUME SafeInv, NEW m \in 0..Len(inq),
           c'.rbuf = From(c.rbuf, Len(c.rbuf)), inq' = From(inq, m), togo' = togo
    PROVE  /\ Wire' = From(Wire, Len(c.rbuf) + m) /\ Len(c.rbuf) + m \in 0..Len(Wire)
           /\ inq' \in Seq(Unit)
  <1>1. /\ c.rbuf \in Seq(Unit) /\ inq \in Seq(Unit) /\ togo \in Seq(Unit)
    BY WireType, Zenon DEF SafeInv
  <1>2. /\ From(c.rbuf, Len(c.rbuf)) \o From(inq, m) \o togo
              = From(c.rbuf \o inq \o togo, Len(c.rbuf) + m)
        /\ Len(c.rbuf) + m \in 0..Len(c.rbuf \o inq \o togo)
        /\ From(inq, m) \in Seq(Unit)
    BY <1>1, WireFromSocket
  <1> QED
    BY <1>2 DEF Wire

(* Nothing is read: the end of the stream, or EAGAIN. *)
LEMMA NothingToReadEffect ==
    ASSUME NEW d \in ConnStruct, running \in BOOLEAN, NothingToRead(d)
    PROVE  /\ c' \in ConnStruct /\ c'.protocol = d.protocol /\ c'.rbuf = d.rbuf /\ c'.go = d.go
           /\ c'.item = d.item /\ c'.ileft = d.ileft /\ c'.cmd = d.cmd
           /\ c'.substate = d.substate /\ c'.rlbytes = d.rlbytes /\ c'.sbytes = d.sbytes
           /\ c'.state = d.state \/ (eof /\ c'.state = "closing")
           /\ running' \in BOOLEAN
  <1>1. CASE eof /\ c' = [d EXCEPT !.state = "closing"] /\ running' = running
    <2>1. c' \in ConnStruct
      BY <1>1 DEF ConnStruct, States
    <2>2. running' \in BOOLEAN
      BY <1>1, Zenon
    <2> QED
      BY <1>1, <2>1, <2>2 DEF ConnStruct
  <1>2. CASE ~eof /\ c' = [d EXCEPT !.ev = "READ"] /\ running' = FALSE
    <2>1. c' \in ConnStruct
      BY <1>2 DEF ConnStruct
    <2>2. running' \in BOOLEAN
      BY <1>2, Zenon
    <2> QED
      BY <1>2, <2>1, <2>2 DEF ConnStruct
  <1> QED
    BY <1>1, <1>2 DEF NothingToRead, Go, Stop

LEMMA LeastFacts ==
    ASSUME NEW a \in Nat, NEW b \in Nat
    PROVE  \E n \in 0..b : n = Least(a, b) /\ n <= a /\ (n = a \/ n = b)
  BY DEF Least

LEMMA SwallowEffect ==
    ASSUME SafeInv, Swallow
    PROVE  /\ c' \in ConnStruct /\ c'.protocol = c.protocol /\ c'.go = c.go
           /\ c'.item = c.item /\ c'.ileft = c.ileft
           /\ inq' \in Seq(Unit) /\ running' \in BOOLEAN /\ lost' \in BOOLEAN
           /\ \E n \in 0..Len(Wire) :
                 /\ Wire' = From(Wire, n)
                 /\ n <= c.sbytes
                 /\ \/ c.sbytes = 0 /\ c'.state = "new_cmd"
                    \/ c'.state = "swallow" /\ c'.sbytes = c.sbytes - n
                    \/ eof /\ c'.state = "closing"
  <1>1. /\ c \in ConnStruct /\ c.rbuf \in Seq(Unit) /\ inq \in Seq(Unit) /\ Wire \in Seq(Unit)
    BY WireType, Zenon DEF SafeInv
  <1>2. running \in BOOLEAN /\ lost \in BOOLEAN
    BY TypesNow
  <1>3. /\ togo' = togo /\ c.state = "swallow"
    BY DEF Swallow
  <1>4. c.sbytes \in Nat /\ Len(c.rbuf) \in Nat /\ Len(inq) \in Nat /\ 0 \in 0..Len(c.rbuf)
    BY <1>1 DEF ConnStruct
  <1>5. PICK n \in 0..Len(c.rbuf) : n = Least(c.sbytes, Len(c.rbuf)) /\ n <= c.sbytes
                                     /\ (n = c.sbytes \/ n = Len(c.rbuf))
    BY <1>4, LeastFacts, Zenon
  <1>6. PICK m \in 0..Len(inq) : m = Least(c.sbytes, Len(inq)) /\ m <= c.sbytes
    BY <1>4, LeastFacts, Zenon
  <1>7. From(c.rbuf, 0) = c.rbuf
    BY <1>1, FromZero
  <1>8. CASE /\ c.sbytes = 0 /\ c' = [c EXCEPT !.state = "new_cmd"] /\ running' = running
             /\ inq' = inq /\ lost' = lost
    <2>1. c' \in ConnStruct
      BY <1>1, <1>8 DEF ConnStruct, States
    <2>2. /\ c'.protocol = c.protocol /\ c'.rbuf = c.rbuf /\ c'.go = c.go
          /\ c'.item = c.item /\ c'.ileft = c.ileft /\ c'.state = "new_cmd"
      BY <1>1, <1>8 DEF ConnStruct
    <2>3. Wire' = From(Wire, 0) /\ 0 \in 0..Len(Wire)
      BY <1>3, <1>4, <1>7, <1>8, <2>2, TakenFromBuffer
    <2>4. inq' \in Seq(Unit) /\ running' \in BOOLEAN /\ lost' \in BOOLEAN
      BY <1>1, <1>2, <1>8, Zenon
    <2>5. 0 <= c.sbytes
      BY <1>4
    <2> QED
      BY <1>8, <2>1, <2>2, <2>3, <2>4, <2>5, Zenon
  <1>9. CASE /\ n > 0 /\ c' = [c EXCEPT !.sbytes = c.sbytes - n, !.rbuf = From(c.rbuf, n)]
             /\ running' = running /\ inq' = inq /\ lost' = EatsRequest(SubSeq(c.rbuf, 1, n))
    <2>0. c.sbytes - n \in Nat /\ From(c.rbuf, n) \in Seq(Unit)
      <3>1. From(c.rbuf, n) \in Seq(Unit)
        BY <1>1, FromFacts
      <3>2. c.sbytes - n \in Nat
        BY <1>4, <1>5
      <3> QED
        BY <3>1, <3>2
    <2>1. PICK k \in Nat, b \in Seq(Unit) : k = c.sbytes - n /\ b = From(c.rbuf, n)
      BY <2>0, Zenon
    <2>2. b \in Seq(Requests \X (Nat \ {0}))
      BY DEF Unit
    <2>3. c' = [c EXCEPT !.sbytes = k, !.rbuf = b]
      BY <1>9, <2>1
    <2>4. c' \in ConnStruct
      BY <1>1, <2>2, <2>3 DEF ConnStruct
    <2>5. /\ c'.protocol = c.protocol /\ c'.rbuf = b /\ c'.go = c.go
          /\ c'.item = c.item /\ c'.ileft = c.ileft /\ c'.state = "swallow" /\ c'.sbytes = k
      BY <1>1, <1>3, <2>3 DEF ConnStruct
    <2>6. Wire' = From(Wire, n) /\ n \in 0..Len(Wire)
      BY <1>3, <1>9, <2>1, <2>5, TakenFromBuffer
    <2>7. inq' \in Seq(Unit) /\ running' \in BOOLEAN /\ lost' \in BOOLEAN
      BY <1>1, <1>2, <1>9, Zenon DEF EatsRequest
    <2>8. c'.sbytes = c.sbytes - n
      BY <2>1, <2>5
    <2> QED
      BY <1>5, <2>4, <2>5, <2>6, <2>7, <2>8, Zenon
  <1>10. CASE /\ c.sbytes > 0 /\ n = 0 /\ c' = [c EXCEPT !.sbytes = c.sbytes - m]
              /\ running' = running /\ inq' = From(inq, m) /\ lost' = EatsRequest(SubSeq(inq, 1, m))
    <2>1. PICK k \in Nat : k = c.sbytes - m
      BY <1>4, <1>6
    <2>2. c' = [c EXCEPT !.sbytes = k]
      BY <1>10, <2>1
    <2>3. c' \in ConnStruct
      BY <1>1, <2>2 DEF ConnStruct
    <2>4. /\ c'.protocol = c.protocol /\ c'.rbuf = c.rbuf /\ c'.go = c.go
          /\ c'.item = c.item /\ c'.ileft = c.ileft /\ c'.state = "swallow" /\ c'.sbytes = k
      BY <1>1, <1>3, <2>2 DEF ConnStruct
    <2>5. Len(c.rbuf) = 0
      BY <1>4, <1>5, <1>10
    <2>6. c'.rbuf = From(c.rbuf, Len(c.rbuf))
      BY <1>7, <2>4, <2>5
    <2>7. /\ Wire' = From(Wire, Len(c.rbuf) + m) /\ Len(c.rbuf) + m \in 0..Len(Wire)
          /\ inq' \in Seq(Unit)
      BY <1>3, <1>10, <2>6, TakenFromSocket
    <2>8. Wire' = From(Wire, m) /\ m \in 0..Len(Wire)
      BY <2>5, <2>7
    <2>9. running' \in BOOLEAN /\ lost' \in BOOLEAN
      BY <1>2, <1>10, Zenon DEF EatsRequest
    <2>10. c'.sbytes = c.sbytes - m
      BY <2>1, <2>4
    <2> QED
      BY <1>6, <2>3, <2>4, <2>7, <2>8, <2>9, <2>10, Zenon
  <1>11. CASE NothingToRead(c) /\ inq' = inq /\ lost' = lost
    <2>1. /\ c' \in ConnStruct /\ c'.protocol = c.protocol /\ c'.rbuf = c.rbuf /\ c'.go = c.go
          /\ c'.item = c.item /\ c'.ileft = c.ileft /\ c'.sbytes = c.sbytes
          /\ c'.state = c.state \/ (eof /\ c'.state = "closing")
          /\ running' \in BOOLEAN
      BY <1>1, <1>2, <1>11, NothingToReadEffect
    <2>2. Wire' = From(Wire, 0) /\ 0 \in 0..Len(Wire)
      BY <1>3, <1>4, <1>7, <1>11, <2>1, TakenFromBuffer
    <2>3. inq' \in Seq(Unit) /\ lost' \in BOOLEAN
      BY <1>1, <1>2, <1>11, Zenon
    <2>4. c'.sbytes = c.sbytes - 0 /\ 0 <= c.sbytes
      BY <1>4, <2>1
    <2> QED
      BY <1>3, <2>1, <2>2, <2>3, <2>4, Zenon
  <1> QED
    BY <1>5, <1>6, <1>8, <1>9, <1>10, <1>11 DEF Swallow, Go

LEMMA SwallowSafe ==
    ASSUME SafeInv, Swallow
    PROVE  SafeInv'
  <1>1. /\ c \in ConnStruct /\ snd \in 0..SndBuf /\ held \in Int
        /\ nreqs \in 0..ReqsPerEvent /\ cur \in Requests \cup {NoRequest}
        /\ longkey \in BOOLEAN /\ unswallowed \in BOOLEAN
        /\ OneProtocol(Wire) /\ Agrees(c.protocol, Wire) /\ HangUpInv /\ RefInv
        /\ Wire \in Seq(Unit)
    BY TypesNow, WireType DEF SafeInv
  <1>2. /\ c.state = "swallow" /\ cur' = cur /\ open' = open /\ eof' = eof /\ togo' = togo
        /\ snd' = snd /\ longkey' = longkey /\ unswallowed' = unswallowed
        /\ held' = held /\ nreqs' = nreqs
    BY DEF Swallow
  <1>3. /\ c' \in ConnStruct /\ c'.protocol = c.protocol /\ c'.go = c.go
        /\ c'.item = c.item /\ c'.ileft = c.ileft
        /\ inq' \in Seq(Unit) /\ running' \in BOOLEAN /\ lost' \in BOOLEAN
    BY SwallowEffect
  <1>4. PICK n \in 0..Len(Wire) :
            /\ Wire' = From(Wire, n)
            /\ c'.state \in {"new_cmd", "swallow", "closing"}
    BY SwallowEffect
  <1>5. OneProtocol(Wire') /\ Agrees(c'.protocol, Wire')
    BY <1>1, <1>3, <1>4, ProtocolFrom
  <1>6. ServingInv'
    BY <1>4 DEF ServingInv
  <1>7. HangUpInv'
    BY <1>1, <1>2, <1>3 DEF HangUpInv
  <1>8. RefInv'
    <2>1. c.ileft = 0
      BY <1>1, <1>2 DEF RefInv, ConnStruct
    <2> QED
      BY <1>1, <1>2, <1>3, <1>4, <2>1 DEF RefInv, ItemRef
  <1>9. c.state # "closed" /\ c'.state # "closed"
    BY <1>2, <1>4
  <1>10. /\ snd' \in 0..SndBuf /\ held' \in Int
         /\ nreqs' \in 0..ReqsPerEvent /\ cur' \in Requests \cup {NoRequest}
         /\ longkey' \in BOOLEAN /\ unswallowed' \in BOOLEAN
    BY <1>1, <1>2, Zenon
  <1> QED
    BY <1>2, <1>3, <1>5, <1>6, <1>7, <1>8, <1>9, <1>10, MachineSafe, Zenon

\* What a step of conn_nread that only reads does.
ReadsOn ==
    /\ c' \in ConnStruct /\ c'.protocol = c.protocol /\ c'.go = c.go
    /\ c'.item = c.item /\ c'.ileft = c.ileft /\ c'.cmd = c.cmd /\ c'.substate = c.substate
    /\ inq' \in Seq(Unit) /\ running' \in BOOLEAN /\ held' = held /\ unswallowed' = unswallowed
    /\ \E n \in 0..Len(Wire) :
          /\ Wire' = From(Wire, n)
          /\ n <= c.rlbytes
          /\ \/ c'.state = "nread" /\ c'.rlbytes = c.rlbytes - n
             \/ eof /\ c'.state = "closing"

\* What the step of conn_nread that has everything does.
HasAll ==
    /\ c.rlbytes = 0
    /\ \E e \in CompleteNread(c) :
          /\ c' = e
          /\ held' = held + ItemRef(e) - ItemRef(c)
          /\ unswallowed' = (unswallowed \/ NotSwallowed(c, e))
    /\ inq' = inq /\ running' = running

LEMMA NreadEffect ==
    ASSUME SafeInv, Nread
    PROVE  HasAll \/ ReadsOn
  <1>1. /\ c \in ConnStruct /\ c.rbuf \in Seq(Unit) /\ inq \in Seq(Unit) /\ Wire \in Seq(Unit)
    BY WireType, Zenon DEF SafeInv
  <1>2. running \in BOOLEAN
    BY TypesNow
  <1>3. /\ togo' = togo /\ c.state = "nread"
    BY DEF Nread
  <1>4. c.rlbytes \in Nat /\ Len(c.rbuf) \in Nat /\ Len(inq) \in Nat
    BY <1>1 DEF ConnStruct
  <1>5. PICK n \in 0..Len(c.rbuf) : n = Least(c.rlbytes, Len(c.rbuf)) /\ n <= c.rlbytes
                                     /\ (n = c.rlbytes \/ n = Len(c.rbuf))
    BY <1>4, LeastFacts, Zenon
  <1>6. PICK k \in Nat : k = c.rlbytes - n
    BY <1>4, <1>5
  <1>7. PICK b \in Seq(Unit) : b = From(c.rbuf, n)
    BY <1>1, FromFacts
  <1>8. PICK d : d = [c EXCEPT !.rlbytes = k, !.rbuf = b]
    OBVIOUS
  <1>9. /\ d \in ConnStruct /\ d.protocol = c.protocol /\ d.go = c.go /\ d.item = c.item
        /\ d.ileft = c.ileft /\ d.cmd = c.cmd /\ d.substate = c.substate
        /\ d.state = "nread" /\ d.rlbytes = k /\ d.rbuf = b
    <2>1. b \in Seq(Requests \X (Nat \ {0}))
      BY DEF Unit
    <2>2. d \in ConnStruct
      BY <1>1, <1>8, <2>1 DEF ConnStruct
    <2> QED
      BY <1>1, <1>3, <1>8, <2>2 DEF ConnStruct
  <1>10. d = [c EXCEPT !.rlbytes = @ - n, !.rbuf = From(@, n)]
    BY <1>6, <1>7, <1>8
  <1>11. PICK m \in 0..Len(inq) : m = Least(d.rlbytes, Len(inq)) /\ m <= k
    <2>1. Least(k, Len(inq)) = Least(d.rlbytes, Len(inq))
      BY <1>9
    <2> QED
      BY <1>4, <2>1, LeastFacts, Zenon
  <1>12. CASE c' = d /\ running' = running /\ inq' = inq /\ held' = held /\ unswallowed' = unswallowed
    <2>1. Wire' = From(Wire, n) /\ n \in 0..Len(Wire)
      BY <1>3, <1>7, <1>9, <1>12, TakenFromBuffer
    <2>2. running' \in BOOLEAN /\ inq' \in Seq(Unit)
      BY <1>1, <1>2, <1>12, Zenon
    <2>3. c'.rlbytes = c.rlbytes - n /\ c'.state = "nread"
      BY <1>6, <1>9, <1>12
    <2>4. ReadsOn
      BY <1>5, <1>9, <1>12, <2>1, <2>2, <2>3, Zenon DEF ReadsOn
    <2> QED
      BY <2>4
  <1>13. CASE /\ d.rlbytes > 0 /\ c' = [d EXCEPT !.rlbytes = d.rlbytes - m] /\ running' = running
              /\ inq' = From(inq, m) /\ held' = held /\ unswallowed' = unswallowed
    <2>1. PICK j \in Nat : j = k - m
      BY <1>11
    <2>2. c' = [d EXCEPT !.rlbytes = j]
      BY <1>9, <1>13, <2>1
    <2>3. c' \in ConnStruct
      BY <1>9, <2>2 DEF ConnStruct
    <2>4. /\ c'.protocol = d.protocol /\ c'.go = d.go /\ c'.item = d.item
          /\ c'.ileft = d.ileft /\ c'.cmd = d.cmd /\ c'.substate = d.substate
          /\ c'.state = d.state /\ c'.rlbytes = j /\ c'.rbuf = d.rbuf
      BY <1>9, <2>2 DEF ConnStruct
    <2>5. n = Len(c.rbuf)
      BY <1>4, <1>5, <1>6, <1>9, <1>13
    <2>6. c'.rbuf = From(c.rbuf, Len(c.rbuf))
      BY <1>7, <1>9, <2>4, <2>5
    <2>7. /\ Wire' = From(Wire, Len(c.rbuf) + m) /\ Len(c.rbuf) + m \in 0..Len(Wire)
          /\ inq' \in Seq(Unit)
      BY <1>3, <1>13, <2>6, TakenFromSocket
    <2>8. PICK i \in 0..Len(Wire) : i = n + m /\ Wire' = From(Wire, i)
      BY <2>5, <2>7
    <2>9. i <= c.rlbytes /\ c'.rlbytes = c.rlbytes - i
      <3>1. PICK r \in Nat : r = c.rlbytes
        BY <1>4
      <3>2. n \in Nat /\ m \in Nat /\ i \in Nat
        BY <1>1
      <3>3. n <= r /\ k = r - n /\ m <= k /\ j = k - m /\ i = n + m
        BY <1>5, <1>6, <1>11, <2>1, <2>8, <3>1, Zenon
      <3>4. i <= r /\ j = r - i
        BY <3>2, <3>3
      <3> QED
        BY <2>4, <3>1, <3>4, Zenon
    <2>10. running' \in BOOLEAN
      BY <1>2, <1>13, Zenon
    <2>11. ReadsOn
      BY <1>9, <1>13, <2>3, <2>4, <2>7, <2>8, <2>9, <2>10, Zenon DEF ReadsOn
    <2> QED
      BY <2>11
  <1>14. CASE NothingToRead(d) /\ inq' = inq /\ held' = held /\ unswallowed' = unswallowed
    <2>1. /\ c' \in ConnStruct /\ c'.protocol = d.protocol /\ c'.rbuf = d.rbuf /\ c'.go = d.go
          /\ c'.item = d.item /\ c'.ileft = d.ileft /\ c'.cmd = d.cmd
          /\ c'.substate = d.substate /\ c'.rlbytes = d.rlbytes
          /\ c'.state = d.state \/ (eof /\ c'.state = "closing")
          /\ running' \in BOOLEAN
      BY <1>2, <1>9, <1>14, NothingToReadEffect
    <2>2. Wire' = From(Wire, n) /\ n \in 0..Len(Wire)
      BY <1>3, <1>7, <1>9, <1>14, <2>1, TakenFromBuffer
    <2>3. inq' \in Seq(Unit)
      BY <1>1, <1>14
    <2>4. c'.rlbytes = c.rlbytes - n
      BY <1>6, <1>9, <2>1
    <2>5. ReadsOn
      BY <1>5, <1>9, <1>14, <2>1, <2>2, <2>3, <2>4, Zenon DEF ReadsOn
    <2> QED
      BY <2>5
  <1>15. CASE HasAll
    BY <1>15
  <1> QED
    BY <1>5, <1>10, <1>11, <1>12, <1>13, <1>14, <1>15 DEF Nread, Go, HasAll

LEMMA HasAllCompleted ==
    ASSUME SafeInv, Nread, HasAll
    PROVE  /\ Completed(c, c') /\ c' \in ConnStruct /\ Wire' = Wire /\ c.cmd \in Requests
           /\ held' = held + ItemRef(c') - ItemRef(c)
           /\ unswallowed' = (unswallowed \/ NotSwallowed(c, c'))
           /\ inq' = inq /\ running' = running
  <1>1. c \in ConnStruct /\ HangUpInv /\ ServingInv /\ c.state = "nread" /\ togo' = togo
    BY TypesNow DEF Nread
  <1>2. /\ c.cmd \in Requests
        /\ \/ c.protocol = "ascii"
           \/ c.protocol = "binary" /\ c.substate = "value"
           \/ c.protocol = "binary" /\ c.substate = "key" /\ c.cmd.kind \in KeyedKinds
    BY <1>1 DEF ServingInv
  <1>3. c.go # "closing"
    BY <1>1 DEF HangUpInv
  <1>4. PICK e \in CompleteNread(c) :
            /\ c' = e
            /\ held' = held + ItemRef(e) - ItemRef(c)
            /\ unswallowed' = (unswallowed \/ NotSwallowed(c, e))
    BY Zenon DEF HasAll
  <1>5. Completed(c, e)
    BY <1>1, <1>2, <1>3, CompleteNreadCompleted DEF HasAll
  <1>6. Kept(c, c')
    BY <1>4, <1>5 DEF Completed
  <1>7. c' \in ConnStruct /\ c'.rbuf = c.rbuf
    BY <1>6 DEF Kept
  <1>8. Wire' = Wire
    BY <1>1, <1>7 DEF Wire, HasAll
  <1>9. inq' = inq /\ running' = running
    BY DEF HasAll
  <1>10. Completed(c, c')
    BY <1>4, <1>5
  <1>11. held' = held + ItemRef(c') - ItemRef(c)
    BY <1>4
  <1>12. unswallowed' = (unswallowed \/ NotSwallowed(c, c'))
    BY <1>4
  <1> QED
    BY <1>2, <1>7, <1>8, <1>9, <1>10, <1>11, <1>12

LEMMA NreadSafe ==
    ASSUME SafeInv, Nread
    PROVE  SafeInv'
  <1>1. /\ c \in ConnStruct /\ snd \in 0..SndBuf /\ held \in Int /\ running \in BOOLEAN
        /\ nreqs \in 0..ReqsPerEvent /\ cur \in Requests \cup {NoRequest} /\ lost \in BOOLEAN
        /\ longkey \in BOOLEAN /\ unswallowed \in BOOLEAN /\ inq \in Seq(Unit)
        /\ OneProtocol(Wire) /\ Agrees(c.protocol, Wire) /\ HangUpInv /\ RefInv /\ ServingInv
        /\ Wire \in Seq(Unit)
    BY TypesNow, WireType DEF SafeInv
  <1>2. /\ c.state = "nread" /\ cur' = cur /\ open' = open /\ eof' = eof /\ togo' = togo
        /\ snd' = snd /\ longkey' = longkey /\ nreqs' = nreqs /\ lost' = lost
    BY DEF Nread
  <1>3. c.ileft = 0 /\ (longkey \/ held = ItemRef(c)) /\ c.go # "closing"
    BY <1>1, <1>2 DEF RefInv, HangUpInv, ConnStruct, ItemRef
  <1>4. /\ snd' \in 0..SndBuf /\ nreqs' \in 0..ReqsPerEvent
        /\ cur' \in Requests \cup {NoRequest} /\ longkey' \in BOOLEAN /\ lost' \in BOOLEAN
    BY <1>1, <1>2, Zenon
  <1>5. CASE HasAll
    <2>1. /\ Completed(c, c') /\ c' \in ConnStruct /\ Wire' = Wire /\ c.cmd \in Requests
          /\ held' = held + ItemRef(c') - ItemRef(c)
          /\ unswallowed' = (unswallowed \/ NotSwallowed(c, c'))
          /\ inq' = inq /\ running' = running
      BY <1>5, HasAllCompleted
    <2>2. /\ c'.protocol = c.protocol /\ c'.cmd = c.cmd /\ c'.ileft = c.ileft /\ c'.go # "closing"
          /\ c'.state \in {"write", "mwrite", "new_cmd", "nread"}
          /\ c'.state = "nread" => c'.protocol = "binary" /\ c'.substate = "value"
      BY <2>1 DEF Completed, Kept
    <2>3. OneProtocol(Wire') /\ Agrees(c'.protocol, Wire')
      BY <1>1, <2>1, <2>2
    <2>4. ServingInv'
      BY <2>1, <2>2 DEF ServingInv
    <2>5. HangUpInv'
      BY <2>2 DEF HangUpInv
    <2>6. RefInv'
      <3>1. longkey' \/ held' = ItemRef(c')
        BY <1>1, <1>2, <1>3, <2>1 DEF ItemRef
      <3>2. ItemRef(c') \in Nat
        BY DEF ItemRef
      <3> QED
        BY <1>3, <2>2, <3>1, <3>2 DEF RefInv
    <2>7. held' \in Int
      BY <1>1, <2>1 DEF ItemRef
    <2>8. unswallowed' \in BOOLEAN /\ inq' \in Seq(Unit) /\ running' \in BOOLEAN
      BY <1>1, <2>1, Zenon
    <2>9. c.state # "closed" /\ c'.state # "closed"
      BY <1>2, <2>2
    <2> QED
      BY <1>2, <1>4, <2>1, <2>3, <2>4, <2>5, <2>6, <2>7, <2>8, <2>9, MachineSafe, Zenon
  <1>6. CASE ReadsOn
    <2>1. /\ c' \in ConnStruct /\ c'.protocol = c.protocol /\ c'.go = c.go
          /\ c'.item = c.item /\ c'.ileft = c.ileft /\ c'.cmd = c.cmd /\ c'.substate = c.substate
          /\ inq' \in Seq(Unit) /\ running' \in BOOLEAN /\ held' = held /\ unswallowed' = unswallowed
      BY <1>6, Zenon DEF ReadsOn
    <2>2. PICK n \in 0..Len(Wire) : Wire' = From(Wire, n) /\ c'.state \in {"nread", "closing"}
      BY <1>6 DEF ReadsOn
    <2>3. OneProtocol(Wire') /\ Agrees(c'.protocol, Wire')
      BY <1>1, <2>1, <2>2, ProtocolFrom
    <2>4. ServingInv'
      BY <1>1, <1>2, <2>1, <2>2 DEF ServingInv
    <2>5. HangUpInv'
      BY <1>3, <2>1 DEF HangUpInv
    <2>6. RefInv'
      BY <1>1, <1>2, <1>3, <2>1, <2>2 DEF RefInv, ItemRef
    <2>7. held' \in Int /\ unswallowed' \in BOOLEAN
      BY <1>1, <2>1, Zenon
    <2>8. c.state # "closed" /\ c'.state # "closed"
      BY <1>2, <2>2
    <2> QED
      BY <1>2, <1>4, <2>1, <2>3, <2>4, <2>5, <2>6, <2>7, <2>8, MachineSafe, Zenon
  <1> QED
    BY <1>5, <1>6, NreadEffect

(* What is at the front of the buffer is at the front of the wire. *)
LEMMA WireHead ==
    ASSUME SafeInv, c.rbuf # <<>>
    PROVE  /\ c.rbuf \in Seq(Unit) /\ Len(c.rbuf) \in Nat \ {0} /\ Head(c.rbuf) = c.rbuf[1]
           /\ Head(c.rbuf) \in Unit
           /\ Wire \in Seq(Unit) /\ Wire # <<>> /\ 1 \in 1..Len(Wire) /\ Wire[1] = Head(c.rbuf)
  <1>1. /\ c.rbuf \in Seq(Unit) /\ inq \o togo \in Seq(Unit) /\ Wire \in Seq(Unit)
        /\ Wire = c.rbuf \o (inq \o togo)
    BY WireType, Zenon DEF SafeInv
  <1>2. PICK b \in Seq(Unit), u \in Seq(Unit) : b = c.rbuf /\ u = inq \o togo /\ b # <<>>
    BY <1>1
  <1>3. Len(b) \in Nat \ {0} /\ Head(b) = b[1] /\ Head(b) \in Unit
    BY <1>2
  <1>4. /\ Len(b \o u) = Len(b) + Len(u) /\ Len(u) \in Nat
        /\ \A i \in 1..(Len(b) + Len(u)) : (b \o u)[i] = IF i <= Len(b) THEN b[i] ELSE u[i - Len(b)]
    BY ConcatProperties
  <1>5. 1 \in 1..Len(b \o u) /\ (b \o u)[1] = b[1]
    BY <1>3, <1>4
  <1>6. b \o u # <<>>
    BY <1>2, ConcatEqualIffEmpty
  <1> QED
    BY <1>1, <1>2, <1>3, <1>5, <1>6

(* The protocol is that of all that is on the wire. *)
LEMMA NegotiateEffect ==
    ASSUME SafeInv, c.state = "parse_cmd", NEW d, d = Negotiate(c)
    PROVE  /\ d \in ConnStruct /\ d.rbuf = c.rbuf /\ d.go = c.go /\ d.item = c.item
           /\ d.ileft = c.ileft /\ d.sbytes = c.sbytes
           /\ d.protocol \in {"ascii", "binary"}
           /\ Agrees(d.protocol, Wire)
           /\ Head(d.rbuf) \in Unit /\ Binary(Head(d.rbuf)[1]) = (d.protocol = "binary")
           /\ c.rbuf # <<>>
  <1>1. /\ c \in ConnStruct /\ OneProtocol(Wire) /\ Agrees(c.protocol, Wire) /\ ServingInv
    BY TypesNow
  <1>2. c.rbuf # <<>>
    BY <1>1 DEF ServingInv
  <1>3. /\ Head(c.rbuf) \in Unit /\ 1 \in 1..Len(Wire) /\ Wire[1] = Head(c.rbuf)
    BY <1>2, WireHead
  <1>4. CASE c.protocol # "negotiating"
    <2>1. d = c
      BY <1>4 DEF Negotiate
    <2>2. Binary(Wire[1][1]) = (c.protocol = "binary")
      BY <1>1, <1>3, <1>4, Zenon DEF Agrees
    <2>3. c.protocol \in {"ascii", "binary"}
      BY <1>1, <1>4 DEF ConnStruct
    <2> QED
      BY <1>1, <1>2, <1>3, <2>1, <2>2, <2>3
  <1>5. CASE c.protocol = "negotiating"
    <2>1. PICK p \in {"ascii", "binary"} :
              /\ p = (IF Binary(Head(c.rbuf)[1]) THEN "binary" ELSE "ascii")
              /\ Binary(Head(c.rbuf)[1]) = (p = "binary")
      BY DEF Binary
    <2>2. d = [c EXCEPT !.protocol = p]
      BY <1>5, <2>1 DEF Negotiate
    <2>3. d \in ConnStruct
      BY <1>1, <2>2 DEF ConnStruct
    <2>4. /\ d.rbuf = c.rbuf /\ d.go = c.go /\ d.item = c.item
          /\ d.ileft = c.ileft /\ d.sbytes = c.sbytes /\ d.protocol = p
      BY <1>1, <2>2 DEF ConnStruct
    <2>5. \A i \in 1..Len(Wire) : Binary(Wire[i][1]) = Binary(Wire[1][1])
      BY <1>1, <1>3, Zenon DEF OneProtocol
    <2>6. Agrees(p, Wire)
      BY <1>3, <2>1, <2>5, Zenon DEF Agrees
    <2> QED
      BY <1>2, <1>3, <2>1, <2>3, <2>4, <2>6
  <1> QED
    BY <1>4, <1>5

(* What is taken is the first request on the wire. *)
LEMMA TakeRequestEffect ==
    ASSUME NEW d \in ConnStruct, NEW t, t = TakeRequest(d), d.rbuf \in Seq(Unit),
           Head(d.rbuf) \in Unit, Len(d.rbuf) >= HeadUnits
    PROVE  /\ t \in ConnStruct /\ t.rbuf = From(d.rbuf, 2) /\ t.cmd = Head(d.rbuf)[1]
           /\ 2 \in 0..Len(d.rbuf)
           /\ t.protocol = d.protocol /\ t.go = d.go /\ t.item = d.item /\ t.ileft = d.ileft
           /\ t.cmd \in Requests
  <1>1. PICK g : g = AddMsghdr(d)
    OBVIOUS
  <1>2. SameButOut(d, g)
    BY <1>1, AddMsghdrEffect
  <1>3. PICK n \in 0..Len(d.rbuf) : n = 2
    BY DEF HeadUnits
  <1>4. PICK b \in Seq(Unit) : b = From(d.rbuf, n)
    BY FromFacts
  <1>5. b \in Seq(Requests \X (Nat \ {0}))
    BY DEF Unit
  <1>6. PICK r \in Requests : r = Head(d.rbuf)[1]
    BY DEF Unit
  <1>7. t = [g EXCEPT !.cmd = r, !.rbuf = b]
    BY <1>1, <1>2, <1>3, <1>4, <1>6 DEF TakeRequest, HeadUnits, SameButOut
  <1>8. g \in ConnStruct
    BY <1>2 DEF SameButOut
  <1>9. t \in ConnStruct
    BY <1>5, <1>7, <1>8 DEF ConnStruct
  <1>10. /\ t.rbuf = b /\ t.cmd = r
         /\ t.protocol = g.protocol /\ t.go = g.go /\ t.item = g.item /\ t.ileft = g.ileft
    BY <1>7, <1>8 DEF ConnStruct
  <1> QED
    BY <1>2, <1>3, <1>4, <1>6, <1>9, <1>10 DEF SameButOut

\* What the step of conn_parse_cmd that takes a request does.
TakesRequest(t) ==
    /\ Taken(t, c') /\ c' \in ConnStruct
    /\ t.cmd \in Requests /\ t.cmd = Wire[1][1] /\ Wire[1][2] = 1
    /\ t.protocol \in {"ascii", "binary"} /\ Binary(t.cmd) = (t.protocol = "binary")
    /\ Agrees(t.protocol, Wire)
    /\ Wire # <<>> /\ 2 \in 0..Len(Wire) /\ Wire' = From(Wire, 2)
    /\ running' = running /\ cur' = t.cmd /\ lost' = lost
    /\ \E hits \in 0..2 :
          /\ held' = held + ItemRef(c') + c'.ileft + hits
          /\ longkey' = (longkey \/ hits > 0)
    /\ unswallowed' = (unswallowed \/ NotSwallowed(t, c'))

\* What the other steps of conn_parse_cmd do.
TakesNothing ==
    /\ c' \in ConnStruct /\ c'.rbuf = c.rbuf /\ c'.go = c.go /\ c'.item = c.item
    /\ c'.ileft = c.ileft /\ Agrees(c'.protocol, Wire)
    /\ \/ c'.state = "parse_cmd" /\ Wire # <<>> /\ Wire[1][2] # 1 /\ lost' = TRUE
       \/ c'.state = "waiting" /\ lost' = lost
       \/ c'.state = "closing" /\ NoEol(c.rbuf) /\ lost' = lost
    /\ running' = running
    /\ cur' = cur /\ held' = held /\ longkey' = longkey /\ unswallowed' = unswallowed

LEMMA ParseCmdEffect ==
    ASSUME SafeInv, ParseCmd
    PROVE  (\E t : TakesRequest(t)) \/ TakesNothing
  <1>1. /\ c \in ConnStruct /\ HangUpInv /\ RefInv /\ Agrees(c.protocol, Wire)
    BY TypesNow
  <1>2. c.state = "parse_cmd" /\ inq' = inq /\ togo' = togo
    BY DEF ParseCmd, netvars
  <1>3. c.go # "closing" /\ c.ileft = 0 /\ c.item = FALSE
    BY <1>1, <1>2 DEF HangUpInv, RefInv, ConnStruct
  <1>4. PICK d : d = Negotiate(c)
    OBVIOUS
  <1>5. /\ d \in ConnStruct /\ d.rbuf = c.rbuf /\ d.go = c.go /\ d.item = c.item
        /\ d.ileft = c.ileft
        /\ d.protocol \in {"ascii", "binary"}
        /\ Agrees(d.protocol, Wire)
        /\ Head(d.rbuf) \in Unit /\ Binary(Head(d.rbuf)[1]) = (d.protocol = "binary")
        /\ c.rbuf # <<>>
    BY <1>2, <1>4, NegotiateEffect
  <1>6. /\ c.rbuf \in Seq(Unit) /\ Len(c.rbuf) \in Nat \ {0} /\ Head(c.rbuf) = c.rbuf[1]
        /\ Wire # <<>> /\ Wire[1] = Head(c.rbuf)
    BY <1>5, WireHead
  <1>7. CASE /\ Head(d.rbuf)[2] # 1 /\ lost' = TRUE /\ running' = running /\ c' = c /\ cur' = cur
             /\ held' = held /\ longkey' = longkey /\ unswallowed' = unswallowed
    BY <1>1, <1>2, <1>5, <1>6, <1>7 DEF TakesNothing
  <1>8. CASE /\ c' = [d EXCEPT !.state = "waiting"] /\ running' = running /\ cur' = cur
             /\ held' = held /\ longkey' = longkey /\ unswallowed' = unswallowed /\ lost' = lost
    <2>1. c' \in ConnStruct
      BY <1>5, <1>8 DEF ConnStruct, States
    <2>2. /\ c'.rbuf = d.rbuf /\ c'.go = d.go /\ c'.item = d.item /\ c'.ileft = d.ileft
          /\ c'.protocol = d.protocol /\ c'.state = "waiting"
      BY <1>5, <1>8 DEF ConnStruct
    <2> QED
      BY <1>5, <1>8, <2>1, <2>2 DEF TakesNothing
  <1>9. CASE /\ NoEol(d.rbuf) /\ c' = [d EXCEPT !.state = "closing"] /\ running' = running /\ cur' = cur
             /\ held' = held /\ longkey' = longkey /\ unswallowed' = unswallowed /\ lost' = lost
    <2>1. c' \in ConnStruct
      BY <1>5, <1>9 DEF ConnStruct, States
    <2>2. /\ c'.rbuf = d.rbuf /\ c'.go = d.go /\ c'.item = d.item /\ c'.ileft = d.ileft
          /\ c'.protocol = d.protocol /\ c'.state = "closing"
      BY <1>5, <1>9 DEF ConnStruct
    <2> QED
      BY <1>5, <1>9, <2>1, <2>2 DEF TakesNothing
  <1>10. PICK t : t = TakeRequest(d)
    OBVIOUS
  <1>11. ASSUME Head(d.rbuf)[2] = 1, Len(d.rbuf) >= HeadUnits, ~NoEol(d.rbuf),
                NEW e \in IF t.protocol = "ascii" THEN ProcessCommand(t) ELSE {DispatchBinCommand(t)},
                NEW hits \in IF t.cmd.kind = "getlong" THEN 0..2 ELSE {0},
                c' = e, running' = running, cur' = t.cmd,
                held' = held + ItemRef(e) + e.ileft + hits,
                longkey' = (longkey \/ hits > 0),
                unswallowed' = (unswallowed \/ NotSwallowed(t, e)), lost' = lost
         PROVE  TakesRequest(t)
    <2>1. /\ t \in ConnStruct /\ t.rbuf = From(d.rbuf, 2) /\ t.cmd = Head(d.rbuf)[1]
          /\ 2 \in 0..Len(d.rbuf)
          /\ t.protocol = d.protocol /\ t.go = d.go /\ t.item = d.item /\ t.ileft = d.ileft
          /\ t.cmd \in Requests
      BY <1>5, <1>6, <1>10, <1>11, TakeRequestEffect
    <2>2. Taken(t, e)
      <3>1. CASE t.protocol = "ascii"
        <4>1. t.cmd.kind \in AsciiKinds
          BY <1>5, <2>1, <3>1 DEF Binary
        <4>2. t.cmd.kind # "noeol"
          BY <1>5, <1>6, <1>11, <2>1 DEF NoEol
        <4> QED
          BY <1>3, <1>5, <1>11, <2>1, <3>1, <4>1, <4>2, ProcessCommandTaken
      <3>2. CASE t.protocol = "binary"
        <4>1. t.cmd.kind \in KeyedKinds \cup BareKinds
          BY <1>5, <2>1, <3>2, ConnAssumption DEF Binary
        <4> QED
          BY <1>3, <1>5, <1>11, <2>1, <3>2, <4>1, DispatchBinCommandTaken
      <3> QED
        BY <1>5, <2>1, <3>1, <3>2
    <2>3. e \in ConnStruct /\ e.rbuf = t.rbuf
      BY <2>2 DEF Taken
    <2>4. Wire' = From(Wire, 2) /\ 2 \in 0..Len(Wire)
      BY <1>2, <1>5, <1>11, <2>1, <2>3, TakenFromBuffer
    <2>5. t.cmd = Wire[1][1] /\ Wire[1][2] = 1
      BY <1>5, <1>6, <1>11, <2>1
    <2>6. t.protocol \in {"ascii", "binary"} /\ Binary(t.cmd) = (t.protocol = "binary")
          /\ Agrees(t.protocol, Wire)
      BY <1>5, <2>1
    <2>7. /\ Taken(t, c') /\ c' \in ConnStruct
          /\ held' = held + ItemRef(c') + c'.ileft + hits
          /\ unswallowed' = (unswallowed \/ NotSwallowed(t, c'))
      BY <1>11, <2>2, <2>3
    <2>8. hits \in 0..2
      BY <1>11
    <2> QED
      BY <1>6, <1>11, <2>1, <2>4, <2>5, <2>6, <2>7, <2>8, Zenon DEF TakesRequest
  <1>12. CASE \E t1 : TakesRequest(t1)
    BY <1>12
  <1> QED
    BY <1>4, <1>5, <1>7, <1>8, <1>9, <1>10, <1>11, <1>12 DEF ParseCmd, Go

LEMMA ParseCmdSafe ==
    ASSUME SafeInv, ParseCmd
    PROVE  SafeInv'
  <1>1. /\ c \in ConnStruct /\ snd \in 0..SndBuf /\ held \in Int /\ running \in BOOLEAN
        /\ nreqs \in 0..ReqsPerEvent /\ cur \in Requests \cup {NoRequest} /\ lost \in BOOLEAN
        /\ longkey \in BOOLEAN /\ unswallowed \in BOOLEAN /\ inq \in Seq(Unit)
        /\ OneProtocol(Wire) /\ Agrees(c.protocol, Wire) /\ HangUpInv /\ RefInv /\ ServingInv
        /\ Wire \in Seq(Unit)
    BY TypesNow, WireType DEF SafeInv
  <1>2. /\ c.state = "parse_cmd" /\ open' = open /\ eof' = eof /\ togo' = togo /\ inq' = inq
        /\ snd' = snd /\ nreqs' = nreqs
    BY DEF ParseCmd, netvars
  <1>3. c.ileft = 0 /\ c.item = FALSE /\ c.go # "closing" /\ (longkey \/ held = 0)
    BY <1>1, <1>2 DEF RefInv, HangUpInv, ConnStruct, ItemRef
  <1>4. snd' \in 0..SndBuf /\ nreqs' \in 0..ReqsPerEvent /\ inq' \in Seq(Unit)
    BY <1>1, <1>2
  <1>5. ASSUME NEW t, TakesRequest(t)
        PROVE  SafeInv'
    <2>1. /\ Taken(t, c') /\ c' \in ConnStruct
          /\ t.cmd \in Requests /\ t.protocol \in {"ascii", "binary"}
          /\ Binary(t.cmd) = (t.protocol = "binary")
          /\ Agrees(t.protocol, Wire)
          /\ 2 \in 0..Len(Wire) /\ Wire' = From(Wire, 2)
          /\ running' = running /\ cur' = t.cmd /\ lost' = lost
          /\ unswallowed' = (unswallowed \/ NotSwallowed(t, c'))
      BY <1>5 DEF TakesRequest
    <2>2. PICK hits \in 0..2 :
              /\ held' = held + ItemRef(c') + c'.ileft + hits
              /\ longkey' = (longkey \/ hits > 0)
      BY <1>5 DEF TakesRequest
    <2>3. /\ c'.protocol = t.protocol /\ c'.cmd = t.cmd
          /\ c'.state \in {"write", "mwrite", "new_cmd", "nread", "closing"}
          /\ c'.ileft > 0 => c'.state = "mwrite"
          /\ c'.state = "nread" =>
                c'.protocol = "ascii" \/ (c'.substate = "key" /\ c'.cmd.kind \in KeyedKinds)
          /\ c'.go = "closing" =>
                c'.state \in {"mwrite", "closing"} /\ t.cmd.kind \in {"bquit", "binvalid"}
      BY <2>1 DEF Taken
    <2>4. OneProtocol(Wire') /\ Agrees(c'.protocol, Wire')
      <3>1. OneProtocol(From(Wire, 2)) /\ Agrees(t.protocol, From(Wire, 2))
        BY <1>1, <2>1, ProtocolFrom
      <3> QED
        BY <2>1, <2>3, <3>1
    <2>5. ServingInv'
      BY <2>1, <2>3 DEF ServingInv
    <2>6. HangUpInv'
      <3>1. t.cmd.kind \in {"bquit", "binvalid"} => Binary(t.cmd)
        BY DEF Binary, AsciiKinds
      <3> QED
        BY <2>1, <2>3, <3>1 DEF HangUpInv
    <2>7. c'.ileft \in Nat /\ ItemRef(c') \in Nat
      BY <2>1 DEF ConnStruct, ItemRef
    <2>8. RefInv'
      <3>1. CASE hits > 0
        <4>1. longkey'
          BY <2>2, <3>1
        <4> QED
          BY <2>3, <4>1 DEF RefInv
      <3>2. CASE ~(hits > 0)
        <4>1. longkey' = longkey
          BY <1>1, <2>2, <3>2
        <4>2. longkey \/ held' = ItemRef(c') + c'.ileft
          BY <1>3, <2>2, <2>7, <3>2
        <4> QED
          BY <2>3, <4>1, <4>2 DEF RefInv
      <3> QED
        BY <3>1, <3>2
    <2>9. held' \in Int
      BY <1>1, <2>2, <2>7
    <2>10. longkey' \in BOOLEAN /\ unswallowed' \in BOOLEAN /\ running' \in BOOLEAN /\ lost' \in BOOLEAN
      BY <1>1, <2>1, <2>2, Zenon
    <2>11. cur' \in Requests \cup {NoRequest} /\ c.state # "closed" /\ c'.state # "closed"
      BY <1>2, <2>1, <2>3
    <2> QED
      BY <1>2, <1>4, <2>1, <2>4, <2>5, <2>6, <2>8, <2>9, <2>10, <2>11, MachineSafe, Zenon
  <1>6. CASE TakesNothing
    <2>1. /\ c' \in ConnStruct /\ c'.rbuf = c.rbuf /\ c'.go = c.go /\ c'.item = c.item
          /\ c'.ileft = c.ileft /\ Agrees(c'.protocol, Wire)
          /\ c'.state \in {"parse_cmd", "waiting", "closing"}
          /\ cur' = cur /\ held' = held
      BY <1>6 DEF TakesNothing
    <2>2. /\ running' \in BOOLEAN /\ longkey' \in BOOLEAN /\ unswallowed' \in BOOLEAN
          /\ lost' \in BOOLEAN
      BY <1>1, <1>6, Zenon DEF TakesNothing
    <2>3. Wire' = Wire
      BY <1>2, <2>1 DEF Wire
    <2>4. OneProtocol(Wire') /\ Agrees(c'.protocol, Wire')
      BY <1>1, <2>1, <2>3
    <2>5. ServingInv'
      BY <1>1, <1>2, <2>1 DEF ServingInv
    <2>6. HangUpInv'
      BY <1>3, <2>1 DEF HangUpInv
    <2>7. RefInv'
      <3>1. longkey' = longkey
        BY <1>6 DEF TakesNothing
      <3> QED
        BY <1>1, <1>3, <2>1, <3>1 DEF RefInv, ItemRef
    <2>8. c.state # "closed" /\ c'.state # "closed"
      BY <1>2, <2>1
    <2>9. held' \in Int /\ cur' \in Requests \cup {NoRequest}
      BY <1>1, <2>1
    <2> QED
      BY <1>2, <1>4, <2>1, <2>2, <2>4, <2>5, <2>6, <2>7, <2>8, <2>9, MachineSafe, Zenon
  <1> QED
    BY <1>5, <1>6, ParseCmdEffect

-----------------------------------------------------------------------------
(***************************************************************************)
(* The theorems that rest on the invariant so far.                         *)
(***************************************************************************)
LEMMA NextSafe ==
    ASSUME SafeInv, [Next]_vars
    PROVE  SafeInv'
  <1>1. CASE Event \/ ClientRead
    BY <1>1, EventSafe
  <1>2. CASE NewCmd \/ Waiting \/ Read \/ ParseCmd
    BY <1>2, NewCmdSafe, WaitingSafe, ReadSafe, ParseCmdSafe
  <1>3. CASE Nread \/ Swallow \/ Transmit \/ Closing
    BY <1>3, NreadSafe, SwallowSafe, TransmitSafe, ClosingSafe
  <1>4. CASE Connect
    BY <1>4, ConnectSafe
  <1>5. CASE \E r \in Requests : ClientSend(r)
    BY <1>5, ClientSendSafe
  <1>6. CASE ClientSendMore
    BY <1>6, ClientSendMoreSafe
  <1>7. CASE ClientLeave
    BY <1>7, ClientLeaveSafe
  <1>8. CASE UNCHANGED vars
    <2>1. /\ c' = c /\ running' = running /\ nreqs' = nreqs /\ inq' = inq /\ snd' = snd
          /\ open' = open /\ eof' = eof /\ togo' = togo /\ cur' = cur /\ held' = held
          /\ longkey' = longkey /\ unswallowed' = unswallowed /\ lost' = lost
      BY <1>8 DEF vars
    <2>2. Wire' = Wire
      BY <2>1 DEF Wire
    <2>3. TypeInv'
      BY <2>1, Zenon DEF SafeInv, TypeInv, TypeOK
    <2>4. IdleInv' /\ ServingInv' /\ HangUpInv' /\ RefInv'
      BY <2>1 DEF SafeInv, IdleInv, ServingInv, HangUpInv, RefInv
    <2>5. ProtocolInv'
      BY <2>1, <2>2 DEF SafeInv, ProtocolInv
    <2> QED
      BY <2>3, <2>4, <2>5 DEF SafeInv
  <1> QED
    BY <1>1, <1>2, <1>3, <1>4, <1>5, <1>6, <1>7, <1>8 DEF Next, DriveMachine, Client

THEOREM SafeAlways == Spec => []SafeInv
  <1>1. Init => SafeInv
    BY InitSafe
  <1>2. SafeInv /\ [Next]_vars => SafeInv'
    BY NextSafe
  <1> QED
    BY <1>1, <1>2, PTL DEF Spec

(* Each variable keeps its type, through every request, split and reuse of *)
(* the structure; a structure no client uses is closed.                    *)
THEOREM TypeCorrect == Spec => []TypeOK
  <1>1. SafeInv => TypeOK
    BY DEF SafeInv, TypeInv
  <1> QED
    BY <1>1, SafeAlways, PTL

(* conn_cleanup(), reset_cmd_handler() and the end of an answer give back  *)
(* every reference the commands took, except those of a multiget that met  *)
(* an illegal key after a hit.                                             *)
THEOREM RefsReleasedAlways == Spec => []RefsReleasedUnlessLongKey
  <1>1. SafeInv => RefsReleasedUnlessLongKey
    <2>1. SUFFICES ASSUME SafeInv, c.state \in {"waiting", "read", "closed"}
                   PROVE  held = 0 \/ longkey
      BY DEF RefsReleasedUnlessLongKey
    <2>2. c \in ConnStruct /\ RefInv
      BY <2>1, TypesNow
    <2>3. c.item = FALSE /\ c.ileft = 0
      BY <2>1, <2>2 DEF RefInv, ConnStruct
    <2> QED
      BY <2>2, <2>3 DEF RefInv, ItemRef
  <1> QED
    BY <1>1, SafeAlways, PTL

\* One of the two requests served before and after a step ends the connection.
AskedFor == {cur, cur'} \cap {r \in Requests : r.kind \in {"quit", "bquit", "binvalid"}} # {}

LEMMA ClosingStep ==
    ASSUME SafeInv, Next, c.state # "closing", c'.state = "closing"
    PROVE  eof \/ AskedFor \/ NoEol(c.rbuf)
  <1>1. c \in ConnStruct /\ HangUpInv
    BY TypesNow
  <1>2. CASE Read
    BY <1>2, ReadEffect
  <1>3. CASE Swallow
    BY <1>3, SwallowEffect
  <1>4. CASE Nread
    <2>1. CASE HasAll
      <3>1. Completed(c, c')
        BY <1>4, <2>1, HasAllCompleted
      <3> QED
        BY <3>1 DEF Completed
    <2>2. CASE ReadsOn
      BY <2>2 DEF ReadsOn
    <2> QED
      BY <1>4, <2>1, <2>2, NreadEffect
  <1>5. CASE ParseCmd
    <2>1. ASSUME NEW t, TakesRequest(t)
          PROVE  AskedFor
      <3>1. Taken(t, c') /\ t.cmd \in Requests /\ cur' = t.cmd
        BY <2>1 DEF TakesRequest
      <3>2. t.cmd.kind \in {"quit", "bquit"}
        BY <3>1 DEF Taken
      <3> QED
        BY <3>1, <3>2 DEF AskedFor
    <2>2. CASE TakesNothing
      BY <2>2 DEF TakesNothing
    <2> QED
      BY <1>5, <2>1, <2>2, ParseCmdEffect
  <1>6. CASE Transmit
    <2>1. c.state \in {"write", "mwrite"}
      BY <1>6 DEF Transmit
    <2>2. \/ c'.state = IF c.state = "mwrite" /\ c.protocol # "binary" THEN "new_cmd" ELSE c.go
          \/ c'.state = c.state
          \/ eof
      BY <1>6, TransmitEffect
    <2>3. c.go = "closing" \/ eof
      BY <2>1, <2>2
    <2>4. c.go = "closing" => cur \in Requests /\ cur.kind \in {"bquit", "binvalid"}
      BY <1>1, <2>1 DEF HangUpInv
    <2> QED
      BY <2>3, <2>4 DEF AskedFor
  <1>7. CASE NewCmd
    BY <1>7, NewCmdEffect
  <1>8. CASE Waiting
    <2>1. c' = [c EXCEPT !.ev = "READ", !.state = "read"]
      BY <1>8 DEF Waiting, Stop
    <2>2. c'.state = "read"
      BY <1>1, <2>1 DEF ConnStruct
    <2> QED
      BY <2>2
  <1>9. CASE Closing
    BY <1>9 DEF Closing
  <1>10. CASE Event \/ ClientRead \/ ClientSendMore \/ ClientLeave \/ \E r \in Requests : ClientSend(r)
    <2>1. c' = c
      BY <1>10 DEF Event, ClientRead, ClientSendMore, ClientLeave, ClientSend
    <2> QED
      BY <2>1
  <1>11. CASE Connect
    <2>1. c' = ConnNew(c.sbytes)
      BY <1>11 DEF Connect
    <2> QED
      BY <2>1 DEF ConnNew
  <1> QED
    BY <1>2, <1>3, <1>4, <1>5, <1>6, <1>7, <1>8, <1>9, <1>10, <1>11 DEF Next, DriveMachine, Client

(* drive_machine() closes a connection only for its client's sake: it left, *)
(* asked for it, broke the protocol or sent a line without end.  The        *)
(* write_and_go that an earlier request has set never does.                 *)
THEOREM ClosedForCauseAlways == Spec => ClosedForCause
  <1>1. ASSUME SafeInv, [Next]_vars
        PROVE  [c.state # "closing" /\ c'.state = "closing"
                  => \/ eof
                     \/ {cur, cur'} \cap {r \in Requests : r.kind \in {"quit", "bquit", "binvalid"}} # {}
                     \/ NoEol(c.rbuf)]_vars
    BY <1>1, ClosingStep DEF AskedFor
  <1> QED
    BY <1>1, SafeAlways, PTL DEF Spec, ClosedForCause

-----------------------------------------------------------------------------
(***************************************************************************)
(* The stream of requests: what is on the wire is the rest of one request, *)
(* then whole requests, and only the last may be cut off by a client that  *)
(* left.  Where a request ends is known from any unit of it, which is what *)
(* lets a step take several units at once.                                 *)
(***************************************************************************)
\* b is the k-th unit behind a: of the same request, or the first of the next.
Behind(a, b, k) ==
    /\ a[2] + k <= Length(a[1]) => b = <<a[1], a[2] + k>>
    /\ a[2] + k = Length(a[1]) + 1 => b[2] = 1

Stream(w) == \A i, j \in 1..Len(w) : i <= j => Behind(w[i], w[j], j - i)

Complete(w) == w # <<>> => w[Len(w)][2] = Length(w[Len(w)][1])

\* The first n units are what is left of a request, as far as it was sent.
Due(w, n) == w # <<>> => IF n = 0 THEN w[1][2] = 1 ELSE w[1][2] + n = Length(w[1][1]) + 1

\* A client that is there sends all of a request it has begun.
Follows(w, n, gone) == Due(w, n) /\ (w = <<>> /\ n > 0 => gone)
Flows(w, gone) == Stream(w) /\ (gone \/ Complete(w))

\* Unless the connection is ending or a value was left on the wire, what the
\* conn has still to take is what is left of the request it serves.
Expects(d, unsw) == d.state \notin {"closing", "closed"} /\ d.go # "closing" /\ ~unsw

StreamInv ==
    /\ Flows(Wire, eof)
    /\ Expects(c, unswallowed) => Follows(Wire, Owed(c), eof)

LEMMA UnitPair ==
    ASSUME NEW u \in Unit
    PROVE  \E r \in Requests, p \in Nat \ {0} : u = <<r, p>> /\ u[1] = r /\ u[2] = p
  <1>1. PICK r \in Requests, p \in Nat \ {0} : u = <<r, p>>
    BY DEF Unit
  <1> QED
    BY <1>1

(* Units of a request that are taken are units less to take. *)
LEMMA FlowsFrom ==
    ASSUME NEW w \in Seq(Unit), NEW gone \in BOOLEAN, NEW n \in 0..Len(w), Flows(w, gone)
    PROVE  Flows(From(w, n), gone)
  <1>1. PICK v \in Seq(Unit) : v = From(w, n)
    BY FromFacts
  <1>2. Len(v) = Len(w) - n /\ (\A i \in 1..(Len(w) - n) : v[i] = w[i + n]) /\ Len(w) \in Nat
    <2>1. Len(v) = Len(w) - n /\ \A i \in 1..(Len(w) - n) : v[i] = w[i + n]
      BY <1>1, FromFacts
    <2> QED
      BY <2>1
  <1>3. Stream(v)
    <2>1. SUFFICES ASSUME NEW i \in 1..Len(v), NEW j \in 1..Len(v), i <= j
                   PROVE  Behind(v[i], v[j], j - i)
      BY DEF Stream
    <2>2. i + n \in 1..Len(w) /\ j + n \in 1..Len(w) /\ i + n <= j + n /\ (j + n) - (i + n) = j - i
      BY <1>2, <2>1
    <2>3. v[i] = w[i + n] /\ v[j] = w[j + n]
      BY <1>2
    <2>4. Behind(w[i + n], w[j + n], (j + n) - (i + n))
      BY <2>2 DEF Flows, Stream
    <2> QED
      BY <2>2, <2>3, <2>4
  <1>4. ASSUME Complete(w), v # <<>>
        PROVE  v[Len(v)][2] = Length(v[Len(v)][1])
    <2>1. Len(v) \in 1..(Len(w) - n)
      BY <1>2, <1>4
    <2>2. v[Len(v)] = w[Len(w)]
      <3>1. \A l, m \in Nat : l = m - n => l + n = m
        OBVIOUS
      <3>2. Len(v) + n = Len(w)
        BY <1>2, <3>1
      <3>3. v[Len(v)] = w[Len(v) + n]
        BY <1>2, <2>1
      <3> QED
        BY <3>2, <3>3
    <2>3. w # <<>>
      BY <1>2, <2>1
    <2> QED
      BY <1>4, <2>2, <2>3 DEF Complete
  <1>5. gone \/ Complete(v)
    BY <1>4 DEF Flows, Complete
  <1> QED
    BY <1>1, <1>3, <1>5 DEF Flows

LEMMA FollowsFrom ==
    ASSUME NEW w \in Seq(Unit), NEW gone \in BOOLEAN, NEW n \in 0..Len(w), NEW k \in Nat, n <= k,
           Flows(w, gone), Follows(w, k, gone)
    PROVE  Follows(From(w, n), k - n, gone)
  <1>1. CASE n = 0
    <2>1. From(w, n) = w
      BY <1>1, FromZero
    <2> QED
      BY <1>1, <2>1
  <1>2. CASE n > 0
    <2>1. PICK v \in Seq(Unit) : v = From(w, n)
      BY FromFacts
    <2>2. Len(v) = Len(w) - n /\ (\A i \in 1..(Len(w) - n) : v[i] = w[i + n]) /\ Len(w) \in Nat
      <3>1. Len(v) = Len(w) - n /\ \A i \in 1..(Len(w) - n) : v[i] = w[i + n]
        BY <2>1, FromFacts
      <3> QED
        BY <3>1
    <2>3. w # <<>> /\ 1 \in 1..Len(w) /\ n \in 1..Len(w)
      BY <1>2, <2>2
    <2>4. PICK r \in Requests, p \in Nat \ {0} : w[1] = <<r, p>> /\ w[1][1] = r /\ w[1][2] = p
      <3>1. w[1] \in Unit
        BY <2>3
      <3> QED
        BY <3>1, UnitPair
    <2>5. Length(r) \in Nat
      BY UnitsFacts
    <2>6. p + k = Length(r) + 1
      BY <1>2, <2>3, <2>4 DEF Follows, Due
    <2>7. Due(v, k - n)
      <3>1. SUFFICES ASSUME v # <<>>
                     PROVE  IF k - n = 0 THEN v[1][2] = 1 ELSE v[1][2] + (k - n) = Length(v[1][1]) + 1
        BY DEF Due
      <3>2. 1 \in 1..(Len(w) - n)
        BY <2>2, <3>1
      <3>3. v[1] = w[1 + n] /\ 1 + n \in 1..Len(w) /\ (1 + n) - 1 = n
        BY <2>2, <3>2
      <3>4. Behind(w[1], v[1], n)
        <4>1. Behind(w[1], w[1 + n], (1 + n) - 1)
          BY <2>3, <3>3 DEF Flows, Stream
        <4> QED
          BY <3>3, <4>1
      <3>5. CASE k - n = 0
        <4>1. p + n = Length(r) + 1
          BY <2>6, <3>5
        <4> QED
          BY <2>4, <3>4, <3>5, <4>1 DEF Behind
      <3>6. CASE k - n # 0
        <4>1. p + n <= Length(r)
          BY <2>5, <2>6, <3>6
        <4>2. v[1] = <<r, p + n>>
          BY <2>4, <3>4, <4>1 DEF Behind
        <4>3. v[1][1] = r /\ v[1][2] = p + n
          BY <4>2
        <4> QED
          BY <2>5, <2>6, <3>6, <4>3
      <3> QED
        BY <3>5, <3>6
    <2>8. ASSUME v = <<>>, k - n > 0, ~gone
          PROVE  FALSE
      <3>1. n = Len(w)
        BY <2>2, <2>8
      <3>2. w[n][2] = Length(w[n][1])
        BY <2>3, <2>8, <3>1 DEF Flows, Complete
      <3>3. Behind(w[1], w[n], n - 1)
        BY <2>3 DEF Flows, Stream
      <3>4. p + (n - 1) <= Length(r)
        BY <2>5, <2>6, <2>8
      <3>5. w[n] = <<r, p + (n - 1)>>
        BY <2>4, <3>3, <3>4 DEF Behind
      <3>6. p + (n - 1) = Length(r)
        BY <3>2, <3>5
      <3> QED
        BY <2>6, <2>8, <3>6
    <2> QED
      BY <2>1, <2>7, <2>8 DEF Follows
  <1> QED
    BY <1>1, <1>2

(* Behind the line or the header of a request its rest is on the wire. *)
LEMMA FollowsTaken ==
    ASSUME NEW w \in Seq(Unit), NEW gone \in BOOLEAN, w # <<>>, 2 \in 0..Len(w),
           Flows(w, gone), Follows(w, 0, gone)
    PROVE  Follows(From(w, 2), Rest(w[1][1]), gone)
  <1>1. PICK r \in Requests : r = w[1][1]
    BY DEF Unit
  <1>2. Length(r) \in Nat /\ Length(r) = 2 + Rest(r) /\ Rest(r) \in Nat
    BY UnitsFacts DEF HeadUnits
  <1>3. w[1][2] = 1
    BY DEF Follows, Due
  <1>4. PICK k \in Nat : k = Length(r) /\ k # 0 /\ 2 <= k /\ k - 2 = Rest(r)
    BY <1>2
  <1>5. Follows(w, k, gone)
    BY <1>1, <1>3, <1>4 DEF Follows, Due
  <1>6. PICK n \in 0..Len(w) : n = 2
    OBVIOUS
  <1>7. Follows(From(w, n), k - n, gone)
    BY <1>4, <1>5, <1>6, FollowsFrom
  <1> QED
    BY <1>1, <1>4, <1>6, <1>7

(* The next request of a client begins where the last one ends. *)
LEMMA FlowsConcat ==
    ASSUME NEW w \in Seq(Unit), NEW r \in Requests, Stream(w), Complete(w)
    PROVE  Stream(w \o Units(r)) /\ Complete(w \o Units(r))
  <1>1. PICK u \in Seq(Unit) : u = Units(r)
    BY UnitsFacts
  <1>2. /\ Length(r) \in Nat /\ Length(r) >= 2 /\ Len(u) = Length(r)
        /\ \A i \in 1..Length(r) : u[i] = <<r, i>>
    BY <1>1, UnitsFacts DEF HeadUnits
  <1>3. PICK v \in Seq(Unit) : v = w \o u
    BY ConcatProperties
  <1>4. /\ Len(v) = Len(w) + Len(u) /\ Len(w) \in Nat
        /\ \A i \in 1..(Len(w) + Len(u)) : v[i] = IF i <= Len(w) THEN w[i] ELSE u[i - Len(w)]
    BY <1>3, ConcatProperties
  <1>5. \A i \in 1..Len(w) : i \in 1..Len(v) /\ v[i] = w[i]
    BY <1>2, <1>4
  <1>6. \A i \in 1..Len(v) : i > Len(w) => v[i] = <<r, i - Len(w)>>
    BY <1>2, <1>4
  <1>7. Complete(v)
    <2>1. Len(v) \in 1..Len(v) /\ Len(v) > Len(w) /\ Len(v) - Len(w) = Length(r)
      BY <1>2, <1>4
    <2>2. v[Len(v)] = <<r, Length(r)>>
      BY <1>6, <2>1
    <2> QED
      BY <2>2 DEF Complete
  <1>8. Stream(v)
    <2>1. SUFFICES ASSUME NEW i \in 1..Len(v), NEW j \in 1..Len(v), i <= j
                   PROVE  Behind(v[i], v[j], j - i)
      BY DEF Stream
    <2>2. CASE j <= Len(w)
      <3>1. i \in 1..Len(w) /\ j \in 1..Len(w)
        BY <1>4, <2>1, <2>2
      <3>2. Behind(w[i], w[j], j - i)
        BY <2>1, <3>1 DEF Stream
      <3> QED
        BY <1>5, <3>1, <3>2
    <2>3. CASE i > Len(w)
      <3>1. v[i] = <<r, i - Len(w)>> /\ v[j] = <<r, j - Len(w)>>
        BY <1>4, <1>6, <2>1, <2>3
      <3>2. v[i][1] = r /\ v[i][2] = i - Len(w)
        BY <3>1
      <3>3. (i - Len(w)) + (j - i) = j - Len(w) /\ j - Len(w) <= Length(r)
        BY <1>2, <1>4
      <3> QED
        BY <1>2, <3>1, <3>2, <3>3 DEF Behind
    <2>4. CASE i <= Len(w) /\ j > Len(w)
      <3>1. i \in 1..Len(w) /\ Len(w) \in 1..Len(w) /\ i <= Len(w) /\ w # <<>>
        BY <1>4, <2>4
      <3>2. PICK q \in Requests, p \in Nat \ {0} : w[i] = <<q, p>> /\ w[i][1] = q /\ w[i][2] = p
        <4>1. w[i] \in Unit
          BY <3>1
        <4> QED
          BY <4>1, UnitPair
      <3>3. Length(q) \in Nat
        BY UnitsFacts
      <3>4. p + (Len(w) - i) <= Length(q) => p + (Len(w) - i) = Length(q)
        <4>1. ASSUME p + (Len(w) - i) <= Length(q)
              PROVE  p + (Len(w) - i) = Length(q)
          <5>1. Behind(w[i], w[Len(w)], Len(w) - i)
            BY <3>1 DEF Stream
          <5>2. w[Len(w)] = <<q, p + (Len(w) - i)>>
            BY <3>2, <4>1, <5>1 DEF Behind
          <5>3. w[Len(w)][2] = Length(w[Len(w)][1])
            BY <3>1 DEF Complete
          <5> QED
            BY <5>2, <5>3
        <4> QED
          BY <4>1
      <3>5. ~(p + (j - i) <= Length(q))
        BY <1>4, <2>4, <3>1, <3>3, <3>4
      <3>6. p + (j - i) = Length(q) + 1 => j - Len(w) = 1
        BY <1>4, <2>4, <3>1, <3>3, <3>4
      <3>7. v[j] = <<r, j - Len(w)>> /\ v[i] = w[i]
        BY <1>5, <1>6, <2>4, <3>1
      <3> QED
        BY <3>2, <3>5, <3>6, <3>7 DEF Behind
    <2> QED
      BY <1>4, <2>2, <2>3, <2>4
  <1> QED
    BY <1>1, <1>3, <1>7, <1>8

(* What a client sends does not change what is due from the request served. *)
LEMMA FollowsSent ==
    ASSUME NEW w \in Seq(Unit), NEW r \in Requests, NEW k \in Nat, Follows(w, k, FALSE)
    PROVE  Follows(w \o Units(r), k, FALSE)
  <1>1. PICK u \in Seq(Unit) : u = Units(r)
    BY UnitsFacts
  <1>2. /\ Length(r) \in Nat /\ Length(r) >= 2 /\ Len(u) = Length(r)
        /\ \A i \in 1..Length(r) : u[i] = <<r, i>>
    BY <1>1, UnitsFacts DEF HeadUnits
  <1>3. PICK v \in Seq(Unit) : v = w \o u
    BY ConcatProperties
  <1>4. /\ Len(v) = Len(w) + Len(u) /\ Len(w) \in Nat
        /\ \A i \in 1..(Len(w) + Len(u)) : v[i] = IF i <= Len(w) THEN w[i] ELSE u[i - Len(w)]
    BY <1>3, ConcatProperties
  <1>5. v # <<>>
    BY <1>2, <1>4
  <1>6. CASE w # <<>>
    <2>1. Len(w) >= 1 /\ 1 \in 1..(Len(w) + Len(u))
      BY <1>2, <1>4, <1>6
    <2>2. v[1] = w[1]
      BY <1>4, <2>1
    <2> QED
      BY <1>1, <1>3, <1>5, <1>6, <2>2 DEF Follows, Due
  <1>7. CASE w = <<>>
    <2>1. k = 0
      BY <1>7 DEF Follows
    <2>2. Len(w) = 0 /\ 1 \in 1..(Len(w) + Len(u)) /\ 1 \in 1..Length(r) /\ 1 - Len(w) = 1
      BY <1>2, <1>7
    <2>3. v[1] = u[1] /\ u[1] = <<r, 1>>
      BY <1>2, <1>4, <2>2
    <2>4. v[1][2] = 1
      BY <2>3
    <2> QED
      BY <1>1, <1>3, <1>5, <2>1, <2>4 DEF Follows, Due
  <1> QED
    BY <1>6, <1>7

(* Nor does what a client that leaves does not send. *)
LEMMA FlowsPrefix ==
    ASSUME NEW w \in Seq(Unit), NEW u \in Seq(Unit), NEW gone, Flows(w \o u, gone)
    PROVE  Flows(w, TRUE)
  <1>1. PICK v \in Seq(Unit) : v = w \o u
    BY ConcatProperties
  <1>2. /\ Len(v) = Len(w) + Len(u) /\ Len(w) \in Nat /\ Len(u) \in Nat
        /\ \A i \in 1..(Len(w) + Len(u)) : v[i] = IF i <= Len(w) THEN w[i] ELSE u[i - Len(w)]
    BY <1>1, ConcatProperties
  <1>3. \A i \in 1..Len(w) : i \in 1..Len(v) /\ v[i] = w[i]
    BY <1>2
  <1>4. Stream(v)
    BY <1>1 DEF Flows
  <1>5. Stream(w)
    <2>1. SUFFICES ASSUME NEW i \in 1..Len(w), NEW j \in 1..Len(w), i <= j
                   PROVE  Behind(w[i], w[j], j - i)
      BY DEF Stream
    <2>2. i \in 1..Len(v) /\ j \in 1..Len(v) /\ v[i] = w[i] /\ v[j] = w[j]
      BY <1>3
    <2>3. Behind(v[i], v[j], j - i)
      BY <1>4, <2>1, <2>2 DEF Stream
    <2> QED
      BY <2>2, <2>3
  <1> QED
    BY <1>5 DEF Flows

LEMMA FollowsPrefix ==
    ASSUME NEW w \in Seq(Unit), NEW u \in Seq(Unit), NEW gone, NEW k \in Nat,
           Follows(w \o u, k, gone)
    PROVE  Follows(w, k, TRUE)
  <1>1. CASE w # <<>>
    <2>1. /\ Len(w \o u) = Len(w) + Len(u) /\ Len(w) \in Nat /\ Len(u) \in Nat
          /\ \A i \in 1..(Len(w) + Len(u)) :
                (w \o u)[i] = IF i <= Len(w) THEN w[i] ELSE u[i - Len(w)]
      BY ConcatProperties
    <2>2. Len(w) >= 1 /\ 1 \in 1..(Len(w) + Len(u))
      BY <1>1, <2>1
    <2>3. (w \o u)[1] = w[1]
      BY <2>1, <2>2
    <2>4. w \o u # <<>>
      BY <1>1, ConcatEqualIffEmpty
    <2> QED
      BY <1>1, <2>3, <2>4 DEF Follows, Due
  <1>2. CASE w = <<>>
    BY <1>2 DEF Follows, Due
  <1> QED
    BY <1>1, <1>2

(* What every step that takes n units from the wire has to show. *)
LEMMA StreamStep ==
    ASSUME SafeInv, StreamInv, eof' = eof, NEW n \in 0..Len(Wire), Wire' = From(Wire, n),
           Expects(c', unswallowed') =>
              \E k \in Nat : Follows(Wire, k, eof) /\ n <= k /\ Owed(c') = k - n
    PROVE  StreamInv'
  <1>1. Wire \in Seq(Unit) /\ eof \in BOOLEAN
    BY WireType, Zenon DEF SafeInv, TypeInv
  <1>0. PICK w \in Seq(Unit), g \in BOOLEAN : w = Wire /\ g = eof
    BY <1>1
  <1>2. PICK m \in 0..Len(w) : w = Wire /\ g = eof /\ m = n
    BY <1>0
  <1>3. Flows(w, g)
    BY <1>2 DEF StreamInv
  <1>4. Flows(From(w, m), g)
    BY <1>3, FlowsFrom
  <1>5. Wire' = From(w, m) /\ eof' = g
    BY <1>2
  <1>6. ASSUME Expects(c', unswallowed')
        PROVE  Follows(From(w, m), Owed(c'), g)
    <2>1. PICK k \in Nat : Follows(w, k, g) /\ m <= k /\ Owed(c') = k - m
      BY <1>2, <1>6
    <2>2. Follows(From(w, m), k - m, g)
      BY <1>3, <2>1, FollowsFrom
    <2> QED
      BY <2>1, <2>2
  <1> QED
    BY <1>4, <1>5, <1>6 DEF StreamInv

(* Most of them take none, and owe what they owed. *)
LEMMA StreamStill ==
    ASSUME SafeInv, StreamInv, eof' = eof, Wire' = Wire,
           Expects(c', unswallowed') =>
              Expects(c, unswallowed) /\ Owed(c') = Owed(c)
    PROVE  StreamInv'
  <1>1. Flows(Wire', eof')
    BY DEF StreamInv
  <1>2. ASSUME Expects(c', unswallowed')
        PROVE  Follows(Wire', Owed(c'), eof')
    BY <1>2 DEF StreamInv
  <1> QED
    BY <1>1, <1>2 DEF StreamInv

LEMMA OwedNat ==
    ASSUME SafeInv
    PROVE  Owed(c) \in Nat
  <1>1. c \in ConnStruct /\ ServingInv
    BY TypesNow
  <1>2. c.rlbytes \in Nat /\ c.sbytes \in Nat
    BY <1>1 DEF ConnStruct
  <1>3. CASE c.state = "nread"
    <2>1. c.cmd.value \in Nat
      BY <1>1, <1>3, ConnAssumption DEF ServingInv
    <2> QED
      BY <1>2, <1>3, <2>1 DEF Owed
  <1>4. CASE c.state # "nread"
    BY <1>2, <1>4 DEF Owed
  <1> QED
    BY <1>3, <1>4

LEMMA ClientStream ==
    ASSUME SafeInv, StreamInv, Client
    PROVE  StreamInv'
  <1>1. Wire \in Seq(Unit) /\ eof \in BOOLEAN /\ Owed(c) \in Nat /\ open \in BOOLEAN
    BY WireType, OwedNat, Zenon DEF SafeInv, TypeInv
  <1>2. CASE Connect
    <2>1. c' = ConnNew(c.sbytes) /\ ~open /\ inq' = inq /\ togo' = togo /\ eof' = eof
      BY <1>2 DEF Connect
    <2>2. Wire' = <<>>
      <3>1. c'.rbuf = <<>> /\ inq' = <<>> /\ togo' = <<>>
        BY <2>1 DEF ConnNew, SafeInv, IdleInv
      <3> QED
        BY <3>1 DEF Wire
    <2>3. Owed(c') = 0
      BY <2>1 DEF Owed, ConnNew
    <2> QED
      BY <2>2, <2>3 DEF StreamInv, Flows, Stream, Complete, Follows, Due
  <1>3. ASSUME NEW r \in Requests, ClientSend(r)
        PROVE  StreamInv'
    <2>1. /\ ~eof /\ eof' = eof /\ c' = c /\ unswallowed' = unswallowed
      BY <1>3 DEF ClientSend, histvars
    <2>2. PICK w \in Seq(Unit), k \in Nat : w = Wire /\ k = Owed(c)
      BY <1>1
    <2>3. Wire' = w \o Units(r)
      BY <1>3, <2>2, SendWire
    <2>4. Stream(w) /\ Complete(w)
      BY <2>1, <2>2 DEF StreamInv, Flows
    <2>5. Flows(w \o Units(r), FALSE)
      BY <2>4, FlowsConcat DEF Flows
    <2>6. ASSUME Expects(c', unswallowed')
          PROVE  Follows(w \o Units(r), k, FALSE)
      <3>1. Follows(w, k, FALSE)
        BY <1>1, <2>1, <2>2, <2>6 DEF StreamInv
      <3> QED
        BY <3>1, FollowsSent
    <2>7. eof' = FALSE /\ Owed(c') = k
      BY <1>1, <2>1, <2>2
    <2> QED
      BY <2>3, <2>5, <2>6, <2>7 DEF StreamInv
  <1>4. CASE ClientSendMore \/ ClientRead
    <2>1. c' = c /\ eof' = eof /\ unswallowed' = unswallowed
      BY <1>4 DEF ClientSendMore, ClientRead, netvars, histvars
    <2>2. Wire' = Wire
      BY <1>4, ClientSendMoreSafe, EventSafe
    <2> QED
      BY <2>1, <2>2, StreamStill
  <1>5. CASE ClientLeave
    <2>1. c' = c /\ eof' = TRUE /\ unswallowed' = unswallowed
      BY <1>5 DEF ClientLeave, histvars
    <2>2. Wire = Wire' \o togo /\ Wire' \in Seq(Unit) /\ togo \in Seq(Unit)
      BY <1>5, ClientLeaveSafe, TypesNow
    <2>3. PICK w \in Seq(Unit), u \in Seq(Unit), g \in BOOLEAN, k \in Nat :
              w = Wire' /\ u = togo /\ g = eof /\ k = Owed(c)
      BY <1>1, <2>2
    <2>4. Flows(w \o u, g)
      BY <2>2, <2>3 DEF StreamInv
    <2>5. Flows(w, TRUE) /\ (Follows(w \o u, k, g) => Follows(w, k, TRUE))
      <3>1. Flows(w, TRUE)
        BY <2>4, FlowsPrefix
      <3>2. ASSUME Follows(w \o u, k, g)
            PROVE  Follows(w, k, TRUE)
        BY <3>2, FollowsPrefix
      <3> QED
        BY <3>1, <3>2
    <2>6. Expects(c', unswallowed') => Follows(w \o u, k, g)
      BY <2>1, <2>2, <2>3 DEF StreamInv
    <2> QED
      BY <2>1, <2>3, <2>5, <2>6 DEF StreamInv
  <1> QED
    BY <1>2, <1>3, <1>4, <1>5 DEF Client

LEMMA ParseCmdStream ==
    ASSUME SafeInv, StreamInv, ParseCmd
    PROVE  StreamInv'
  <1>1. c \in ConnStruct /\ HangUpInv /\ unswallowed \in BOOLEAN
    BY TypesNow
  <1>2. c.state = "parse_cmd" /\ eof' = eof /\ inq' = inq /\ togo' = togo
    BY DEF ParseCmd, netvars
  <1>3. c.go # "closing" /\ Owed(c) = 0
    BY <1>1, <1>2 DEF HangUpInv, Owed
  <1>4. ASSUME NEW t, TakesRequest(t)
        PROVE  StreamInv'
    <2>1. /\ Taken(t, c') /\ t.cmd \in Requests /\ t.cmd = Wire[1][1] /\ Wire # <<>>
          /\ 2 \in 0..Len(Wire) /\ Wire' = From(Wire, 2)
          /\ unswallowed' = (unswallowed \/ NotSwallowed(t, c'))
      BY <1>4, Zenon DEF TakesRequest
    <2>2. Wire \in Seq(Unit) /\ eof \in BOOLEAN
      BY WireType, Zenon DEF SafeInv, TypeInv
    <2>3. PICK w \in Seq(Unit), g \in BOOLEAN : w = Wire /\ g = eof
      BY <2>2
    <2>4. w # <<>> /\ 2 \in 0..Len(w) /\ Flows(w, g) /\ w[1][1] = t.cmd
      BY <2>1, <2>3 DEF StreamInv
    <2>5. PICK n \in 0..Len(w) : n = 2
      BY <2>4
    <2>6. Flows(From(w, n), g)
      BY <2>4, FlowsFrom
    <2>7. ASSUME Expects(c', unswallowed')
          PROVE  Follows(From(w, 2), Owed(c'), g)
      <3>1. /\ c'.state \notin {"closing", "closed"} /\ c'.go # "closing" /\ ~unswallowed
            /\ ~NotSwallowed(t, c')
        BY <2>1, <2>7 DEF Expects
      <3>2. Follows(w, 0, g)
        BY <1>2, <1>3, <2>3, <3>1 DEF StreamInv, Expects
      <3>3. Follows(From(w, 2), Rest(w[1][1]), g)
        BY <2>4, <3>2, FollowsTaken
      <3>4. Owed(c') = Rest(t.cmd)
        BY <2>1, <3>1 DEF Taken
      <3> QED
        BY <2>4, <3>3, <3>4
    <2> QED
      BY <1>2, <2>1, <2>3, <2>5, <2>6, <2>7 DEF StreamInv
  <1>5. CASE TakesNothing
    <2>1. /\ c'.rbuf = c.rbuf /\ unswallowed' = unswallowed
          /\ c'.state \in {"parse_cmd", "waiting", "closing"}
      BY <1>5 DEF TakesNothing
    <2>2. Wire' = Wire
      BY <1>2, <2>1 DEF Wire
    <2>3. ASSUME Expects(c', unswallowed')
          PROVE  Expects(c, unswallowed) /\ Owed(c') = Owed(c)
      <3>1. Owed(c') = 0
        BY <2>1, <2>3 DEF Owed, Expects
      <3> QED
        BY <1>2, <1>3, <2>1, <2>3, <3>1 DEF Expects
    <2> QED
      BY <1>2, <2>2, <2>3, StreamStill
  <1> QED
    BY <1>4, <1>5, ParseCmdEffect

LEMMA NreadStream ==
    ASSUME SafeInv, StreamInv, Nread
    PROVE  StreamInv'
  <1>1. c \in ConnStruct /\ HangUpInv /\ ServingInv /\ unswallowed \in BOOLEAN
    BY TypesNow
  <1>2. c.state = "nread" /\ eof' = eof
    BY DEF Nread
  <1>3. c.go # "closing" /\ c.cmd \in Requests
    BY <1>1, <1>2 DEF HangUpInv, ServingInv
  <1>4. CASE HasAll
    <2>1. /\ Completed(c, c') /\ Wire' = Wire
          /\ unswallowed' = (unswallowed \/ NotSwallowed(c, c'))
      BY <1>4, HasAllCompleted
    <2>2. ASSUME Expects(c', unswallowed')
          PROVE  Expects(c, unswallowed) /\ Owed(c') = Owed(c)
      <3>1. ~unswallowed /\ ~NotSwallowed(c, c')
        BY <2>1, <2>2 DEF Expects
      <3>2. Owed(c') = Owed(c)
        BY <2>1, <3>1 DEF Completed
      <3> QED
        BY <1>2, <1>3, <3>1, <3>2 DEF Expects
    <2> QED
      BY <1>2, <2>1, <2>2, StreamStill
  <1>5. CASE ReadsOn
    <2>1. /\ c'.protocol = c.protocol /\ c'.go = c.go /\ c'.cmd = c.cmd
          /\ c'.substate = c.substate /\ unswallowed' = unswallowed
      BY <1>5 DEF ReadsOn
    <2>2. PICK n \in 0..Len(Wire) :
              /\ Wire' = From(Wire, n)
              /\ n <= c.rlbytes
              /\ \/ c'.state = "nread" /\ c'.rlbytes = c.rlbytes - n
                 \/ eof /\ c'.state = "closing"
      BY <1>5 DEF ReadsOn
    <2>3. PICK v \in Nat : v = (IF c.protocol = "binary" /\ c.substate = "key" THEN c.cmd.value ELSE 0)
      BY <1>3, ConnAssumption
    <2>4. Owed(c) = c.rlbytes + v
      BY <1>2, <2>3 DEF Owed
    <2>5. c.rlbytes \in Nat
      BY <1>1 DEF ConnStruct
    <2>6. ASSUME Expects(c', unswallowed')
          PROVE  \E k \in Nat : Follows(Wire, k, eof) /\ n <= k /\ Owed(c') = k - n
      <3>1. c'.state = "nread" /\ c'.rlbytes = c.rlbytes - n
        BY <2>2, <2>6 DEF Expects
      <3>2. Owed(c') = (c.rlbytes - n) + v
        BY <2>1, <2>3, <3>1 DEF Owed
      <3>3. Expects(c, unswallowed)
        BY <1>2, <1>3, <2>1, <2>6 DEF Expects
      <3>4. PICK k \in Nat : k = c.rlbytes + v
        BY <2>5
      <3>5. Follows(Wire, k, eof)
        BY <2>4, <3>3, <3>4 DEF StreamInv
      <3>6. n <= k /\ Owed(c') = k - n
        BY <2>2, <2>5, <3>2, <3>4
      <3> QED
        BY <3>5, <3>6
    <2> QED
      BY <1>2, <2>2, <2>6, StreamStep
  <1> QED
    BY <1>4, <1>5, NreadEffect

LEMMA SwallowStream ==
    ASSUME SafeInv, StreamInv, Swallow
    PROVE  StreamInv'
  <1>1. c \in ConnStruct /\ unswallowed \in BOOLEAN
    BY TypesNow
  <1>2. /\ c.state = "swallow" /\ eof' = eof /\ unswallowed' = unswallowed /\ c'.go = c.go
    BY SwallowEffect DEF Swallow
  <1>3. PICK n \in 0..Len(Wire) :
            /\ Wire' = From(Wire, n)
            /\ n <= c.sbytes
            /\ \/ c.sbytes = 0 /\ c'.state = "new_cmd"
               \/ c'.state = "swallow" /\ c'.sbytes = c.sbytes - n
               \/ eof /\ c'.state = "closing"
    BY SwallowEffect
  <1>4. c.sbytes \in Nat /\ Owed(c) = c.sbytes
    BY <1>1, <1>2 DEF ConnStruct, Owed
  <1>5. ASSUME Expects(c', unswallowed')
        PROVE  \E k \in Nat : Follows(Wire, k, eof) /\ n <= k /\ Owed(c') = k - n
    <2>1. Expects(c, unswallowed)
      BY <1>2, <1>5 DEF Expects
    <2>2. Follows(Wire, c.sbytes, eof)
      BY <1>4, <2>1 DEF StreamInv
    <2>3. CASE c.sbytes = 0 /\ c'.state = "new_cmd"
      <3>1. Owed(c') = 0
        BY <2>3 DEF Owed
      <3>2. n = 0
        BY <1>3, <2>3
      <3>3. Owed(c') = c.sbytes - n
        BY <2>3, <3>1, <3>2
      <3> QED
        BY <1>3, <1>4, <2>2, <3>3
    <2>4. CASE c'.state = "swallow" /\ c'.sbytes = c.sbytes - n
      <3>1. Owed(c') = c.sbytes - n
        BY <2>4 DEF Owed
      <3> QED
        BY <1>3, <1>4, <2>2, <3>1
    <2> QED
      BY <1>3, <1>5, <2>3, <2>4 DEF Expects
  <1> QED
    BY <1>2, <1>3, <1>5, StreamStep

LEMMA TransmitStream ==
    ASSUME SafeInv, StreamInv, Transmit
    PROVE  StreamInv'
  <1>1. c \in ConnStruct
    BY TypesNow
  <1>2. /\ c.state \in {"write", "mwrite"} /\ eof' = eof /\ unswallowed' = unswallowed
    BY DEF Transmit, netvars
  <1>3. /\ c'.protocol = c.protocol /\ c'.go = c.go /\ c'.sbytes = c.sbytes
        /\ \/ c'.state = IF c.state = "mwrite" /\ c.protocol # "binary" THEN "new_cmd" ELSE c.go
           \/ c'.state = c.state
           \/ c'.state = "closing"
    BY TransmitEffect
  <1>4. Wire' = Wire
    BY TransmitSafe
  <1>5. ASSUME Expects(c', unswallowed')
        PROVE  Expects(c, unswallowed) /\ Owed(c') = Owed(c)
    <2>1. Expects(c, unswallowed) /\ c.go \in {"new_cmd", "swallow"}
      BY <1>1, <1>2, <1>3, <1>5 DEF Expects, ConnStruct
    <2>2. CASE c'.state = IF c.state = "mwrite" /\ c.protocol # "binary" THEN "new_cmd" ELSE c.go
      <3>1. CASE c.state = "mwrite" /\ c.protocol # "binary"
        <4>1. Owed(c) = 0 /\ Owed(c') = 0
          BY <2>2, <3>1 DEF Owed
        <4> QED
          BY <2>1, <4>1
      <3>2. CASE ~(c.state = "mwrite" /\ c.protocol # "binary") /\ c.go = "new_cmd"
        <4>1. Owed(c) = 0 /\ Owed(c') = 0
          BY <1>2, <2>2, <3>2 DEF Owed
        <4> QED
          BY <2>1, <4>1
      <3>3. CASE ~(c.state = "mwrite" /\ c.protocol # "binary") /\ c.go = "swallow"
        <4>1. Owed(c) = c.sbytes /\ Owed(c') = c'.sbytes
          BY <1>2, <2>2, <3>3 DEF Owed
        <4> QED
          BY <1>3, <2>1, <4>1
      <3> QED
        BY <2>1, <3>1, <3>2, <3>3
    <2>3. CASE c'.state = c.state
      <3>1. Owed(c') = Owed(c)
        BY <1>2, <1>3, <2>3 DEF Owed
      <3> QED
        BY <2>1, <3>1
    <2>4. CASE c'.state = "closing"
      BY <1>5, <2>4 DEF Expects
    <2> QED
      BY <1>3, <2>2, <2>3, <2>4
  <1> QED
    BY <1>2, <1>4, <1>5, StreamStill

LEMMA NextStream ==
    ASSUME SafeInv, StreamInv, [Next]_vars
    PROVE  StreamInv'
  <1>1. c \in ConnStruct
    BY TypesNow
  <1>2. CASE ParseCmd \/ Nread \/ Swallow \/ Transmit
    BY <1>2, ParseCmdStream, NreadStream, SwallowStream, TransmitStream
  <1>3. CASE Client
    BY <1>3, ClientStream
  <1>4. CASE Event
    <2>1. c' = c /\ eof' = eof /\ unswallowed' = unswallowed
      BY <1>4 DEF Event, netvars, histvars
    <2>2. Wire' = Wire
      BY <1>4, EventSafe
    <2> QED
      BY <2>1, <2>2, StreamStill
  <1>5. CASE NewCmd
    <2>1. /\ c'.go = c.go /\ c'.state \in {"new_cmd", "parse_cmd", "waiting"}
      BY <1>5, NewCmdEffect
    <2>2. c.state = "new_cmd" /\ eof' = eof /\ unswallowed' = unswallowed
      BY <1>5 DEF NewCmd, netvars
    <2>3. Wire' = Wire
      BY <1>5, NewCmdSafe
    <2>4. Owed(c) = 0 /\ Owed(c') = 0
      BY <2>1, <2>2 DEF Owed
    <2> QED
      BY <2>1, <2>2, <2>3, <2>4, StreamStill DEF Expects
  <1>6. CASE Waiting
    <2>1. c' = [c EXCEPT !.ev = "READ", !.state = "read"]
      BY <1>6 DEF Waiting, Stop
    <2>2. c'.state = "read" /\ c'.go = c.go
      BY <1>1, <2>1 DEF ConnStruct
    <2>3. c.state = "waiting" /\ eof' = eof /\ unswallowed' = unswallowed
      BY <1>6 DEF Waiting, netvars, histvars
    <2>4. Wire' = Wire
      BY <1>6, WaitingSafe
    <2>5. Owed(c) = 0 /\ Owed(c') = 0
      BY <2>2, <2>3 DEF Owed
    <2> QED
      BY <2>2, <2>3, <2>4, <2>5, StreamStill DEF Expects
  <1>7. CASE Read
    <2>1. c'.go = c.go /\ Wire' = Wire /\ c'.state \in {"parse_cmd", "closing"}
      BY <1>7, ReadEffect
    <2>2. c.state = "read" /\ eof' = eof /\ unswallowed' = unswallowed
      BY <1>7 DEF Read, histvars
    <2>3. Owed(c) = 0 /\ Owed(c') = 0
      BY <2>1, <2>2 DEF Owed
    <2> QED
      BY <2>1, <2>2, <2>3, StreamStill DEF Expects
  <1>8. CASE Closing
    <2>1. PICK sbytes : c' = [ConnNew(sbytes) EXCEPT !.state = "closed"]
      BY <1>8 DEF Closing, Stop
    <2>2. c'.rbuf = <<>> /\ c'.state = "closed"
      BY <2>1 DEF ConnNew
    <2>3. inq' = <<>> /\ togo' = <<>>
      BY <1>8 DEF Closing
    <2>4. Wire' = <<>>
      BY <2>2, <2>3 DEF Wire
    <2> QED
      BY <2>2, <2>4 DEF StreamInv, Flows, Stream, Complete, Expects
  <1>9. CASE UNCHANGED vars
    <2>1. c' = c /\ eof' = eof /\ unswallowed' = unswallowed /\ inq' = inq /\ togo' = togo
      BY <1>9 DEF vars
    <2>2. Wire' = Wire
      BY <2>1 DEF Wire
    <2> QED
      BY <2>1, <2>2, StreamStill
  <1> QED
    BY <1>2, <1>3, <1>4, <1>5, <1>6, <1>7, <1>8, <1>9 DEF Next, DriveMachine

LEMMA InitStream == Init => StreamInv
  <1>1. SUFFICES ASSUME Init
                 PROVE  StreamInv
    OBVIOUS
  <1>2. c = [ConnNew(0) EXCEPT !.state = "closed"] /\ inq = <<>> /\ togo = <<>>
    BY <1>1 DEF Init
  <1>3. c.rbuf = <<>> /\ c.state = "closed"
    BY <1>2 DEF ConnNew
  <1>4. Wire = <<>>
    BY <1>2, <1>3 DEF Wire
  <1> QED
    BY <1>3, <1>4 DEF StreamInv, Flows, Stream, Complete, Expects

(* drive_machine() looks for the next command only at the first unit of a   *)
(* request: what conn_nread and conn_swallow take is what the request has,  *)
(* however it was cut, buffered or refused, except after what unswallowed   *)
(* records.                                                                 *)
THEOREM AlignedAlways == Spec => []AlignedUnlessUnswallowed
  <1>1. Init => SafeInv /\ StreamInv
    BY InitSafe, InitStream
  <1>2. SafeInv /\ StreamInv /\ [Next]_vars => (SafeInv /\ StreamInv)'
    BY NextSafe, NextStream
  <1>3. SafeInv /\ StreamInv => AlignedUnlessUnswallowed
    <2>1. SUFFICES ASSUME SafeInv, StreamInv, c.rbuf \o inq # <<>>, ~unswallowed,
                          c.state \in {"new_cmd", "waiting", "read", "parse_cmd"}
                   PROVE  Head(c.rbuf \o inq)[2] = 1
      BY DEF AlignedUnlessUnswallowed
    <2>2. /\ c \in ConnStruct /\ HangUpInv /\ c.rbuf \o inq \in Seq(Unit) /\ togo \in Seq(Unit)
      BY <2>1, WireType, TypesNow DEF SafeInv
    <2>3. Expects(c, unswallowed) /\ Owed(c) = 0
      BY <2>1, <2>2 DEF Expects, HangUpInv, Owed
    <2>4. Due(Wire, 0)
      BY <2>1, <2>3 DEF StreamInv, Follows
    <2>5. PICK b \in Seq(Unit), u \in Seq(Unit) : b = c.rbuf \o inq /\ u = togo
      BY <2>2
    <2>6. b # <<>> /\ Wire = b \o u
      BY <2>1, <2>5 DEF Wire
    <2>7. Head(b) = b[1] /\ Len(b) >= 1
      BY <2>6
    <2>8. /\ Len(b) \in Nat /\ Len(u) \in Nat
          /\ \A i \in 1..(Len(b) + Len(u)) : (b \o u)[i] = IF i <= Len(b) THEN b[i] ELSE u[i - Len(b)]
      BY ConcatProperties
    <2>9. (b \o u)[1] = b[1]
      <3>1. 1 \in 1..(Len(b) + Len(u)) /\ 1 <= Len(b)
        BY <2>7, <2>8
      <3> QED
        BY <2>8, <3>1
    <2>10. b \o u # <<>>
      BY <2>6, ConcatEqualIffEmpty
    <2> QED
      BY <2>4, <2>5, <2>6, <2>7, <2>9, <2>10 DEF Due
  <1> QED
    BY <1>1, <1>2, <1>3, PTL DEF Spec
=============================================================================
