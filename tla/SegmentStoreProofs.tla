------------------------- MODULE SegmentStoreProofs -------------------------
(***************************************************************************)
(* Proofs about SegmentStore, for every layout a request body may have and *)
(* every read that ends inside one: types, the accounting of segments and  *)
(* files, the order of what is stored and the durability of what is        *)
(* confirmed.                                                              *)
(***************************************************************************)
EXTENDS SegmentStore, FiniteSetTheorems, FunctionTheorems, TLAPS

\* The length of a segment's commands, and the functions that add it up.
SumStep(lets, f) ==
    [k \in 0..Len(lets) |-> IF k = 0 THEN 0 ELSE f[k-1] + SegletLen(lets[k])]
Total(lets) ==
    LET total[k \in 0..Len(lets)] == IF k = 0 THEN 0 ELSE total[k-1] + SegletLen(lets[k])
    IN  total[Len(lets)]

\* The list never holds two segments, what it holds is counted right, and an
\* overflowing segment never stays in it.
ListInv ==
    /\ Len(segment) <= 1
    /\ segment # <<>> => used
    /\ \A i \in DOMAIN segment :
          /\ segment[i].lets # <<>>
          /\ segment[i].segletnum = Len(segment[i].lets)
          /\ segment[i].capacity >= 0
          /\ segment[i].capacity = MAX_SEGMENT_CAPACITY - Total(segment[i].lets)
    /\ \A f \in disk : f.num = Len(f.lets)

\* The number of the last command of primary a that has been handled, when cl is
\* the running call and each primary b has sent ns[b] commands.
Handled(cl, ns, a) == IF cl.busy /\ cl.addr = a THEN ns[a] - Len(cl.rest) ELSE ns[a]

\* lets are the commands of a that end with the n-th.
RunTo(lets, a, n) == \A i \in DOMAIN lets : Intact(lets[i], a, n - Len(lets) + i)

\* lets are commands of a, in order, up to the n-th.
RiseTo(lets, a, n) == Rising(lets, a) /\ \A i \in DOMAIN lets : lets[i][1].n <= n

\* RunOf, when the primaries d have sent bodies that are not plain and reads of
\* the primaries t have ended inside a request.
RunAs(lets, a, d, t) ==
    a \in Primaries \ d => Rising(lets, a) /\ (a \notin t => Consecutive(lets))

\* A call under the address of a primary has the last commands of it left, and
\* the segment in memory ends with the last command handled.
CallOrder(cl, ns, d) ==
    cl.busy /\ cl.addr \in Primaries \ d =>
        /\ Len(cl.rest) <= ns[cl.addr]
        /\ RunTo(cl.rest, cl.addr, ns[cl.addr])
        /\ cl.first => cl.rest # <<>>
SegmentOrder(seg, cl, ns, d, t) ==
    seg.addr \in Primaries \ d =>
        /\ RiseTo(seg.lets, seg.addr, Handled(cl, ns, seg.addr))
        /\ seg.addr \notin t => RunTo(seg.lets, seg.addr, Handled(cl, ns, seg.addr))

\* The call and the segment are of a primary that has sent something, under its
\* address unless it is one of x.
SentBy(addr, b, ns, x) == b \in Primaries /\ ns[b] > 0 /\ (addr = b \/ b \in x)
OrderInv ==
    /\ CallOrder(call, nsent, odd)
    /\ call.busy => SentBy(call.addr, call.req[1], nsent, odd \cup cut)
    /\ \A i \in DOMAIN segment :
          /\ SegmentOrder(segment[i], call, nsent, odd, cut)
          /\ \E b : SentBy(segment[i].addr, b, nsent, odd \cup cut)
    /\ \A f \in disk : RunAs(f.lets, f.dir[Len(f.dir)], odd, cut)
    /\ \A a \in Primaries : RunAs(sentBack[a], a, odd, cut)

\* The hypotheses of SingleWriterDurable.
Alone(a) ==
    /\ \A b \in Primaries \ {a} : nsent[b] = 0
    /\ a \notin odd /\ a \notin cut
    /\ faults = 0 /\ restarts = 0
    /\ written = Cardinality(disk)
    /\ up \in {"running", "segv in append"}

\* Files are at most as many as have been written (fewer when one replaced
\* another).  The command a call will confirm is its first; under the hypotheses
\* it is held as soon as it has been handled.
FilesInv == IsFiniteSet(disk) /\ Cardinality(disk) <= written
DurableInv ==
    \A a \in Primaries : Alone(a) =>
        /\ AckedHeld
        /\ call.busy /\ call.first => call.req = <<a, nsent[a] - Len(call.rest) + 1>>
        /\ call.busy /\ ~call.first => Held(call.req[1], call.req[2])

-----------------------------------------------------------------------------
\* A set of numbers that is not empty has a least one: the intervals below its
\* members are well-founded by inclusion.
LEMMA LeastNumber ==
  ASSUME NEW S \in SUBSET Nat, S # {}
  PROVE  \E m \in S : \A k \in S : m <= k
<1> DEFINE T == {1..m : m \in S}
<1>1. T \subseteq FiniteSubsetsOf(Nat) /\ T # {}
  <2>1. ASSUME NEW m \in S
        PROVE  1..m \in FiniteSubsetsOf(Nat)
    <3>1. m \in Int /\ 1 \in Int
      OBVIOUS
    <3>2. IsFiniteSet(1..m) /\ 1..m \subseteq Nat
      BY <3>1, FS_Interval
    <3> QED
      BY <3>2 DEF FiniteSubsetsOf
  <2> QED
    BY <2>1
<1>2. PICK x \in T : \A y \in T : <<y, x>> \notin StrictSubsetOrdering(Nat)
  BY <1>1, FS_StrictSubsetOrderingWellFounded, WFMin
<1>3. PICK m \in S : x = 1..m
  BY <1>2
<1>4. ASSUME NEW k \in S, k < m
      PROVE  FALSE
  <2>1. 1..k \subseteq 1..m /\ m \in 1..m /\ m \notin 1..k
    BY <1>4
  <2>2. <<1..k, 1..m>> \in StrictSubsetOrdering(Nat)
    BY <2>1 DEF StrictSubsetOrdering
  <2> QED
    BY <1>2, <1>3, <2>2
<1> QED
  BY <1>4

-----------------------------------------------------------------------------
(***************************************************************************)
(* The length of a sequence of seglets.                                    *)
(***************************************************************************)

\* A seglet's length is a number.
LEMMA SegletLenType ==
  ASSUME NEW c \in Seglet
  PROVE  SegletLen(c) \in Nat
<1>1. c[1] \in Line /\ c[2] \in Line
  BY DEF Seglet
<1>2. \A l \in Line : l.len \in Nat
  BY DEF Line
<1> QED
  BY <1>1, <1>2 DEF SegletLen

\* There is a function that adds up lengths: it is extended one by one.
LEMMA SumExists ==
  ASSUME NEW lets \in Seq(Seglet)
  PROVE  \E f : f = SumStep(lets, f)
<1> DEFINE part(k) == \E f : f = [i \in 0..k |->
                               IF i = 0 THEN 0 ELSE f[i-1] + SegletLen(lets[i])]
           S == {k \in Nat : ~part(k)}
<1>1. part(0)
  <2> DEFINE f == [i \in 0..0 |-> 0]
  <2>1. f = [i \in 0..0 |-> IF i = 0 THEN 0 ELSE f[i-1] + SegletLen(lets[i])]
    OBVIOUS
  <2> QED
    BY <2>1
<1>2. ASSUME NEW k \in Nat, part(k)
      PROVE  part(k + 1)
  <2>1. PICK f : f = [i \in 0..k |-> IF i = 0 THEN 0 ELSE f[i-1] + SegletLen(lets[i])]
    BY <1>2
  <2> DEFINE g == [i \in 0..(k + 1) |-> IF i <= k THEN f[i] ELSE f[k] + SegletLen(lets[k + 1])]
             h == [i \in 0..(k + 1) |-> IF i = 0 THEN 0 ELSE g[i-1] + SegletLen(lets[i])]
  <2>2. ASSUME NEW i \in 0..(k + 1)
        PROVE  g[i] = h[i]
    <3>1. CASE i = 0
      BY <2>1, <3>1
    <3>2. CASE i \in 1..k
      <4>1. g[i] = f[i] /\ g[i - 1] = f[i - 1]
        BY <3>2
      <4>2. f[i] = f[i - 1] + SegletLen(lets[i])
        BY <2>1, <3>2
      <4> QED
        BY <3>2, <4>1, <4>2
    <3>3. CASE i = k + 1
      <4>1. g[i] = f[k] + SegletLen(lets[i]) /\ g[i - 1] = f[k]
        BY <3>3
      <4> QED
        BY <3>3, <4>1
    <3> QED
      BY <3>1, <3>2, <3>3
  <2>3. g = h
    BY <2>2
  <2> QED
    BY <2>3
<1> HIDE DEF part
<1>3. S = {}
  <2> SUFFICES ASSUME S # {} PROVE FALSE
    OBVIOUS
  <2>1. PICK m \in S : \A k \in S : m <= k
    BY LeastNumber
  <2>2. m # 0 /\ m - 1 \in Nat /\ m - 1 \notin S
    BY <1>1, <2>1
  <2> QED
    BY <1>2, <2>1, <2>2
<1>4. part(Len(lets))
  BY <1>3
<1> QED
  BY <1>4 DEF part, SumStep

\* Two such functions agree as far as the sequences do.
LEMMA SumAgree ==
  ASSUME NEW p \in Seq(Seglet), NEW q \in Seq(Seglet), NEW n \in Nat,
         n <= Len(p), n <= Len(q), \A i \in 1..n : p[i] = q[i],
         NEW f, f = SumStep(p, f), NEW g, g = SumStep(q, g)
  PROVE  f[n] = g[n] /\ f[n] \in Nat
<1> DEFINE S == {k \in 0..n : ~(f[k] = g[k] /\ f[k] \in Nat)}
<1>1. S \in SUBSET Nat
  OBVIOUS
<1>2. ASSUME S # {}
      PROVE  FALSE
  <2>1. PICK m \in S : \A k \in S : m <= k
    BY <1>1, <1>2, LeastNumber
  <2>2. f[0] = 0 /\ g[0] = 0
    BY DEF SumStep
  <2>3. m # 0 /\ m \in 1..n /\ m - 1 \in 0..n /\ m - 1 \notin S
    BY <2>1, <2>2
  <2>4. f[m] = f[m - 1] + SegletLen(p[m]) /\ g[m] = g[m - 1] + SegletLen(q[m])
    <3>1. m \in 0..Len(p) /\ m \in 0..Len(q) /\ m # 0
      BY <2>3
    <3>2. f = SumStep(p, f) /\ g = SumStep(q, g)
      OBVIOUS
    <3> QED
      BY <3>1, <3>2, Zenon DEF SumStep
  <2>5. p[m] = q[m] /\ SegletLen(p[m]) \in Nat
    BY <2>3, SegletLenType
  <2> QED
    BY <2>1, <2>3, <2>4, <2>5
<1>3. n \in 0..n /\ n \notin S
  BY <1>2
<1> QED
  BY <1>3

\* What the recursive definition is: the value of such a function.
LEMMA TotalIs ==
  ASSUME NEW lets \in Seq(Seglet)
  PROVE  \E f : f = SumStep(lets, f) /\ Total(lets) = f[Len(lets)]
<1> DEFINE F == CHOOSE f : f = SumStep(lets, f)
<1>1. F = SumStep(lets, F)
  BY SumExists
<1>2. Total(lets) = F[Len(lets)]
  BY Zenon DEF Total, SumStep
<1> QED
  BY <1>1, <1>2

\* The length of one command.
LEMMA TotalOne ==
  ASSUME NEW c \in Seglet
  PROVE  <<c>> \in Seq(Seglet) /\ Total(<<c>>) = SegletLen(c)
<1>1. <<c>> \in Seq(Seglet) /\ Len(<<c>>) = 1 /\ <<c>>[1] = c
  OBVIOUS
<1>2. PICK f : f = SumStep(<<c>>, f) /\ Total(<<c>>) = f[1]
  BY <1>1, TotalIs
<1>3. f[1] = f[0] + SegletLen(c) /\ f[0] = 0
  BY <1>1, <1>2 DEF SumStep
<1> QED
  BY <1>1, <1>2, <1>3, SegletLenType

\* The length of one command more.
LEMMA TotalAppend ==
  ASSUME NEW lets \in Seq(Seglet), NEW c \in Seglet
  PROVE  /\ Total(lets) \in Nat
         /\ Total(Append(lets, c)) = Total(lets) + SegletLen(c)
<1> DEFINE n == Len(lets)
           q == Append(lets, c)
<1>1. /\ n \in Nat /\ q \in Seq(Seglet) /\ Len(q) = n + 1 /\ q[n + 1] = c
      /\ \A i \in 1..n : lets[i] = q[i]
  OBVIOUS
<1>2. PICK f : f = SumStep(lets, f) /\ Total(lets) = f[n]
  BY TotalIs
<1>3. PICK g : g = SumStep(q, g) /\ Total(q) = g[n + 1]
  BY <1>1, TotalIs
<1> HIDE DEF n, q
<1>4. f[n] = g[n] /\ f[n] \in Nat
  <2>1. n <= Len(lets) /\ n <= Len(q)
    BY <1>1 DEF n
  <2> QED
    BY <1>1, <1>2, <1>3, <2>1, SumAgree
<1>5. g[n + 1] = g[n] + SegletLen(c)
  <2>1. n + 1 \in 0..Len(q) /\ n + 1 # 0 /\ (n + 1) - 1 = n
    BY <1>1
  <2> QED
    BY <1>1, <1>3, <2>1 DEF SumStep
<1> QED
  BY <1>2, <1>3, <1>4, <1>5 DEF q

-----------------------------------------------------------------------------
(***************************************************************************)
(* What one read of the socket returns.                                    *)
(***************************************************************************)

\* The functions that join the bodies of a read.
JoinStep(a, first, b, f) ==
    [i \in 1..Len(b) |->
        IF i = 1 THEN b[1] ELSE Append(f[i-1], ReqLine(a, first + i - 1)) \o b[i]]

\* A sequence of three lines, or of four.
LEMMA LinesOf ==
  ASSUME NEW S, NEW x \in S, NEW y \in S, NEW z \in S, NEW u \in S
  PROVE  /\ <<x, y, z>> \in Seq(S) /\ Len(<<x, y, z>>) = 3 /\ <<x, y, z>>[3] = z
         /\ <<x, y, z, u>> \in Seq(S) /\ Len(<<x, y, z, u>>) = 4
         /\ <<x, y, z, u>>[4] = u
OBVIOUS

\* A body is a sequence of lines; its last one names the sender, or nobody.
LEMMA BodyType ==
  ASSUME NEW a \in Primaries, NEW n \in Nat, NEW shape, NEW len \in Nat
  PROVE  LET b == Body(a, n, shape, len)
         IN  b \in Seq(Line) /\ b # <<>> /\ b[Len(b)].from \in {a, Garbled}
<1> DEFINE L(kind, from, l) == [kind |-> kind, from |-> from, n |-> n, len |-> l]
           set == L("set", a, 1)
           addr == L("addr", IF shape = "glued" THEN Garbled ELSE a, 1)
<1>1. /\ set \in Line /\ addr \in Line /\ addr.from \in {a, Garbled}
      /\ L("part", a, len) \in Line /\ L("rest", a, 1) \in Line
      /\ L("val", a, len) \in Line /\ L("junk", a, 1) \in Line
  BY DEF Line, Addrs
<1>2. CASE shape = "split"
  <2>1. Body(a, n, shape, len) = <<set, L("part", a, len), L("rest", a, 1), addr>>
    BY <1>2 DEF Body
  <2> HIDE DEF L, set, addr
  <2> QED
    BY <1>1, <2>1, LinesOf
<1>3. CASE shape = "stale"
  <2>1. Body(a, n, shape, len) = <<set, L("val", a, len), L("junk", a, 1), addr>>
    BY <1>3 DEF Body
  <2> HIDE DEF L, set, addr
  <2> QED
    BY <1>1, <2>1, LinesOf
<1>4. CASE shape # "split" /\ shape # "stale"
  <2>1. Body(a, n, shape, len) = <<set, L("val", a, len), addr>>
    BY <1>4 DEF Body
  <2> HIDE DEF L, set, addr
  <2> QED
    BY <1>1, <2>1, LinesOf
<1> QED
  BY <1>2, <1>3, <1>4

\* A plain body is "set", value and address.
LEMMA BodyPlain ==
  ASSUME NEW a \in Primaries, NEW n \in Nat, NEW len \in Nat
  PROVE  \E b : /\ b = Body(a, n, "plain", len)
                /\ Len(b) = 3 /\ Intact(<<b[1], b[2]>>, a, n) /\ b[3].from = a
<1> DEFINE L(kind, l) == [kind |-> kind, from |-> a, n |-> n, len |-> l]
           b == <<L("set", 1), L("val", len), L("addr", 1)>>
<1>1. b = Body(a, n, "plain", len)
  BY DEF Body
<1>2. Len(b) = 3 /\ Intact(<<b[1], b[2]>>, a, n) /\ b[3].from = a
  BY DEF Intact
<1> QED
  BY <1>1, <1>2

\* What two sequences make when they are joined.
LEMMA ConcatFacts ==
  ASSUME NEW S, NEW q \in Seq(S), NEW r \in Seq(S)
  PROVE  /\ q \o r \in Seq(S) /\ Len(q \o r) = Len(q) + Len(r)
         /\ \A i \in 1..Len(q) : (q \o r)[i] = q[i]
         /\ \A i \in 1..Len(r) : (q \o r)[Len(q) + i] = r[i]
OBVIOUS

\* The line between two bodies.
LEMMA ReqLineType ==
  ASSUME NEW a \in Primaries, NEW n \in Nat
  PROVE  ReqLine(a, n) \in Line
BY DEF ReqLine, Line, Addrs

\* There is a function that joins the bodies: it is extended one by one.
LEMMA JoinExists ==
  ASSUME NEW a, NEW first, NEW b, Len(b) \in Nat
  PROVE  \E f : f = JoinStep(a, first, b, f)
<1> DEFINE more(s, i) == Append(s, ReqLine(a, first + i - 1)) \o b[i]
           part(k) == \E f : f = [i \in 1..k |-> IF i = 1 THEN b[1] ELSE more(f[i-1], i)]
           S == {k \in Nat : ~part(k)}
<1> HIDE DEF more
<1>1. part(0)
  <2> DEFINE f == [i \in 1..0 |-> 0]
  <2>1. f = [i \in 1..0 |-> IF i = 1 THEN b[1] ELSE more(f[i-1], i)]
    OBVIOUS
  <2> QED
    BY <2>1
<1>2. ASSUME NEW k \in Nat, part(k)
      PROVE  part(k + 1)
  <2>1. PICK f : f = [i \in 1..k |-> IF i = 1 THEN b[1] ELSE more(f[i-1], i)]
    BY <1>2
  <2> DEFINE g == [i \in 1..(k + 1) |-> IF i <= k THEN f[i]
                                        ELSE IF i = 1 THEN b[1] ELSE more(f[k], i)]
             h == [i \in 1..(k + 1) |-> IF i = 1 THEN b[1] ELSE more(g[i-1], i)]
  <2>2. ASSUME NEW i \in 1..(k + 1)
        PROVE  g[i] = h[i]
    <3>1. CASE i = 1
      BY <2>1, <3>1
    <3>2. CASE i \in 2..k
      <4>1. g[i] = f[i] /\ g[i - 1] = f[i - 1]
        BY <3>2
      <4>2. f[i] = more(f[i - 1], i)
        BY <2>1, <3>2
      <4> QED
        BY <3>2, <4>1, <4>2
    <3>3. CASE i = k + 1 /\ i # 1
      <4>1. g[i] = more(f[k], i) /\ g[i - 1] = f[k]
        BY <3>3
      <4> QED
        BY <3>3, <4>1
    <3> QED
      BY <3>1, <3>2, <3>3
  <2>3. g = h
    BY <2>2
  <2> QED
    BY <2>3
<1> HIDE DEF part
<1>3. S = {}
  <2> SUFFICES ASSUME S # {} PROVE FALSE
    OBVIOUS
  <2>1. PICK m \in S : \A k \in S : m <= k
    BY LeastNumber
  <2>2. m # 0 /\ m - 1 \in Nat /\ m - 1 \notin S
    BY <1>1, <2>1
  <2> QED
    BY <1>2, <2>1, <2>2
<1>4. part(Len(b))
  BY <1>3
<1> QED
  BY <1>4 DEF part, more, JoinStep

\* What the handler is given is the value of such a function.
LEMMA LeftComIs ==
  ASSUME NEW a, NEW first, NEW b, Len(b) \in Nat
  PROVE  \E f : f = JoinStep(a, first, b, f) /\ LeftCom(a, first, b) = f[Len(b)]
<1> DEFINE F == CHOOSE f : f = JoinStep(a, first, b, f)
<1>1. F = JoinStep(a, first, b, F)
  BY JoinExists
<1>2. LeftCom(a, first, b) = F[Len(b)]
  BY Zenon DEF LeftCom, JoinStep
<1> QED
  BY <1>1, <1>2

\* The bodies of a read are joined to a sequence of lines, the last of which is
\* that of the last body.
LEMMA LeftComType ==
  ASSUME NEW a \in Primaries, NEW first \in Nat \ {0}, NEW b, Len(b) \in Nat \ {0},
         \A i \in 1..Len(b) : b[i] \in Seq(Line) /\ b[i] # <<>>
  PROVE  LET cont == LeftCom(a, first, b)
             last == b[Len(b)]
         IN  cont \in Seq(Line) /\ cont # <<>> /\ cont[Len(cont)] = last[Len(last)]
<1>1. PICK f : f = JoinStep(a, first, b, f) /\ LeftCom(a, first, b) = f[Len(b)]
  BY LeftComIs
<1> DEFINE good(k) == /\ f[k] \in Seq(Line) /\ f[k] # <<>>
                      /\ f[k][Len(f[k])] = b[k][Len(b[k])]
           S == {k \in 1..Len(b) : ~good(k)}
<1>2. ASSUME S # {}
      PROVE  FALSE
  <2>0. S \in SUBSET Nat
    OBVIOUS
  <2>1. PICK m \in S : \A k \in S : m <= k
    BY <1>2, <2>0, LeastNumber
  <2>2. f[1] = b[1]
    BY <1>1 DEF JoinStep
  <2>3. m # 1 /\ m \in 1..Len(b) /\ m - 1 \in 1..Len(b) /\ m - 1 \notin S
    BY <2>1, <2>2
  <2>4. f[m] = Append(f[m - 1], ReqLine(a, first + m - 1)) \o b[m]
    BY <1>1, <2>3 DEF JoinStep
  <2>5. f[m - 1] \in Seq(Line) /\ ReqLine(a, first + m - 1) \in Line
    <3>1. first + m - 1 \in Nat
      BY <2>3
    <3> QED
      BY <2>3, <3>1, ReqLineType
  <2>6. Append(f[m - 1], ReqLine(a, first + m - 1)) \in Seq(Line)
    BY <2>5
  <2>7. b[m] \in Seq(Line) /\ b[m] # <<>>
    BY <2>3
  <2>8. good(m)
    <3>1. PICK q \in Seq(Line), r \in Seq(Line) :
             q = Append(f[m - 1], ReqLine(a, first + m - 1)) /\ r = b[m] /\ r # <<>>
      BY <2>6, <2>7
    <3>2. /\ q \o r \in Seq(Line) /\ Len(q \o r) = Len(q) + Len(r)
          /\ (q \o r)[Len(q) + Len(r)] = r[Len(r)] /\ q \o r # <<>>
      <4>1. /\ q \o r \in Seq(Line) /\ Len(q \o r) = Len(q) + Len(r)
            /\ \A i \in 1..Len(r) : (q \o r)[Len(q) + i] = r[i]
        <5> HIDE DEF good, S
        <5>1. q \in Seq(Line) /\ r \in Seq(Line)
          BY <3>1
        <5> QED
          BY ONLY <5>1, ConcatFacts
      <4>2. Len(r) \in 1..Len(r) /\ Len(q) \in Nat /\ Len(r) > 0
        BY <3>1
      <4>3. q \o r # <<>>
        <5>1. Len(q \o r) # 0
          BY <4>1, <4>2
        <5>2. Len(<<>>) = 0
          OBVIOUS
        <5> QED
          BY <5>1, <5>2, Zenon
      <4> QED
        BY <4>1, <4>2, <4>3, Zenon
    <3>3. f[m] = q \o r
      BY <2>4, <3>1
    <3> QED
      BY <3>1, <3>2, <3>3
  <2> QED
    BY <2>1, <2>8
<1>3. Len(b) \notin S
  BY <1>2
<1> QED
  BY <1>1, <1>3

\* Joined plain bodies: the i-th command begins with the line 4i - 3.
LEMMA LeftComPlain ==
  ASSUME NEW a \in Primaries, NEW first \in Nat \ {0}, NEW b, Len(b) \in Nat \ {0},
         \A i \in 1..Len(b) : b[i] \in Seq(Line) /\ Len(b[i]) = 3
  PROVE  LET cont == LeftCom(a, first, b)
         IN  /\ Len(cont) = 4 * Len(b) - 1
             /\ \A i \in 1..Len(b) : cont[4*i - 3] = b[i][1] /\ cont[4*i - 2] = b[i][2]
             /\ cont[Len(cont)] = b[Len(b)][3]
<1>1. PICK f : f = JoinStep(a, first, b, f) /\ LeftCom(a, first, b) = f[Len(b)]
  BY LeftComIs
<1> DEFINE good(k) == /\ f[k] \in Seq(Line) /\ Len(f[k]) = 4 * k - 1
                      /\ \A i \in 1..k : f[k][4*i - 3] = b[i][1] /\ f[k][4*i - 2] = b[i][2]
                      /\ f[k][4*k - 1] = b[k][3]
           S == {k \in 1..Len(b) : ~good(k)}
<1>2. good(1)
  <2>1. f[1] = b[1]
    BY <1>1 DEF JoinStep
  <2> QED
    BY <2>1
<1>3. ASSUME NEW m \in 2..Len(b), good(m - 1)
      PROVE  good(m)
  <2> DEFINE q == Append(f[m - 1], ReqLine(a, first + m - 1))
  <2>1. f[m] = q \o b[m]
    <3>1. m \in 1..Len(b) /\ m # 1
      OBVIOUS
    <3> QED
      BY <1>1, <3>1 DEF JoinStep
  <2>2. /\ q \in Seq(Line) /\ Len(q) = 4 * m - 4
        /\ \A j \in 1..(4 * m - 5) : q[j] = f[m - 1][j]
    <3>1. first + m - 1 \in Nat
      OBVIOUS
    <3>2. ReqLine(a, first + m - 1) \in Line
      BY <3>1, ReqLineType
    <3>3. f[m - 1] \in Seq(Line) /\ Len(f[m - 1]) = 4 * m - 5
      BY <1>3
    <3> QED
      BY <3>2, <3>3
  <2>3. b[m] \in Seq(Line) /\ Len(b[m]) = 3
    OBVIOUS
  <2> HIDE DEF q
  <2>4. /\ f[m] \in Seq(Line) /\ Len(f[m]) = 4 * m - 1
        /\ \A j \in 1..(4 * m - 4) : f[m][j] = q[j]
        /\ f[m][4 * m - 3] = b[m][1] /\ f[m][4 * m - 2] = b[m][2]
        /\ f[m][4 * m - 1] = b[m][3]
    <3>1. /\ f[m] \in Seq(Line) /\ Len(f[m]) = Len(q) + 3
          /\ \A j \in 1..Len(q) : f[m][j] = q[j]
          /\ \A j \in 1..3 : f[m][Len(q) + j] = b[m][j]
      <4>1. PICK r \in Seq(Line) : r = b[m]
        BY <2>3
      <4>0. PICK u \in Seq(Line) : u = q
        BY <2>2
      <4>2. /\ q \o r \in Seq(Line) /\ Len(q \o r) = Len(q) + Len(r)
            /\ \A j \in 1..Len(q) : (q \o r)[j] = q[j]
            /\ \A j \in 1..Len(r) : (q \o r)[Len(q) + j] = r[j]
        <5>1. /\ u \o r \in Seq(Line) /\ Len(u \o r) = Len(u) + Len(r)
              /\ \A j \in 1..Len(u) : (u \o r)[j] = u[j]
              /\ \A j \in 1..Len(r) : (u \o r)[Len(u) + j] = r[j]
          BY ConcatFacts
        <5> QED
          BY <4>0, <5>1, Zenon
      <4>3. f[m] = q \o r /\ Len(r) = 3
        BY <2>1, <2>3, <4>1
      <4> QED
        BY <4>1, <4>2, <4>3, Zenon
    <3>2. Len(q) + 1 = 4 * m - 3 /\ Len(q) + 2 = 4 * m - 2 /\ Len(q) + 3 = 4 * m - 1
      BY <2>2
    <3>3. f[m][Len(q) + 1] = b[m][1] /\ f[m][Len(q) + 2] = b[m][2]
          /\ f[m][Len(q) + 3] = b[m][3]
      BY <3>1
    <3> QED
      BY <2>2, <3>1, <3>2, <3>3
  <2>5. ASSUME NEW i \in 1..m
        PROVE  f[m][4*i - 3] = b[i][1] /\ f[m][4*i - 2] = b[i][2]
    <3>1. CASE i = m
      BY <2>4, <3>1
    <3>2. CASE i # m
      <4>1. i \in 1..(m - 1) /\ 4*i - 3 \in 1..(4 * m - 5) /\ 4*i - 2 \in 1..(4 * m - 5)
            /\ 4*i - 3 \in 1..(4 * m - 4) /\ 4*i - 2 \in 1..(4 * m - 4)
        BY <3>2
      <4>2. f[m - 1][4*i - 3] = b[i][1] /\ f[m - 1][4*i - 2] = b[i][2]
        BY <1>3, <4>1
      <4> QED
        BY <2>2, <2>4, <4>1, <4>2
    <3> QED
      BY <3>1, <3>2
  <2> QED
    BY <2>4, <2>5
<1> HIDE DEF good
<1>4. ASSUME S # {}
      PROVE  FALSE
  <2>0. S \in SUBSET Nat
    OBVIOUS
  <2>1. PICK m \in S : \A k \in S : m <= k
    BY <1>4, <2>0, LeastNumber
  <2>2. m \in 2..Len(b) /\ m - 1 \in 1..Len(b) /\ m - 1 \notin S
    BY <1>2, <2>1
  <2> QED
    BY <1>3, <2>1, <2>2
<1>5. good(Len(b))
  BY <1>4
<1> QED
  BY <1>1, <1>5 DEF good

\* The loop of appendToSegment cuts lines into seglets, and plain bodies into
\* their commands.
LEMMA CommandsFacts ==
  ASSUME NEW cont \in Seq(Line)
  PROVE  /\ Commands(cont) \in Seq(Seglet)
         /\ \A n \in Nat : Len(cont) = 4 * n - 1 => Len(Commands(cont)) = n
         /\ \A i \in DOMAIN Commands(cont) :
               Commands(cont)[i] = <<cont[4*i - 3], cont[4*i - 2]>>
<1> DEFINE N == (Len(cont) + 1) \div 4
<1>1. Len(cont) \in Nat /\ N \in Nat /\ 4 * N <= Len(cont) + 1
  OBVIOUS
<1>2. \A n \in Nat : Len(cont) = 4 * n - 1 => N = n
  OBVIOUS
<1>3. Commands(cont) = [i \in 1..N |-> <<cont[4*i - 3], cont[4*i - 2]>>]
  BY DEF Commands
<1> HIDE DEF N
<1>4. ASSUME NEW i \in 1..N
      PROVE  <<cont[4*i - 3], cont[4*i - 2]>> \in Seglet
  <2>1. 4*i - 3 \in 1..Len(cont) /\ 4*i - 2 \in 1..Len(cont)
    BY <1>1
  <2>2. cont[4*i - 3] \in Line /\ cont[4*i - 2] \in Line
    BY <2>1
  <2> QED
    BY <2>2 DEF Seglet
<1> QED
  BY <1>1, <1>2, <1>3, <1>4

-----------------------------------------------------------------------------
(***************************************************************************)
(* The list of segments, which has one member at most.                     *)
(***************************************************************************)

\* A sequence of one member.
LEMMA OneFacts ==
  ASSUME NEW S, NEW q \in Seq(S), Len(q) = 1
  PROVE  q # <<>> /\ q[1] \in S /\ DOMAIN q = {1}
<1>1. DOMAIN q = 1..Len(q) /\ \A i \in 1..Len(q) : q[i] \in S
  OBVIOUS
<1>2. 1 \in 1..Len(q)
  OBVIOUS
<1>3. q # <<>>
  OBVIOUS
<1> QED
  BY <1>1, <1>2, <1>3

\* The empty sequence.
LEMMA EmptyFacts ==
  ASSUME NEW S
  PROVE  <<>> \in Seq(S) /\ Len(<<>>) = 0 /\ Len(<<>>) <= 1 /\ DOMAIN <<>> = {}
<1>1. <<>> \in Seq(S)
  OBVIOUS
<1>2. Len(<<>>) = 0 /\ 0 <= 1
  OBVIOUS
<1>3. DOMAIN <<>> = {}
  OBVIOUS
<1> QED
  BY <1>1, <1>2, <1>3

\* The last member of a sequence.
LEMMA LastFacts ==
  ASSUME NEW S, NEW q \in Seq(S), NEW x \in S
  PROVE  Append(q, x)[Len(Append(q, x))] = x
OBVIOUS

\* A sequence up to its last member.
LEMMA SubSeqWhole ==
  ASSUME NEW S, NEW q \in Seq(S)
  PROVE  SubSeq(q, 1, Len(q)) = q
<1> DEFINE r == SubSeq(q, 1, Len(q))
<1>1. Len(q) \in Nat /\ q = [i \in 1..Len(q) |-> q[i]]
  OBVIOUS
<1>2. r \in Seq(S) /\ Len(r) = Len(q) /\ \A i \in 1..Len(q) : r[i] = q[i]
  BY <1>1
<1>3. r = [i \in 1..Len(r) |-> r[i]]
  BY <1>2
<1> HIDE DEF r
<1>4. r = [i \in 1..Len(q) |-> q[i]]
  BY <1>2, <1>3
<1>5. r = q
  BY <1>1, <1>4, Zenon
<1> QED
  BY <1>5 DEF r

\* A sequence of at most one member that is not empty.
LEMMA AtMostOne ==
  ASSUME NEW S, NEW q \in Seq(S), Len(q) <= 1, q # <<>>
  PROVE  Len(q) = 1 /\ q[1] \in S /\ DOMAIN q = {1}
<1>1. Len(q) \in Nat /\ Len(q) # 0
  OBVIOUS
<1>2. Len(q) = 1
  BY <1>1
<1> QED
  BY <1>2, OneFacts

\* A function on 1..n is a sequence.
LEMMA FcnSeq ==
  ASSUME NEW S, NEW n \in Nat, NEW r \in [1..n -> S]
  PROVE  r \in Seq(S) /\ Len(r) = n
OBVIOUS

\* That member is replaced.
LEMMA OneExcept ==
  ASSUME NEW S, NEW q \in Seq(S), Len(q) = 1, NEW u \in S
  PROVE  /\ [q EXCEPT ![1] = u] \in Seq(S) /\ Len([q EXCEPT ![1] = u]) = 1
         /\ [q EXCEPT ![1] = u][1] = u
<1>1. PICK r : r = [q EXCEPT ![1] = u]
  OBVIOUS
<1>2. DOMAIN q = {1} /\ {1} = 1..1
  BY OneFacts
<1>3. r = [i \in {1} |-> u]
  BY <1>1, <1>2, Zenon
<1>4. r \in [1..1 -> S] /\ r[1] = u
  BY <1>2, <1>3, Zenon
<1>5. r \in Seq(S) /\ Len(r) = 1
  BY <1>4, FcnSeq
<1> QED
  BY <1>1, <1>4, <1>5

\* The fields of a segment.
LEMMA SegmentFields ==
  ASSUME NEW s \in Segment
  PROVE  /\ s.addr \in Addrs /\ s.capacity \in Int /\ s.segletnum \in Nat
         /\ s.lets \in Seq(Seglet)
BY DEF Segment

\* getSegment() on such a list.
LEMMA GetSegmentOne ==
  ASSUME NEW segs \in Seq(Segment), Len(segs) <= 1, NEW a
  PROVE  GetSegment(segs, a) = IF segs # <<>> /\ segs[1].addr = a THEN 1 ELSE 0
<1>1. DOMAIN segs = 1..Len(segs) /\ Len(segs) \in Nat /\ (segs # <<>> <=> Len(segs) = 1)
  <2>1. DOMAIN segs = 1..Len(segs) /\ Len(segs) \in Nat
    OBVIOUS
  <2>2. segs = <<>> <=> Len(segs) = 0
    OBVIOUS
  <2> QED
    BY <2>1, <2>2
<1>2. CASE segs # <<>> /\ segs[1].addr = a
  <2>1. DOMAIN segs = {1}
    BY <1>1, <1>2
  <2>2. GetSegment(segs, a) =
           CHOOSE i \in DOMAIN segs : segs[i].addr = a /\ \A j \in 1..(i-1) : segs[j].addr # a
    BY <1>2, <2>1 DEF GetSegment
  <2>3. \E i \in DOMAIN segs : segs[i].addr = a /\ \A j \in 1..(i-1) : segs[j].addr # a
    BY <1>2, <2>1
  <2>4. GetSegment(segs, a) \in DOMAIN segs
    BY <2>2, <2>3
  <2> QED
    BY <1>2, <2>1, <2>4
<1>3. CASE ~(segs # <<>> /\ segs[1].addr = a)
  <2>1. ~\E i \in DOMAIN segs : segs[i].addr = a
    BY <1>1, <1>3
  <2> QED
    BY <1>3, <2>1 DEF GetSegment
<1> QED
  BY <1>2, <1>3

\* One more seglet in the only segment.
LEMMA AddSegletOne ==
  ASSUME NEW segs \in Seq(Segment), Len(segs) = 1, NEW c \in Seglet
  PROVE  LET g == AddSeglet(segs, 1, c)
         IN  /\ g \in Seq(Segment) /\ Len(g) = 1
             /\ g[1].addr = segs[1].addr
             /\ g[1].lets = Append(segs[1].lets, c)
             /\ g[1].capacity = segs[1].capacity - SegletLen(c)
             /\ g[1].segletnum = segs[1].segletnum + 1
<1>1. PICK s \in Segment : s = segs[1]
  OBVIOUS
<1> DEFINE t == [s EXCEPT !.lets = Append(@, c), !.capacity = @ - SegletLen(c)]
           u == [t EXCEPT !.segletnum = @ + 1]
           A == [segs EXCEPT ![1].lets = Append(@, c), ![1].capacity = @ - SegletLen(c)]
<1>2. /\ s.addr \in Addrs /\ s.capacity \in Int /\ s.segletnum \in Nat /\ s.lets \in Seq(Seglet)
      /\ Append(s.lets, c) \in Seq(Seglet) /\ SegletLen(c) \in Nat
  BY SegmentFields, SegletLenType
<1>3. /\ t.addr = s.addr /\ t.lets = Append(s.lets, c)
      /\ t.capacity = s.capacity - SegletLen(c) /\ t.segletnum = s.segletnum
  BY DEF Segment
<1>4. t \in Segment
  <2>1. s.capacity - SegletLen(c) \in Int
    BY <1>2
  <2> HIDE DEF SegletLen
  <2> QED
    BY <1>2, <2>1 DEF Segment
<1> HIDE DEF t
<1>5. /\ u \in Segment /\ u.addr = t.addr /\ u.lets = t.lets
      /\ u.capacity = t.capacity /\ u.segletnum = t.segletnum + 1
  <2>1. /\ u.addr = t.addr /\ u.lets = t.lets
        /\ u.capacity = t.capacity /\ u.segletnum = t.segletnum + 1
    BY <1>4 DEF Segment
  <2>2. t.segletnum + 1 \in Nat
    BY <1>4, SegmentFields
  <2>3. u \in Segment
    BY <1>4, <2>2 DEF Segment
  <2> QED
    BY <2>1, <2>3
<1>6. A = [segs EXCEPT ![1] = t]
  BY <1>1 DEF t
<1> HIDE DEF A
<1>7. A \in Seq(Segment) /\ Len(A) = 1 /\ A[1] = t
  BY <1>4, <1>6
<1>8. AddSeglet(segs, 1, c) = [A EXCEPT ![1].segletnum = @ + 1]
  BY DEF AddSeglet, CountSeglet, A
<1>9. AddSeglet(segs, 1, c) = [A EXCEPT ![1] = u]
  BY <1>7, <1>8
<1> HIDE DEF u
<1>10. /\ AddSeglet(segs, 1, c) \in Seq(Segment) /\ Len(AddSeglet(segs, 1, c)) = 1
       /\ AddSeglet(segs, 1, c)[1] = u
  <2>1. PICK B \in Seq(Segment) : B = A
    BY <1>7
  <2>3. Len(B) = 1
    BY <1>7, <2>1
  <2>2. /\ [B EXCEPT ![1] = u] \in Seq(Segment) /\ Len([B EXCEPT ![1] = u]) = 1
        /\ [B EXCEPT ![1] = u][1] = u
    BY <1>5, <2>3, OneExcept
  <2> QED
    BY <1>9, <2>1, <2>2
<1> QED
  BY <1>1, <1>3, <1>5, <1>10

\* A list of one segment, g, is what segs becomes when seglet c of address a is
\* added: the segment of a grows, or a new one takes its place.
Grown(segs, g, a, c) ==
    /\ g \in Seq(Segment) /\ Len(g) = 1
    /\ g[1].addr = a
    /\ g[1].segletnum = Len(g[1].lets)
    /\ g[1].capacity = MAX_SEGMENT_CAPACITY - Total(g[1].lets)
    /\ \/ segs # <<>> /\ segs[1].addr = a /\ g[1].lets = Append(segs[1].lets, c)
       \/ (segs = <<>> \/ segs[1].addr # a) /\ g[1].lets = <<c>>

\* createSegment() counts the first seglet.
LEMMA GrownNew ==
  ASSUME NEW segs, NEW a \in Addrs, NEW c \in Seglet, segs = <<>> \/ segs[1].addr # a
  PROVE  Grown(segs, <<NewSegment(a, c, 1)>>, a, c)
<1> DEFINE s == NewSegment(a, c, 1)
<1>1. SegletLen(c) \in Nat /\ <<c>> \in Seq(Seglet) /\ Total(<<c>>) = SegletLen(c)
  BY SegletLenType, TotalOne
<1>2. /\ s.addr = a /\ s.capacity = MAX_SEGMENT_CAPACITY - SegletLen(c)
      /\ s.segletnum = 1 /\ s.lets = <<c>>
  BY DEF NewSegment
<1>3. s \in Segment
  <2>1. MAX_SEGMENT_CAPACITY - SegletLen(c) \in Int
    BY <1>1, SegmentAssumption
  <2> QED
    BY <1>1, <2>1 DEF NewSegment, Segment
<1> HIDE DEF s
<1>4. <<s>> \in Seq(Segment) /\ Len(<<s>>) = 1 /\ <<s>>[1] = s /\ Len(<<c>>) = 1
  BY <1>3
<1>5. Grown(segs, <<s>>, a, c)
  BY <1>1, <1>2, <1>4 DEF Grown
<1> QED
  BY <1>5 DEF s

\* The segment of the address grows.
LEMMA GrownOld ==
  ASSUME NEW segs \in Seq(Segment), Len(segs) = 1, NEW c \in Seglet,
         segs[1].segletnum = Len(segs[1].lets),
         segs[1].capacity = MAX_SEGMENT_CAPACITY - Total(segs[1].lets)
  PROVE  Grown(segs, AddSeglet(segs, 1, c), segs[1].addr, c)
<1> DEFINE g == AddSeglet(segs, 1, c)
<1>1. /\ g \in Seq(Segment) /\ Len(g) = 1
      /\ g[1].addr = segs[1].addr
      /\ g[1].lets = Append(segs[1].lets, c)
      /\ g[1].capacity = segs[1].capacity - SegletLen(c)
      /\ g[1].segletnum = segs[1].segletnum + 1
  BY AddSegletOne
<1>2. segs[1] \in Segment /\ segs # <<>>
  BY OneFacts
<1>3. segs[1].lets \in Seq(Seglet)
  BY <1>2, SegmentFields
<1>4. /\ Total(segs[1].lets) \in Nat /\ SegletLen(c) \in Nat
      /\ Total(Append(segs[1].lets, c)) = Total(segs[1].lets) + SegletLen(c)
      /\ Len(Append(segs[1].lets, c)) = Len(segs[1].lets) + 1
  BY <1>3, TotalAppend, SegletLenType
<1> HIDE DEF g
<1>5. g[1].capacity = MAX_SEGMENT_CAPACITY - Total(g[1].lets)
  BY <1>1, <1>4, SegmentAssumption
<1>6. g[1].segletnum = Len(g[1].lets)
  BY <1>1, <1>4
<1>7. Grown(segs, g, segs[1].addr, c)
  BY <1>1, <1>2, <1>5, <1>6 DEF Grown
<1> QED
  BY <1>7 DEF g

\* The first command of a batch, and the later ones.
LEMMA GrownAdd ==
  ASSUME TypeOK, ListInv, NEW a \in Addrs, NEW c \in Seglet
  PROVE  /\ Grown(segment, AddFirst(segment, a, c), a, c)
         /\ GetSegment(segment, a) # 0 =>
               /\ segment # <<>> /\ segment[1].addr = a
               /\ Grown(segment, AddSeglet(segment, GetSegment(segment, a), c), a, c)
<1>1. segment \in Seq(Segment) /\ Len(segment) <= 1 /\ (segment # <<>> => used)
  BY DEF TypeOK, ListInv
<1>2. GetSegment(segment, a) = IF segment # <<>> /\ segment[1].addr = a THEN 1 ELSE 0
  BY <1>1, GetSegmentOne
<1>3. CASE segment # <<>> /\ segment[1].addr = a
  <2>1. Len(segment) = 1 /\ 1 \in DOMAIN segment
    BY <1>1, <1>3
  <2>2. /\ segment[1].segletnum = Len(segment[1].lets)
        /\ segment[1].capacity = MAX_SEGMENT_CAPACITY - Total(segment[1].lets)
    BY <2>1 DEF ListInv
  <2>3. Grown(segment, AddSeglet(segment, 1, c), a, c)
    BY <1>1, <1>3, <2>1, <2>2, GrownOld
  <2>4. GetSegment(segment, a) = 1 /\ used
    BY <1>1, <1>2, <1>3
  <2>5. AddFirst(segment, a, c) = AddSeglet(segment, 1, c)
    BY <2>4 DEF AddFirst
  <2> QED
    BY <1>3, <2>3, <2>4, <2>5
<1>4. CASE ~(segment # <<>> /\ segment[1].addr = a)
  <2>1. GetSegment(segment, a) = 0
    BY <1>2, <1>4
  <2>2. AddFirst(segment, a, c) = <<NewSegment(a, c, 1)>>
    BY <2>1 DEF AddFirst, GetLastSegment
  <2>3. Grown(segment, <<NewSegment(a, c, 1)>>, a, c)
    BY <1>4, GrownNew
  <2> QED
    BY <2>1, <2>2, <2>3
<1> QED
  BY <1>3, <1>4

\* The persist loop on a list of one segment.
LEMMA SweepOne ==
  ASSUME NEW g \in Seq(Segment), Len(g) = 1, NEW opened, Sweep(g, opened)
  PROVE  \/ /\ g[1].capacity >= 0
            /\ segment' = g /\ UNCHANGED <<disk, cwd, written, faults>>
         \/ /\ segment' = <<>>
            /\ disk' = WriteFile(disk, FileOf(g[1])) /\ written' = written + 1
            /\ UNCHANGED <<cwd, faults>>
         \/ /\ segment' = <<>>
            /\ cwd' = Append(cwd, g[1].addr) /\ faults' = faults + 1
            /\ UNCHANGED <<disk, written>>
<1>1. DOMAIN g = {1} /\ g[1] \in Segment /\ g[1].capacity \in Int
  BY SegmentFields
<1>2. CASE g[1].capacity < 0
  <2>1. Overflowing(g) = 1
    <3>1. \E i \in DOMAIN g : g[i].capacity < 0
      BY <1>1, <1>2
    <3>2. Overflowing(g) = CHOOSE i \in DOMAIN g : g[i].capacity < 0
      BY <3>1 DEF Overflowing
    <3>3. Overflowing(g) \in DOMAIN g
      BY <3>1, <3>2
    <3> QED
      BY <1>1, <3>3
  <2>2. AfterPersist(g) = SubSeq(g, 2, 1)
    BY <2>1 DEF AfterPersist
  <2>3. SubSeq(g, 2, 1) = <<>>
    OBVIOUS
  <2>4. FileOf(g[1]).dir = Append(cwd, g[1].addr)
    BY DEF FileOf
  <2> QED
    BY <2>1, <2>2, <2>3, <2>4 DEF Sweep
<1>3. CASE ~(g[1].capacity < 0)
  <2>1. Overflowing(g) = 0
    BY <1>1, <1>3 DEF Overflowing
  <2>2. g[1].capacity >= 0
    BY <1>1, <1>3
  <2> QED
    BY <2>1, <2>2 DEF Sweep, AfterPersist
<1> QED
  BY <1>2, <1>3

-----------------------------------------------------------------------------
(***************************************************************************)
(* Types and accounting, for all layouts of a request body.                *)
(***************************************************************************)
CountInv == TypeOK /\ ListInv

\* The fields of the running call.
LEMMA CallFields ==
  ASSUME TypeOK
  PROVE  /\ call.busy \in BOOLEAN /\ call.addr \in Addrs /\ call.first \in BOOLEAN
         /\ call.rest \in Seq(Seglet)
         /\ call.req \in Addrs \X Nat /\ DOMAIN call = {"busy", "addr", "rest", "first", "req"}
BY DEF TypeOK

\* A step that handles one command: the list becomes g, and g stays, is written
\* to its file, or is lost because fopen() failed.
Appended(g) ==
    /\ up = "running" /\ call.busy /\ call.rest # <<>>
    /\ Grown(segment, g, call.addr, Head(call.rest))
    /\ ~call.first => segment # <<>> /\ segment[1].addr = call.addr
    /\ \/ /\ g[1].capacity >= 0
          /\ segment' = g /\ UNCHANGED <<disk, cwd, written, faults>>
       \/ /\ segment' = <<>>
          /\ disk' = WriteFile(disk, FileOf(g[1])) /\ written' = written + 1
          /\ UNCHANGED <<cwd, faults>>
       \/ /\ segment' = <<>>
          /\ cwd' = Append(cwd, g[1].addr) /\ faults' = faults + 1
          /\ UNCHANGED <<disk, written>>
    /\ used'
    /\ NextCommand
    /\ UNCHANGED <<up, now, nsent, odd, cut, acked, sentBack, restarts>>

\* Both actions of appendToSegment are such steps.
LEMMA AppendIs ==
  ASSUME CountInv, NEW opened \in BOOLEAN, AppendFirst(opened) \/ AppendLater(opened)
  PROVE  \E g : Appended(g)
<1> DEFINE a == call.addr
           c == Head(call.rest)
           i == GetSegment(segment, a)
<1>1. TypeOK /\ ListInv
  BY DEF CountInv
<1>2. call.rest # <<>> /\ a \in Addrs /\ call.rest \in Seq(Seglet)
  BY <1>1, CallFields DEF AppendFirst, AppendLater
<1>3. c \in Seglet
  BY <1>2
<1>4. /\ Grown(segment, AddFirst(segment, a, c), a, c)
      /\ i # 0 => /\ segment # <<>> /\ segment[1].addr = a
                  /\ Grown(segment, AddSeglet(segment, i, c), a, c)
  BY <1>1, <1>2, <1>3, GrownAdd
<1>5. CASE AppendFirst(opened)
  <2> DEFINE g == AddFirst(segment, a, c)
  <2>1. /\ up = "running" /\ call.busy /\ call.first /\ Sweep(g, opened) /\ used' = TRUE
        /\ NextCommand /\ UNCHANGED <<up, now, nsent, odd, cut, acked, sentBack, restarts>>
    BY <1>5 DEF AppendFirst
  <2> HIDE DEF g
  <2>2. g \in Seq(Segment) /\ Len(g) = 1
    BY <1>4 DEF Grown, g
  <2>3. Appended(g)
    BY <1>2, <1>4, <2>1, <2>2, SweepOne, Zenon DEF Appended, g
  <2> QED
    BY <2>3
<1>6. CASE AppendLater(opened)
  <2> DEFINE g == AddSeglet(segment, i, c)
  <2>1. /\ up = "running" /\ call.busy /\ i # 0 /\ Sweep(g, opened) /\ used' = used
        /\ NextCommand /\ UNCHANGED <<up, now, nsent, odd, cut, acked, sentBack, restarts>>
    BY <1>6 DEF AppendLater
  <2> HIDE DEF g
  <2>2. g \in Seq(Segment) /\ Len(g) = 1
    BY <1>4, <2>1 DEF Grown, g
  <2>3. used'
    BY <1>1, <1>4, <2>1 DEF ListInv
  <2>4. Appended(g)
    BY <1>2, <1>4, <2>1, <2>2, <2>3, SweepOne, Zenon DEF Appended, g
  <2> QED
    BY <2>4
<1> QED
  BY <1>5, <1>6

\* What a handled command leaves of the call.
LEMMA NextCommandFacts ==
  ASSUME TypeOK, call.rest # <<>>, NextCommand
  PROVE  /\ call' \in [busy : BOOLEAN, addr : Addrs, rest : Seq(Seglet), first : BOOLEAN,
                       req : Addrs \X Nat]
         /\ call'.busy = call.busy /\ call'.addr = call.addr /\ call'.req = call.req
         /\ call'.rest = Tail(call.rest) /\ call'.first = FALSE
<1>1. Tail(call.rest) \in Seq(Seglet)
  BY CallFields
<1>2. call \in [busy : BOOLEAN, addr : Addrs, rest : Seq(Seglet), first : BOOLEAN,
                req : Addrs \X Nat]
  BY DEF TypeOK
<1> QED
  BY <1>1, <1>2 DEF NextCommand

\* A command is added: the segment and the file stay accounted for.
LEMMA AppendedCount ==
  ASSUME CountInv, NEW g, Appended(g)
  PROVE  CountInv'
<1> DEFINE a == call.addr
           c == Head(call.rest)
<1>1. TypeOK /\ ListInv
  BY DEF CountInv
<1>2. call.rest # <<>> /\ NextCommand /\ Grown(segment, g, a, c)
  BY DEF Appended
<1>3. /\ g \in Seq(Segment) /\ Len(g) = 1 /\ g[1].addr = a
      /\ g[1].segletnum = Len(g[1].lets)
      /\ g[1].capacity = MAX_SEGMENT_CAPACITY - Total(g[1].lets)
  BY <1>2 DEF Grown
<1>4. g # <<>> /\ g[1] \in Segment /\ DOMAIN g = {1}
  BY <1>3, OneFacts
<1>5. /\ g[1].addr \in Addrs /\ g[1].capacity \in Int /\ g[1].segletnum \in Nat
      /\ g[1].lets \in Seq(Seglet)
  BY <1>4, SegmentFields
<1>6. g[1].lets # <<>>
  <2>1. call.rest \in Seq(Seglet) /\ c \in Seglet
    BY <1>1, <1>2, CallFields
  <2>2. CASE segment # <<>> /\ g[1].lets = Append(segment[1].lets, c)
    <3>1. segment \in Seq(Segment) /\ Len(segment) <= 1
      BY <1>1 DEF TypeOK, ListInv
    <3>2. segment[1] \in Segment
      BY <2>2, <3>1, AtMostOne
    <3>3. segment[1].lets \in Seq(Seglet)
      BY <3>2, SegmentFields
    <3> QED
      BY <2>1, <2>2, <3>3
  <2>3. CASE g[1].lets = <<c>>
    BY <2>3
  <2> QED
    BY <1>2, <2>2, <2>3 DEF Grown
<1>7. FileOf(g[1]) \in File /\ FileOf(g[1]).num = Len(FileOf(g[1]).lets)
  <2>1. cwd \in Seq(Addrs) /\ now \in Nat
    BY <1>1 DEF TypeOK
  <2>2. Append(cwd, g[1].addr) \in Seq(Addrs)
    BY <1>5, <2>1
  <2>3. FileOf(g[1]) = [dir |-> Append(cwd, g[1].addr), num |-> g[1].segletnum,
                        time |-> now, lets |-> g[1].lets]
    BY DEF FileOf
  <2> QED
    BY <1>3, <1>5, <2>1, <2>2, <2>3 DEF File
<1>8. /\ disk' \in SUBSET File /\ written' \in Nat /\ faults' \in Nat /\ cwd' \in Seq(Addrs)
      /\ \A f \in disk' : f.num = Len(f.lets)
  <2>1. /\ disk \in SUBSET File /\ written \in Nat /\ faults \in Nat /\ cwd \in Seq(Addrs)
        /\ \A f \in disk : f.num = Len(f.lets)
    BY <1>1 DEF TypeOK, ListInv
  <2>2. CASE UNCHANGED <<disk, cwd, written, faults>>
    BY <2>1, <2>2
  <2>3. CASE disk' = WriteFile(disk, FileOf(g[1])) /\ written' = written + 1
             /\ UNCHANGED <<cwd, faults>>
    <3>1. disk' \subseteq disk \cup {FileOf(g[1])}
      BY <2>3 DEF WriteFile
    <3> QED
      BY <1>7, <2>1, <2>3, <3>1
  <2>4. CASE cwd' = Append(cwd, g[1].addr) /\ faults' = faults + 1 /\ UNCHANGED <<disk, written>>
    <3>1. Append(cwd, g[1].addr) \in Seq(Addrs)
      BY <1>5, <2>1
    <3> QED
      BY <2>1, <2>4, <3>1
  <2> QED
    BY <2>2, <2>3, <2>4 DEF Appended
<1>9. segment' = <<>> \/ (segment' = g /\ g[1].capacity >= 0)
  BY DEF Appended
<1>10. segment' \in Seq(Segment) /\ Len(segment') <= 1
  <2>1. CASE segment' = <<>>
    BY <2>1, EmptyFacts, Zenon
  <2>2. g \in Seq(Segment) /\ Len(g) <= 1
    BY <1>3
  <2>3. CASE segment' = g
    BY <2>2, <2>3, Zenon
  <2> QED
    BY <1>9, <2>1, <2>3
<1>11. used' /\ call' \in [busy : BOOLEAN, addr : Addrs, rest : Seq(Seglet),
                          first : BOOLEAN, req : Addrs \X Nat]
  BY <1>1, <1>2, NextCommandFacts DEF Appended
<1>12. TypeOK'
  <2>1. UNCHANGED <<up, now, nsent, odd, cut, acked, sentBack, restarts>> /\ used' \in BOOLEAN
    <3>1. used' = TRUE \/ used' \in BOOLEAN
      BY DEF Appended, TypeOK
    <3> QED
      BY <3>1 DEF Appended
  <2> QED
    BY <1>1, <1>8, <1>10, <1>11, <2>1, Zenon DEF TypeOK
<1>13. ListInv'
  <2>1. ASSUME NEW i \in DOMAIN segment'
        PROVE  /\ segment'[i].lets # <<>>
               /\ segment'[i].segletnum = Len(segment'[i].lets)
               /\ segment'[i].capacity >= 0
               /\ segment'[i].capacity = MAX_SEGMENT_CAPACITY - Total(segment'[i].lets)
    <3>1. segment' # <<>>
      BY <2>1
    <3>2. segment' = g /\ i = 1 /\ g[1].capacity >= 0
      BY <1>4, <1>9, <2>1, <3>1
    <3> QED
      BY <1>3, <1>6, <3>2
  <2> QED
    BY <1>8, <1>10, <1>11, <2>1, Zenon DEF ListInv
<1> QED
  BY <1>12, <1>13 DEF CountInv

\* The empty backup.
LEMMA InitCount ==
  ASSUME Init
  PROVE  CountInv
<1>1. <<>> \in Seq(Segment) /\ <<>> \in Seq(Addrs) /\ <<>> \in Seq(Seglet)
      /\ Garbled \in Addrs /\ Len(<<>>) = 0 /\ DOMAIN <<>> = {}
  BY DEF Addrs
<1>2. call \in [busy : BOOLEAN, addr : Addrs, rest : Seq(Seglet), first : BOOLEAN,
                req : Addrs \X Nat]
  BY <1>1 DEF Init, Idle
<1>3. nsent \in [Primaries -> Nat] /\ sentBack \in [Addrs -> Seq(Seglet)]
  BY <1>1 DEF Init
<1>4. TypeOK
  BY <1>1, <1>2, <1>3 DEF Init, TypeOK
<1>5. ListInv
  BY <1>1 DEF Init, ListInv
<1> QED
  BY <1>4, <1>5 DEF CountInv

\* The bodies of the next n commands of a primary, and what they are joined to.
LEMMA BodiesFacts ==
  ASSUME TypeOK, NEW a \in Primaries, NEW n \in 1..MaxBatch,
         NEW shape \in [1..n -> Shapes], NEW len \in [1..n -> Lens]
  PROVE  \E b, cont :
            /\ b = Bodies(a, n, shape, len) /\ Len(b) = n
            /\ \A i \in 1..n : /\ b[i] = Body(a, nsent[a] + i, shape[i], len[i])
                               /\ b[i] \in Seq(Line) /\ b[i] # <<>>
            /\ cont = LeftCom(a, nsent[a] + 1, b)
            /\ cont \in Seq(Line) /\ cont # <<>>
            /\ cont[Len(cont)].from \in {a, Garbled}
<1>1. nsent[a] \in Nat /\ n \in Nat \ {0} /\ Lens \subseteq Nat
  <2>1. nsent[a] \in Nat
    BY DEF TypeOK
  <2>2. n \in Nat \ {0}
    BY SegmentAssumption
  <2> QED
    BY <2>1, <2>2, SegmentAssumption
<1> DEFINE first == nsent[a] + 1
           b == [i \in 1..n |-> Body(a, nsent[a] + i, shape[i], len[i])]
           cont == LeftCom(a, first, b)
<1>2. \A i \in 1..n : nsent[a] + i \in Nat /\ len[i] \in Nat
  <2>1. \A i \in 1..n : nsent[a] + i \in Nat
    BY <1>1
  <2>2. \A i \in 1..n : len[i] \in Lens
    OBVIOUS
  <2> QED
    BY <1>1, <2>1, <2>2
<1>3. b = Bodies(a, n, shape, len)
  BY DEF Bodies
<1>4. \A i \in 1..n : /\ b[i] = Body(a, nsent[a] + i, shape[i], len[i])
                      /\ b[i] \in Seq(Line) /\ b[i] # <<>>
                      /\ b[i][Len(b[i])].from \in {a, Garbled}
  <2>1. ASSUME NEW i \in 1..n
        PROVE  LET q == Body(a, nsent[a] + i, shape[i], len[i])
               IN  q \in Seq(Line) /\ q # <<>> /\ q[Len(q)].from \in {a, Garbled}
    <3>1. PICK m \in Nat, l \in Nat : m = nsent[a] + i /\ l = len[i]
      BY <1>2
    <3>2. LET q == Body(a, m, shape[i], l)
          IN  q \in Seq(Line) /\ q # <<>> /\ q[Len(q)].from \in {a, Garbled}
      BY BodyType, Zenon
    <3> QED
      BY <3>1, <3>2, Zenon
  <2> QED
    BY <2>1
<1>5. Len(b) = n /\ n \in 1..n
  BY <1>1
<1>6. first \in Nat \ {0}
  BY <1>1
<1> HIDE DEF b
<1>7. PICK q : q = b[n] /\ q \in Seq(Line) /\ q # <<>> /\ q[Len(q)].from \in {a, Garbled}
  BY <1>4, <1>5
<1>8. cont \in Seq(Line) /\ cont # <<>> /\ cont[Len(cont)] = q[Len(q)]
  <2>1. Len(b) \in Nat \ {0} /\ \A i \in 1..Len(b) : b[i] \in Seq(Line) /\ b[i] # <<>>
    BY <1>1, <1>4, <1>5
  <2> QED
    BY <1>5, <1>6, <1>7, <2>1, LeftComType
<1> HIDE DEF cont
<1>9. cont[Len(cont)].from \in {a, Garbled}
  BY <1>7, <1>8
<1> QED
  BY <1>3, <1>4, <1>5, <1>8, <1>9 DEF cont

\* What a primary has sent after the next n commands.
LEMMA SendsFacts ==
  ASSUME TypeOK, NEW a \in Primaries, NEW n \in 1..MaxBatch, NEW shape, Sends(a, n, shape)
  PROVE  /\ n \in Nat \ {0} /\ nsent \in [Primaries -> Nat] /\ nsent' \in [Primaries -> Nat]
         /\ \A b \in Primaries : nsent'[b] = IF b = a THEN nsent[a] + n ELSE nsent[b]
         /\ odd' \in SUBSET Primaries /\ odd \subseteq odd' /\ odd' \subseteq odd \cup {a}
         /\ (\E i \in 1..n : shape[i] # "plain") => a \in odd'
<1>1. nsent \in [Primaries -> Nat] /\ odd \in SUBSET Primaries
  BY Zenon DEF TypeOK
<1>2. n \in Nat \ {0}
  BY SegmentAssumption
<1>3. nsent' = [nsent EXCEPT ![a] = @ + n]
  BY DEF Sends
<1>4. odd' = odd \cup {b \in {a} : \E i \in 1..n : shape[i] # "plain"}
  BY DEF Sends
<1> QED
  BY <1>1, <1>2, <1>3, <1>4

\* A call that begins has its type.
LEMMA NewCallType ==
  ASSUME TypeOK, NEW a \in Primaries, NEW addr \in Addrs, NEW cont \in Seq(Line)
  PROVE  NewCall(a, addr, cont) \in [busy : BOOLEAN, addr : Addrs, rest : Seq(Seglet),
                                     first : BOOLEAN, req : Addrs \X Nat]
<1>1. <<a, nsent[a] + 1>> \in Addrs \X Nat
  <2>1. nsent \in [Primaries -> Nat]
    BY Zenon DEF TypeOK
  <2>2. nsent[a] + 1 \in Nat
    BY <2>1
  <2> QED
    BY <2>2 DEF Addrs
<1>2. Commands(cont) \in Seq(Seglet)
  BY CommandsFacts
<1> QED
  BY <1>1, <1>2 DEF NewCall

\* Reads change the call and what has been sent.
LEMMA ReceiveCount ==
  ASSUME CountInv, NEW a \in Primaries, NEW n \in 1..MaxBatch,
         NEW shape \in [1..n -> Shapes], NEW len \in [1..n -> Lens], NEW k \in Int,
         Receive(a, n, shape, len) \/ ReceivePart(a, n, shape, len, k)
  PROVE  CountInv'
<1>1. TypeOK /\ ListInv
  BY DEF CountInv
<1>2. PICK b, cont :
            /\ b = Bodies(a, n, shape, len)
            /\ cont = LeftCom(a, nsent[a] + 1, b)
            /\ cont \in Seq(Line) /\ cont[Len(cont)].from \in {a, Garbled}
  BY <1>1, BodiesFacts
<1>3. /\ nsent' \in [Primaries -> Nat] /\ odd' \in SUBSET Primaries
      /\ cut' \in SUBSET Primaries
      /\ UNCHANGED <<up, used, segment, disk, cwd, now, acked, sentBack, written, faults,
                     restarts>>
  <2>1. Sends(a, n, shape) /\ (cut' = cut \/ cut' = cut \cup {a})
        /\ UNCHANGED <<up, used, segment, disk, cwd, now, acked, sentBack, written, faults,
                       restarts>>
    BY DEF Receive, ReceivePart, EndsInside
  <2>2. cut \in SUBSET Primaries
    BY <1>1, Zenon DEF TypeOK
  <2> QED
    BY <1>1, <2>1, <2>2, SendsFacts
<1>4. call' \in [busy : BOOLEAN, addr : Addrs, rest : Seq(Seglet), first : BOOLEAN,
                 req : Addrs \X Nat]
  <2>1. CASE Receive(a, n, shape, len)
    <3>1. call' = NewCall(a, cont[Len(cont)].from, cont)
      BY <1>2, <2>1 DEF Receive, ParseIpPort
    <3>2. cont[Len(cont)].from \in Addrs
      BY <1>2 DEF Addrs
    <3> QED
      BY <1>1, <1>2, <3>1, <3>2, NewCallType
  <2>2. CASE ReceivePart(a, n, shape, len, k)
    <3>1. PICK part : part = Part(a, n, shape, len, k)
      OBVIOUS
    <3>2. call' = NewCall(a, Garbled, part)
      BY <2>2, <3>1 DEF ReceivePart
    <3>3. part = SubSeq(cont, 1, k) /\ k <= Len(cont) /\ k \in Int
      <4>1. part = SubSeq(cont, 1, k)
        BY <1>2, <3>1 DEF Part
      <4>2. PICK m : m = Len(cont) - Len(b[n]) /\ k \in m..Len(cont)
        BY <1>2, <2>2 DEF ReceivePart, EndsInside
      <4> QED
        BY <1>2, <4>1, <4>2
    <3>4. part \in Seq(Line)
      BY <1>2, <3>3
    <3>5. Garbled \in Addrs
      BY DEF Addrs
    <3> QED
      BY <1>1, <3>2, <3>4, <3>5, NewCallType
  <2> QED
    BY <2>1, <2>2
<1>5. TypeOK'
  BY <1>1, <1>3, <1>4, Zenon DEF TypeOK
<1>6. ListInv'
  BY <1>1, <1>3 DEF ListInv
<1> QED
  BY <1>5, <1>6 DEF CountInv

\* The process dies: its files stay.
LEMMA DieCount ==
  ASSUME CountInv, NEW how \in {"killed", "segv in parse", "segv in append", "segv in load"},
         Die(how), nsent' \in [Primaries -> Nat], odd' \in SUBSET Primaries,
         cut' \in SUBSET Primaries
  PROVE  CountInv'
<1>1. TypeOK /\ ListInv
  BY DEF CountInv
<1>2. /\ up' = how /\ used' = FALSE /\ segment' = <<>> /\ call' = Idle
      /\ UNCHANGED <<disk, cwd, now, acked, sentBack, written, faults, restarts>>
  BY DEF Die
<1>3. <<>> \in Seq(Segment) /\ Len(<<>>) = 0 /\ DOMAIN <<>> = {}
  BY EmptyFacts
<1>4. call' \in [busy : BOOLEAN, addr : Addrs, rest : Seq(Seglet), first : BOOLEAN,
                 req : Addrs \X Nat]
  <2>1. <<>> \in Seq(Seglet)
    BY EmptyFacts
  <2>2. <<Garbled, 0>> \in Addrs \X Nat
    BY DEF Addrs
  <2> QED
    BY <1>2, <2>1, <2>2 DEF Idle, Addrs
<1>5. up' \in {"running", "killed", "segv in parse", "segv in append", "segv in load"}
  BY <1>2
<1>6. TypeOK'
  BY <1>1, <1>2, <1>3, <1>4, <1>5, Zenon DEF TypeOK
<1>7. ListInv'
  <2>1. Len(segment') <= 1 /\ DOMAIN segment' = {} /\ ~(segment' # <<>>)
    BY <1>2, EmptyFacts, Zenon
  <2> QED
    BY <1>1, <1>2, <2>1 DEF ListInv
<1> QED
  BY <1>6, <1>7 DEF CountInv

\* The other steps: the reply, recovery, a restart, the clock.
LEMMA OtherCount ==
  ASSUME CountInv,
         Reply \/ (\E a \in Primaries : SendToRecovery(a)) \/ Restart \/ Tick
         \/ UNCHANGED vars
  PROVE  CountInv'
<1>1. TypeOK /\ ListInv
  BY DEF CountInv
<1>2. UNCHANGED <<used, segment, disk>>
  BY DEF Reply, SendToRecovery, Restart, Tick, vars
<1>3. ListInv'
  BY <1>1, <1>2 DEF ListInv
<1>4. CASE Reply
  <2>1. acked' \in SUBSET (Addrs \X Nat)
    BY <1>1, <1>4, CallFields DEF Reply, TypeOK
  <2>2. call' \in [busy : BOOLEAN, addr : Addrs, rest : Seq(Seglet), first : BOOLEAN,
                   req : Addrs \X Nat]
    <3>1. <<>> \in Seq(Seglet) /\ <<Garbled, 0>> \in Addrs \X Nat
      BY DEF Addrs
    <3> QED
      BY <1>4, <3>1 DEF Reply, Idle, Addrs
  <2>3. TypeOK'
    BY <1>1, <1>4, <2>1, <2>2 DEF TypeOK, Reply
  <2> QED
    BY <1>3, <2>3 DEF CountInv
<1>5. ASSUME NEW a \in Primaries, SendToRecovery(a)
      PROVE  CountInv'
  <2>1. PICK f \in FilesOf(a) : sentBack' = [sentBack EXCEPT ![a] = ReadFile(f)]
    BY <1>5 DEF SendToRecovery
  <2>2. f \in File /\ f.num = Len(f.lets)
    BY <1>1, <2>1 DEF FilesOf, TypeOK, ListInv
  <2>3. f.lets \in Seq(Seglet)
    BY <2>2 DEF File
  <2>4. ReadFile(f) \in Seq(Seglet)
    BY <2>2, <2>3 DEF ReadFile
  <2>5. sentBack' \in [Addrs -> Seq(Seglet)]
    BY <1>1, <2>1, <2>4 DEF TypeOK
  <2>6. TypeOK'
    BY <1>1, <1>5, <2>5 DEF TypeOK, SendToRecovery
  <2> QED
    BY <1>3, <2>6 DEF CountInv
<1>6. CASE Restart
  <2>1. <<>> \in Seq(Addrs)
    OBVIOUS
  <2>2. restarts' \in Nat /\ up' = "running" /\ cwd' = <<>>
        /\ UNCHANGED <<used, segment, disk, now, call, nsent, odd, cut, acked, sentBack,
                       written, faults>>
    <3>1. restarts \in Nat
      BY <1>1, Zenon DEF TypeOK
    <3> QED
      BY <1>6, <3>1 DEF Restart
  <2>3. TypeOK'
    BY <1>1, <2>1, <2>2, Zenon DEF TypeOK
  <2> QED
    BY <1>3, <2>3 DEF CountInv
<1>7. CASE Tick
  <2>2. now' \in Nat
        /\ UNCHANGED <<up, used, segment, disk, cwd, call, nsent, odd, cut, acked, sentBack,
                       written, faults, restarts>>
    <3>1. now \in Nat
      BY <1>1, Zenon DEF TypeOK
    <3> QED
      BY <1>7, <3>1 DEF Tick
  <2>1. TypeOK'
    BY <1>1, <2>2, Zenon DEF TypeOK
  <2> QED
    BY <1>3, <2>1 DEF CountInv
<1>8. CASE UNCHANGED vars
  <2>1. TypeOK'
    BY <1>1, <1>8 DEF TypeOK, vars
  <2> QED
    BY <1>3, <2>1 DEF CountInv
<1> QED
  BY <1>4, <1>5, <1>6, <1>7, <1>8

\* Every step keeps types and counts.
LEMMA NextCount ==
  ASSUME CountInv, [Next]_vars
  PROVE  CountInv'
<1>1. CASE \E opened \in BOOLEAN : AppendFirst(opened) \/ AppendLater(opened)
  <2>1. PICK g : Appended(g)
    BY <1>1, AppendIs
  <2> QED
    BY <2>1, AppendedCount
<1>2. CASE AppendLaterNull \/ (\E a \in Primaries : SendToRecoveryNull(a)) \/ Kill
  <2>1. /\ nsent \in [Primaries -> Nat] /\ odd \in SUBSET Primaries
        /\ cut \in SUBSET Primaries
    BY Zenon DEF CountInv, TypeOK
  <2>2. PICK how \in {"killed", "segv in append", "segv in load"} :
            Die(how) /\ UNCHANGED <<nsent, odd, cut>>
    BY <1>2 DEF AppendLaterNull, SendToRecoveryNull, Kill
  <2> QED
    BY <2>1, <2>2, DieCount
<1>3. ASSUME NEW a \in Primaries, NEW n \in 1..MaxBatch, NEW shape \in [1..n -> Shapes],
             NEW len \in [1..n -> Lens], NEW k \in 0..(5 * n)
      PROVE  /\ Receive(a, n, shape, len) => CountInv'
             /\ ReceivePart(a, n, shape, len, k) => CountInv'
             /\ ReceivePartNull(a, n, shape, len, k) => CountInv'
  <2>1. k \in Int
    BY SegmentAssumption
  <2>2. ASSUME ReceivePartNull(a, n, shape, len, k)
        PROVE  CountInv'
    <3>1. /\ Sends(a, n, shape) /\ cut' = cut \cup {a} /\ Die("segv in parse")
      BY <2>2 DEF ReceivePartNull, EndsInside
    <3>2. TypeOK /\ cut \in SUBSET Primaries
      BY Zenon DEF CountInv, TypeOK
    <3>3. nsent' \in [Primaries -> Nat] /\ odd' \in SUBSET Primaries
      BY <3>1, <3>2, SendsFacts
    <3> QED
      BY <3>1, <3>2, <3>3, DieCount
  <2> QED
    BY <2>1, <2>2, ReceiveCount
<1>4. ASSUME NEW a \in Primaries, NEW n \in 1..MaxBatch, NEW shape \in [1..n -> Shapes],
             NEW len \in [1..n -> Lens], Receive(a, n, shape, len)
      PROVE  CountInv'
  <2>1. 0 \in Int
    OBVIOUS
  <2> QED
    BY <1>4, <2>1, ReceiveCount
<1> QED
  BY <1>1, <1>2, <1>3, <1>4, OtherCount, Zenon DEF Next

\* Types and counts hold always.
LEMMA CountInvariant == Spec => []CountInv
BY InitCount, NextCount, PTL DEF Spec

\* The type invariant, for every layout a request body may have.
THEOREM TypeCorrect == Spec => []TypeOK
<1>1. CountInv => TypeOK
  BY DEF CountInv
<1> QED
  BY <1>1, CountInvariant, PTL

\* The header of a segment, the name of its file and the capacity left account
\* for what is stored, for every layout a request body may have.
THEOREM SegmentsAccountedAlways == Spec => []SegmentsAccounted
<1>1. CountInv => SegmentsAccounted
  BY Zenon DEF CountInv, ListInv, SegmentsAccounted, Total
<1> QED
  BY <1>1, CountInvariant, PTL

-----------------------------------------------------------------------------
(***************************************************************************)
(* What is stored, in which order.                                         *)
(***************************************************************************)

\* A read of whole requests is filed under its sender, or under nobody.
LEMMA ReceiveFrom ==
  ASSUME TypeOK, NEW a \in Primaries, NEW n \in 1..MaxBatch,
         NEW shape \in [1..n -> Shapes], NEW len \in [1..n -> Lens],
         Receive(a, n, shape, len)
  PROVE  /\ call'.busy = TRUE /\ call'.addr \in {a, Garbled} /\ call'.first = TRUE
         /\ call'.req = <<a, nsent[a] + 1>>
<1>1. PICK b, cont :
            /\ b = Bodies(a, n, shape, len)
            /\ cont = LeftCom(a, nsent[a] + 1, b)
            /\ cont[Len(cont)].from \in {a, Garbled}
  BY BodiesFacts
<1>2. call' = NewCall(a, cont[Len(cont)].from, cont)
  BY <1>1 DEF Receive, ParseIpPort
<1> QED
  BY <1>1, <1>2 DEF NewCall

\* A read of n plain bodies is cut into its n commands.
LEMMA ReceivePlain ==
  ASSUME TypeOK, NEW a \in Primaries, NEW n \in 1..MaxBatch,
         NEW shape \in [1..n -> Shapes], NEW len \in [1..n -> Lens],
         \A i \in 1..n : shape[i] = "plain",
         Receive(a, n, shape, len)
  PROVE  /\ call'.busy = TRUE /\ call'.addr = a /\ call'.first = TRUE
         /\ call'.req = <<a, nsent[a] + 1>>
         /\ Len(call'.rest) = n /\ DOMAIN call'.rest = 1..n
         /\ \A i \in 1..n : Intact(call'.rest[i], a, nsent[a] + i)
<1>0. PICK b, cont :
            /\ b = Bodies(a, n, shape, len) /\ Len(b) = n
            /\ \A i \in 1..n : /\ b[i] = Body(a, nsent[a] + i, shape[i], len[i])
                               /\ b[i] \in Seq(Line) /\ b[i] # <<>>
            /\ cont = LeftCom(a, nsent[a] + 1, b)
            /\ cont \in Seq(Line) /\ cont # <<>>
  BY BodiesFacts
<1>1. /\ \A i \in 1..n : b[i] = Body(a, nsent[a] + i, shape[i], len[i])
      /\ Len(b) = n /\ \A i \in 1..n : b[i] \in Seq(Line) /\ b[i] # <<>>
      /\ cont = LeftCom(a, nsent[a] + 1, b)
      /\ cont \in Seq(Line) /\ cont # <<>>
      /\ call' = [busy |-> TRUE, addr |-> cont[Len(cont)].from,
                  rest |-> Commands(cont), first |-> TRUE,
                  req |-> <<a, nsent[a] + 1>>]
  <2>1. call' = NewCall(a, cont[Len(cont)].from, cont)
    BY <1>0 DEF Receive, ParseIpPort
  <2> QED
    BY <1>0, <2>1, Zenon DEF NewCall
<1>2. nsent[a] \in Nat /\ n \in Nat \ {0}
  <2>1. nsent \in [Primaries -> Nat]
    BY Zenon DEF TypeOK
  <2>2. n \in Nat \ {0}
    BY SegmentAssumption
  <2> QED
    BY <2>1, <2>2
<1>3. ASSUME NEW i \in 1..n
      PROVE  /\ Len(b[i]) = 3
             /\ Intact(<<b[i][1], b[i][2]>>, a, nsent[a] + i) /\ b[i][3].from = a
  <2>1. shape[i] = "plain" /\ len[i] \in Nat /\ nsent[a] + i \in Nat
    <3>1. shape[i] = "plain" /\ len[i] \in Lens
      OBVIOUS
    <3>2. nsent[a] + i \in Nat
      BY <1>2
    <3> QED
      BY <3>1, <3>2, SegmentAssumption
  <2>2. PICK m \in Nat, l \in Nat : m = nsent[a] + i /\ l = len[i]
    BY <2>1
  <2>3. \E q : /\ q = Body(a, m, "plain", l)
               /\ Len(q) = 3 /\ Intact(<<q[1], q[2]>>, a, m) /\ q[3].from = a
    BY BodyPlain, Zenon
  <2>4. b[i] = Body(a, m, "plain", l)
    BY <1>1, <2>1, <2>2, Zenon
  <2> QED
    BY <2>2, <2>3, <2>4, Zenon
<1>4. /\ Len(cont) = 4 * n - 1
      /\ \A i \in 1..n : cont[4*i - 3] = b[i][1] /\ cont[4*i - 2] = b[i][2]
      /\ cont[Len(cont)] = b[n][3]
  <2>1. PICK f \in Nat \ {0} : f = nsent[a] + 1
    BY <1>2
  <2>2. Len(b) \in Nat \ {0} /\ \A i \in 1..Len(b) : b[i] \in Seq(Line) /\ Len(b[i]) = 3
    BY <1>1, <1>2, <1>3
  <2>3. /\ Len(LeftCom(a, f, b)) = 4 * Len(b) - 1
        /\ \A i \in 1..Len(b) : /\ LeftCom(a, f, b)[4*i - 3] = b[i][1]
                                /\ LeftCom(a, f, b)[4*i - 2] = b[i][2]
        /\ LeftCom(a, f, b)[Len(LeftCom(a, f, b))] = b[Len(b)][3]
    BY <2>2, LeftComPlain
  <2>4. cont = LeftCom(a, f, b) /\ Len(b) = n
    BY <1>1, <2>1
  <2> QED
    BY <2>3, <2>4, Zenon
<1>5. /\ Len(Commands(cont)) = n /\ Commands(cont) \in Seq(Seglet)
      /\ \A i \in DOMAIN Commands(cont) : Commands(cont)[i] = <<cont[4*i - 3], cont[4*i - 2]>>
  BY <1>1, <1>2, <1>4, CommandsFacts
<1>6. DOMAIN Commands(cont) = 1..n
  BY <1>5
<1>7. \A i \in 1..n : Intact(Commands(cont)[i], a, nsent[a] + i)
  <2>1. ASSUME NEW i \in 1..n
        PROVE  Intact(Commands(cont)[i], a, nsent[a] + i)
    <3>1. Commands(cont)[i] = <<b[i][1], b[i][2]>>
      BY <1>4, <1>5, <1>6, Zenon
    <3>2. Intact(<<b[i][1], b[i][2]>>, a, nsent[a] + i)
      BY <1>3, Zenon
    <3> QED
      BY <3>1, <3>2, Zenon
  <2> QED
    BY <2>1
<1>8. cont[Len(cont)].from = a
  <2>1. n \in 1..n
    BY <1>2
  <2> QED
    BY <1>3, <1>4, <2>1
<1> QED
  BY <1>1, <1>5, <1>6, <1>7, <1>8

\* The numbers of a segment's commands are numbers.
LEMMA NumberType ==
  ASSUME NEW lets \in Seq(Seglet), NEW i \in DOMAIN lets
  PROVE  lets[i][1].n \in Nat /\ i \in Nat
<1>1. lets[i] \in Seglet /\ i \in Nat
  OBVIOUS
<1> QED
  BY <1>1 DEF Seglet, Line

\* A run that ends with the n-th command is one.
LEMMA RunToRise ==
  ASSUME NEW lets \in Seq(Seglet), NEW a, NEW n \in Nat, RunTo(lets, a, n)
  PROVE  RiseTo(lets, a, n) /\ Consecutive(lets)
<1>1. Len(lets) \in Nat /\ DOMAIN lets = 1..Len(lets)
  OBVIOUS
<1>2. ASSUME NEW i \in DOMAIN lets
      PROVE  lets[i][1].n = n - Len(lets) + i /\ Intact(lets[i], a, lets[i][1].n)
  <2>1. Intact(lets[i], a, n - Len(lets) + i)
    BY DEF RunTo
  <2>2. lets[i][1].n = n - Len(lets) + i
    BY <2>1 DEF Intact
  <2> QED
    BY <2>1, <2>2, Zenon
<1>3. ASSUME NEW i \in DOMAIN lets
      PROVE  /\ lets[i][1].n <= n /\ lets[i][1].n = lets[1][1].n + i - 1
             /\ \A j \in 1..(i-1) : lets[j][1].n < lets[i][1].n
  <2>1. 1 \in DOMAIN lets /\ i \in 1..Len(lets) /\ \A j \in 1..(i-1) : j \in DOMAIN lets
    BY <1>1
  <2>2. lets[i][1].n = n - Len(lets) + i /\ lets[1][1].n = n - Len(lets) + 1
    BY <1>2, <2>1
  <2>3. \A j \in 1..(i-1) : lets[j][1].n = n - Len(lets) + j
    BY <1>2, <2>1
  <2> QED
    BY <1>1, <2>1, <2>2, <2>3
<1> QED
  BY <1>2, <1>3, Zenon DEF RiseTo, Rising, Consecutive

\* The next command makes it longer.
LEMMA RiseToAppend ==
  ASSUME NEW lets \in Seq(Seglet), NEW c \in Seglet, NEW a, NEW n \in Nat,
         RiseTo(lets, a, n), Intact(c, a, n + 1)
  PROVE  RiseTo(Append(lets, c), a, n + 1)
<1> DEFINE q == Append(lets, c)
<1>1. /\ Len(lets) \in Nat /\ DOMAIN q = 1..(Len(lets) + 1)
      /\ q[Len(lets) + 1] = c /\ \A i \in 1..Len(lets) : q[i] = lets[i]
      /\ DOMAIN lets = 1..Len(lets)
  OBVIOUS
<1>2. c[1].n = n + 1 /\ Intact(c, a, c[1].n)
  BY Zenon DEF Intact
<1> HIDE DEF q
<1>3. ASSUME NEW i \in DOMAIN lets
      PROVE  /\ q[i] = lets[i] /\ lets[i][1].n \in Nat /\ lets[i][1].n <= n
             /\ Intact(lets[i], a, lets[i][1].n)
             /\ \A j \in 1..(i-1) : lets[j][1].n < lets[i][1].n /\ q[j] = lets[j]
  BY <1>1, NumberType DEF RiseTo, Rising
<1>4. ASSUME NEW i \in DOMAIN q
      PROVE  /\ Intact(q[i], a, q[i][1].n) /\ q[i][1].n <= n + 1
             /\ \A j \in 1..(i-1) : q[j][1].n < q[i][1].n
  <2>1. CASE i \in DOMAIN lets
    <3>1. /\ q[i] = lets[i] /\ lets[i][1].n \in Nat /\ lets[i][1].n <= n
          /\ Intact(lets[i], a, lets[i][1].n)
          /\ \A j \in 1..(i-1) : lets[j][1].n < lets[i][1].n /\ q[j] = lets[j]
      BY <1>3, <2>1
    <3>2. lets[i][1].n <= n + 1
      BY <3>1
    <3> QED
      BY <3>1, <3>2, Zenon
  <2>2. CASE i = Len(lets) + 1
    <3>1. ASSUME NEW j \in 1..(i-1)
          PROVE  q[j][1].n < n + 1
      <4>1. j \in DOMAIN lets
        BY <1>1, <2>2
      <4>2. q[j] = lets[j] /\ lets[j][1].n \in Nat /\ lets[j][1].n <= n
        BY <1>3, <4>1
      <4>3. lets[j][1].n < n + 1
        BY <4>2
      <4> QED
        BY <4>2, <4>3, Zenon
    <3>2. q[i] = c /\ n + 1 <= n + 1
      BY <1>1, <2>2
    <3> QED
      BY <1>2, <3>1, <3>2, Zenon
  <2> QED
    BY <1>1, <2>1, <2>2
<1> QED
  BY <1>4, Zenon DEF RiseTo, Rising, q

\* What ends with the m-th command ends before a later one.
LEMMA RiseToLater ==
  ASSUME NEW lets \in Seq(Seglet), NEW a, NEW m \in Nat, NEW n \in Nat, m <= n,
         RiseTo(lets, a, m)
  PROVE  RiseTo(lets, a, n)
<1>1. ASSUME NEW i \in DOMAIN lets
      PROVE  lets[i][1].n <= n
  <2>1. lets[i][1].n \in Nat /\ lets[i][1].n <= m
    BY NumberType DEF RiseTo
  <2> QED
    BY <2>1
<1> QED
  BY <1>1 DEF RiseTo

\* What is kept stays right when more exceptions are known.
LEMMA RunAsLater ==
  ASSUME NEW lets, NEW a, NEW d, NEW t, NEW d2, NEW t2, d \subseteq d2, t \subseteq t2,
         RunAs(lets, a, d, t)
  PROVE  RunAs(lets, a, d2, t2)
BY DEF RunAs

\* The next command makes the run longer.
LEMMA RunToAppend ==
  ASSUME NEW lets \in Seq(Seglet), NEW c \in Seglet, NEW a, NEW n \in Nat,
         RunTo(lets, a, n), Intact(c, a, n + 1)
  PROVE  RunTo(Append(lets, c), a, n + 1)
<1> DEFINE q == Append(lets, c)
<1>1. /\ Len(q) = Len(lets) + 1 /\ Len(lets) \in Nat /\ DOMAIN q = 1..(Len(lets) + 1)
      /\ q[Len(lets) + 1] = c /\ \A i \in 1..Len(lets) : q[i] = lets[i]
      /\ DOMAIN lets = 1..Len(lets)
  OBVIOUS
<1> HIDE DEF q
<1>2. ASSUME NEW i \in DOMAIN q
      PROVE  Intact(q[i], a, (n + 1) - Len(q) + i)
  <2>1. CASE i = Len(lets) + 1
    <3>1. (n + 1) - Len(q) + i = n + 1
      BY <1>1, <2>1
    <3> QED
      BY <1>1, <2>1, <3>1
  <2>2. CASE i \in 1..Len(lets)
    <3>1. (n + 1) - Len(q) + i = n - Len(lets) + i
      BY <1>1, <2>2
    <3>2. Intact(lets[i], a, n - Len(lets) + i)
      BY <1>1, <2>2 DEF RunTo
    <3> QED
      BY <1>1, <2>2, <3>1, <3>2
  <2> QED
    BY <1>1, <2>1, <2>2
<1> QED
  BY <1>2 DEF RunTo, q

\* A run of one command.
LEMMA RunToOne ==
  ASSUME NEW c \in Seglet, NEW a, NEW n \in Nat, Intact(c, a, n)
  PROVE  RunTo(<<c>>, a, n)
<1>1. Len(<<c>>) = 1 /\ DOMAIN <<c>> = {1} /\ <<c>>[1] = c
  OBVIOUS
<1>2. n - 1 + 1 = n
  OBVIOUS
<1> QED
  BY <1>1, <1>2 DEF RunTo

\* What is left of a run whose last command is the n-th.
LEMMA RunToTail ==
  ASSUME NEW lets \in Seq(Seglet), lets # <<>>, NEW a, NEW n \in Nat, RunTo(lets, a, n)
  PROVE  /\ Intact(Head(lets), a, n - Len(lets) + 1) /\ RunTo(Tail(lets), a, n)
         /\ Len(Tail(lets)) = Len(lets) - 1 /\ Len(lets) \in Nat \ {0}
<1>1. /\ Len(lets) \in Nat \ {0} /\ Len(Tail(lets)) = Len(lets) - 1
      /\ Head(lets) = lets[1] /\ DOMAIN lets = 1..Len(lets)
      /\ DOMAIN Tail(lets) = 1..(Len(lets) - 1)
      /\ \A i \in 1..(Len(lets) - 1) : Tail(lets)[i] = lets[i + 1]
  OBVIOUS
<1>2. Intact(Head(lets), a, n - Len(lets) + 1)
  BY <1>1 DEF RunTo
<1>3. ASSUME NEW i \in DOMAIN Tail(lets)
      PROVE  Intact(Tail(lets)[i], a, n - Len(Tail(lets)) + i)
  <2>1. i + 1 \in DOMAIN lets /\ n - Len(lets) + (i + 1) = n - Len(Tail(lets)) + i
    BY <1>1
  <2>2. Intact(lets[i + 1], a, n - Len(lets) + (i + 1))
    BY <2>1 DEF RunTo
  <2> QED
    BY <1>1, <2>1, <2>2
<1> QED
  BY <1>1, <1>2, <1>3 DEF RunTo

-----------------------------------------------------------------------------
\* A call with nothing left has handled all that was sent.
LEMMA MinusZero == \A m \in Nat : m - 0 = m
OBVIOUS

\* How many commands of a primary have been handled is a number.
LEMMA HandledType ==
  ASSUME TypeOK, OrderInv, NEW a \in Primaries \ odd
  PROVE  Handled(call, nsent, a) \in Nat
<1>1. nsent \in [Primaries -> Nat] /\ call.rest \in Seq(Seglet)
  BY CallFields, Zenon DEF TypeOK
<1>2. Len(call.rest) \in Nat /\ nsent[a] \in Nat
  BY <1>1
<1>3. call.busy /\ call.addr = a => Len(call.rest) <= nsent[a]
  BY DEF OrderInv, CallOrder
<1> QED
  BY <1>2, <1>3 DEF Handled

\* Steps that keep the last command handled of each primary, or record an
\* exception and let it grow, keep the order of the segment.
LEMMA SegmentOrderFrame ==
  ASSUME NEW seg, seg.lets \in Seq(Seglet), NEW cl, NEW ns, NEW d, NEW t,
         NEW cl2, NEW ns2, NEW d2, NEW t2, d \subseteq d2, t \subseteq t2,
         SegmentOrder(seg, cl, ns, d, t),
         \A b \in Primaries \ d2 :
            \/ Handled(cl2, ns2, b) = Handled(cl, ns, b)
            \/ /\ b \in t2 /\ Handled(cl, ns, b) \in Nat /\ Handled(cl2, ns2, b) \in Nat
               /\ Handled(cl, ns, b) <= Handled(cl2, ns2, b)
  PROVE  SegmentOrder(seg, cl2, ns2, d2, t2)
<1> SUFFICES ASSUME seg.addr \in Primaries \ d2
             PROVE  /\ RiseTo(seg.lets, seg.addr, Handled(cl2, ns2, seg.addr))
                    /\ seg.addr \notin t2
                         => RunTo(seg.lets, seg.addr, Handled(cl2, ns2, seg.addr))
  BY DEF SegmentOrder
<1>1. PICK b \in Primaries \ d2 : b = seg.addr
  OBVIOUS
<1>2. /\ RiseTo(seg.lets, b, Handled(cl, ns, b))
      /\ b \notin t => RunTo(seg.lets, b, Handled(cl, ns, b))
  BY <1>1 DEF SegmentOrder
<1>3. CASE Handled(cl2, ns2, b) = Handled(cl, ns, b)
  BY <1>1, <1>2, <1>3, Zenon
<1>4. CASE /\ b \in t2 /\ Handled(cl, ns, b) \in Nat /\ Handled(cl2, ns2, b) \in Nat
           /\ Handled(cl, ns, b) <= Handled(cl2, ns2, b)
  <2>1. PICK lets \in Seq(Seglet), m \in Nat, k \in Nat :
            lets = seg.lets /\ m = Handled(cl, ns, b) /\ k = Handled(cl2, ns2, b) /\ m <= k
    BY <1>4
  <2>2. RiseTo(lets, b, k)
    BY <1>2, <2>1, RiseToLater, Zenon
  <2> QED
    BY <1>1, <1>4, <2>1, <2>2, Zenon
<1> QED
  BY <1>1, <1>3, <1>4

\* The segments in memory hold seglets.
LEMMA LetsType ==
  ASSUME TypeOK, NEW i \in DOMAIN segment
  PROVE  segment[i] \in Segment /\ segment[i].lets \in Seq(Seglet)
<1>1. segment \in Seq(Segment)
  BY Zenon DEF TypeOK
<1>2. segment[i] \in Segment
  BY <1>1
<1> QED
  BY <1>2, SegmentFields

\* Senders that have sent more, and more exceptions.
LEMMA SentByLater ==
  ASSUME NEW addr, NEW b, NEW ns, NEW x, NEW ns2, NEW x2, x \subseteq x2,
         SentBy(addr, b, ns, x), ns[b] > 0 => ns2[b] > 0
  PROVE  SentBy(addr, b, ns2, x2)
BY DEF SentBy

\* Steps that change nothing that is kept, and let what has been sent and the
\* exceptions grow.
LEMMA KeptFrame ==
  ASSUME TypeOK, OrderInv, UNCHANGED <<segment, disk, sentBack>>,
         odd \subseteq odd', cut \subseteq cut',
         \A b \in Primaries : nsent[b] > 0 => nsent'[b] > 0,
         \A b \in Primaries \ odd' :
            \/ Handled(call', nsent', b) = Handled(call, nsent, b)
            \/ /\ b \in cut' /\ Handled(call, nsent, b) \in Nat
               /\ Handled(call', nsent', b) \in Nat
               /\ Handled(call, nsent, b) <= Handled(call', nsent', b)
  PROVE  /\ \A i \in DOMAIN segment' :
               /\ SegmentOrder(segment'[i], call', nsent', odd', cut')
               /\ \E b : SentBy(segment'[i].addr, b, nsent', odd' \cup cut')
         /\ \A f \in disk' : RunAs(f.lets, f.dir[Len(f.dir)], odd', cut')
         /\ \A a \in Primaries : RunAs(sentBack'[a], a, odd', cut')
<1>1. ASSUME NEW i \in DOMAIN segment
      PROVE  /\ SegmentOrder(segment[i], call', nsent', odd', cut')
             /\ \E b : SentBy(segment[i].addr, b, nsent', odd' \cup cut')
  <2>1. SegmentOrder(segment[i], call, nsent, odd, cut) /\ segment[i].lets \in Seq(Seglet)
    BY LetsType DEF OrderInv
  <2>2. SegmentOrder(segment[i], call', nsent', odd', cut')
    BY <2>1, SegmentOrderFrame, Zenon
  <2>3. PICK b : SentBy(segment[i].addr, b, nsent, odd \cup cut)
    BY DEF OrderInv
  <2>4. (odd \cup cut) \subseteq (odd' \cup cut') /\ (nsent[b] > 0 => nsent'[b] > 0)
    BY <2>3 DEF SentBy
  <2>5. SentBy(segment[i].addr, b, nsent', odd' \cup cut')
    BY <2>3, <2>4, SentByLater, Zenon
  <2> QED
    BY <2>2, <2>5
<1>2. \A f \in disk : RunAs(f.lets, f.dir[Len(f.dir)], odd', cut')
  BY RunAsLater, Zenon DEF OrderInv
<1>3. \A a \in Primaries : RunAs(sentBack[a], a, odd', cut')
  BY RunAsLater, Zenon DEF OrderInv
<1> QED
  BY <1>1, <1>2, <1>3

\* A read of whole requests.
LEMMA ReceiveOrder ==
  ASSUME CountInv, OrderInv, NEW a \in Primaries, NEW n \in 1..MaxBatch,
         NEW shape \in [1..n -> Shapes], NEW len \in [1..n -> Lens],
         Receive(a, n, shape, len)
  PROVE  OrderInv'
<1>1. TypeOK
  BY DEF CountInv
<1>2. /\ call'.busy = TRUE /\ call'.addr \in {a, Garbled} /\ call'.first = TRUE
      /\ call'.req = <<a, nsent[a] + 1>>
  BY <1>1, ReceiveFrom
<1>3. /\ ~call.busy /\ Sends(a, n, shape)
      /\ UNCHANGED <<segment, disk, sentBack, cut>>
  BY DEF Receive
<1>4. /\ n \in Nat \ {0} /\ nsent \in [Primaries -> Nat] /\ nsent' \in [Primaries -> Nat]
      /\ \A b \in Primaries : nsent'[b] = IF b = a THEN nsent[a] + n ELSE nsent[b]
      /\ odd \subseteq odd' /\ ((\E i \in 1..n : shape[i] # "plain") => a \in odd')
  BY <1>1, <1>3, SendsFacts
<1>5. nsent[a] \in Nat /\ nsent'[a] = nsent[a] + n /\ nsent'[a] > 0
  BY <1>4
<1>6. a \notin odd' =>
        /\ call'.addr = a /\ Len(call'.rest) = n /\ DOMAIN call'.rest = 1..n
        /\ \A i \in 1..n : Intact(call'.rest[i], a, nsent[a] + i)
  <2> SUFFICES ASSUME a \notin odd'
               PROVE  /\ call'.addr = a /\ Len(call'.rest) = n /\ DOMAIN call'.rest = 1..n
                      /\ \A i \in 1..n : Intact(call'.rest[i], a, nsent[a] + i)
    OBVIOUS
  <2>1. \A i \in 1..n : shape[i] = "plain"
    BY <1>4
  <2> QED
    BY <1>1, <2>1, ReceivePlain
<1>7. CallOrder(call', nsent', odd')
  <2> SUFFICES ASSUME a \notin odd'
               PROVE  CallOrder(call', nsent', odd')
    BY <1>2, SegmentAssumption DEF CallOrder
  <2>2. ASSUME NEW i \in DOMAIN call'.rest
        PROVE  Intact(call'.rest[i], a, nsent'[a] - Len(call'.rest) + i)
    <3>1. i \in 1..n /\ nsent'[a] - Len(call'.rest) + i = nsent[a] + i
      BY <1>4, <1>5, <1>6
    <3> QED
      BY <1>6, <3>1
  <2>3. RunTo(call'.rest, a, nsent'[a])
    BY <2>2 DEF RunTo
  <2>4. call'.rest # <<>>
    BY <1>4, <1>6
  <2>5. Len(call'.rest) <= nsent'[a]
    BY <1>4, <1>5, <1>6
  <2> QED
    BY <1>6, <2>3, <2>4, <2>5 DEF CallOrder
<1>8. SentBy(call'.addr, call'.req[1], nsent', odd' \cup cut')
  <2>1. call'.req[1] = a
    BY <1>2
  <2> QED
    BY <1>5, <1>6, <2>1 DEF SentBy
<1>9. ASSUME NEW b \in Primaries \ odd'
      PROVE  Handled(call', nsent', b) = Handled(call, nsent, b)
  <2>1. nsent[b] \in Nat
    BY <1>4
  <2>2. CASE b = a
    BY <1>2, <1>3, <1>4, <1>5, <1>6, <2>1, <2>2 DEF Handled
  <2>3. CASE b # a
    <3>1. call'.addr # b /\ nsent'[b] = nsent[b]
      BY <1>2, <1>4, <2>3, SegmentAssumption
    <3> QED
      BY <1>3, <3>1 DEF Handled
  <2> QED
    BY <2>2, <2>3
<1>10. \A b \in Primaries : nsent[b] > 0 => nsent'[b] > 0
  <2>1. ASSUME NEW b \in Primaries, nsent[b] > 0
        PROVE  nsent'[b] > 0
    BY <1>4, <1>5, <2>1
  <2> QED
    BY <2>1
<1>11. /\ \A i \in DOMAIN segment' :
             /\ SegmentOrder(segment'[i], call', nsent', odd', cut')
             /\ \E b : SentBy(segment'[i].addr, b, nsent', odd' \cup cut')
       /\ \A f \in disk' : RunAs(f.lets, f.dir[Len(f.dir)], odd', cut')
       /\ \A b \in Primaries : RunAs(sentBack'[b], b, odd', cut')
  <2>1. cut \subseteq cut'
    BY <1>3
  <2> QED
    BY <1>1, <1>3, <1>4, <1>9, <1>10, <2>1, KeptFrame
<1> QED
  BY <1>7, <1>8, <1>11 DEF OrderInv

\* A read that ends inside a request is filed under nobody.
LEMMA ReceivePartOrder ==
  ASSUME CountInv, OrderInv, NEW a \in Primaries, NEW n \in 1..MaxBatch,
         NEW shape, NEW len, NEW k, ReceivePart(a, n, shape, len, k)
  PROVE  OrderInv'
<1>1. TypeOK
  BY DEF CountInv
<1>2. /\ call'.busy = TRUE /\ call'.addr = Garbled /\ call'.req = <<a, nsent[a] + 1>>
  BY DEF ReceivePart, NewCall
<1>3. /\ ~call.busy /\ Sends(a, n, shape) /\ cut' = cut \cup {a}
      /\ UNCHANGED <<segment, disk, sentBack>>
  BY DEF ReceivePart, EndsInside
<1>4. /\ n \in Nat \ {0} /\ nsent \in [Primaries -> Nat] /\ nsent' \in [Primaries -> Nat]
      /\ \A b \in Primaries : nsent'[b] = IF b = a THEN nsent[a] + n ELSE nsent[b]
      /\ odd \subseteq odd'
  BY <1>1, <1>3, SendsFacts
<1>5. nsent[a] \in Nat /\ nsent'[a] = nsent[a] + n /\ nsent'[a] > 0
  BY <1>4
<1>6. CallOrder(call', nsent', odd')
  BY <1>2, SegmentAssumption DEF CallOrder
<1>7. SentBy(call'.addr, call'.req[1], nsent', odd' \cup cut')
  <2>1. call'.req[1] = a
    BY <1>2
  <2> QED
    BY <1>3, <1>5, <2>1 DEF SentBy
<1>8. ASSUME NEW b \in Primaries \ odd'
      PROVE  \/ Handled(call', nsent', b) = Handled(call, nsent, b)
             \/ /\ b \in cut' /\ Handled(call, nsent, b) \in Nat
                /\ Handled(call', nsent', b) \in Nat
                /\ Handled(call, nsent, b) <= Handled(call', nsent', b)
  <2>1. Handled(call, nsent, b) = nsent[b] /\ Handled(call', nsent', b) = nsent'[b]
    BY <1>2, <1>3, SegmentAssumption DEF Handled
  <2> QED
    BY <1>3, <1>4, <1>5, <2>1
<1>9. \A b \in Primaries : nsent[b] > 0 => nsent'[b] > 0
  <2>1. ASSUME NEW b \in Primaries, nsent[b] > 0
        PROVE  nsent'[b] > 0
    BY <1>4, <1>5, <2>1
  <2> QED
    BY <2>1
<1>10. /\ \A i \in DOMAIN segment' :
             /\ SegmentOrder(segment'[i], call', nsent', odd', cut')
             /\ \E b : SentBy(segment'[i].addr, b, nsent', odd' \cup cut')
       /\ \A f \in disk' : RunAs(f.lets, f.dir[Len(f.dir)], odd', cut')
       /\ \A b \in Primaries : RunAs(sentBack'[b], b, odd', cut')
  <2>1. cut \subseteq cut'
    BY <1>3
  <2> QED
    BY <1>1, <1>3, <1>4, <1>8, <1>9, <2>1, KeptFrame
<1> QED
  BY <1>6, <1>7, <1>10 DEF OrderInv

\* A command is added under the address of a primary that sends plain bodies: it
\* is the next one of it.
LEMMA AppendedRun ==
  ASSUME CountInv, OrderInv, NEW g, Appended(g), call.addr \in Primaries \ odd
  PROVE  /\ CallOrder(call', nsent', odd')
         /\ SegmentOrder(g[1], call', nsent', odd', cut')
         /\ RunAs(g[1].lets, call.addr, odd', cut')
<1>0. PICK a, c, rest : a = call.addr /\ c = Head(call.rest) /\ rest = call.rest
  OBVIOUS
<1>1. TypeOK /\ ListInv
  BY DEF CountInv
<1>2. /\ call.busy /\ rest # <<>> /\ NextCommand /\ Grown(segment, g, a, c)
      /\ UNCHANGED <<nsent, odd, cut>>
  BY <1>0 DEF Appended
<1>3. /\ rest \in Seq(Seglet) /\ c \in Seglet /\ nsent \in [Primaries -> Nat]
      /\ a \in Primaries \ odd
  <2>1. rest \in Seq(Seglet)
    BY <1>0, <1>1, CallFields
  <2>2. c \in Seglet
    BY <1>0, <1>2, <2>1
  <2> QED
    BY <1>0, <1>1, <2>1, <2>2, Zenon DEF TypeOK
<1>4. RunTo(rest, a, nsent[a]) /\ Len(rest) <= nsent[a] /\ nsent[a] \in Nat
  <2>1. nsent[a] \in Nat
    BY <1>3
  <2> QED
    BY <1>0, <1>2, <1>3, <2>1 DEF OrderInv, CallOrder
<1>5. /\ Intact(c, a, nsent[a] - Len(rest) + 1) /\ RunTo(Tail(rest), a, nsent[a])
      /\ Len(Tail(rest)) = Len(rest) - 1 /\ Len(rest) \in Nat \ {0}
  BY <1>0, <1>2, <1>3, <1>4, RunToTail
<1>6. /\ call'.busy = call.busy /\ call'.addr = a /\ call'.rest = Tail(rest)
      /\ call'.first = FALSE
  BY <1>0, <1>1, <1>2, NextCommandFacts
<1>7. CallOrder(call', nsent', odd')
  <2>1. Len(Tail(rest)) <= nsent[a]
    BY <1>4, <1>5
  <2> QED
    BY <1>2, <1>5, <1>6, <2>1 DEF CallOrder
<1>8. /\ Handled(call, nsent, a) = nsent[a] - Len(rest)
      /\ Handled(call', nsent', a) = nsent[a] - Len(rest) + 1
  BY <1>0, <1>2, <1>4, <1>5, <1>6 DEF Handled
<1>9. PICK h \in Nat : h = nsent[a] - Len(rest)
  BY <1>4, <1>5
<1>10. /\ Len(g) = 1 /\ g \in Seq(Segment) /\ g[1].addr = a /\ g[1] \in Segment
       /\ g[1].lets \in Seq(Seglet)
  <2>1. Len(g) = 1 /\ g \in Seq(Segment) /\ g[1].addr = a
    BY <1>2 DEF Grown
  <2>2. g[1] \in Segment
    BY <2>1, OneFacts
  <2> QED
    BY <2>1, <2>2, SegmentFields
<1>11. RiseTo(g[1].lets, a, h + 1) /\ (a \notin cut => RunTo(g[1].lets, a, h + 1))
  <2>1. Intact(c, a, h + 1) /\ h + 1 \in Nat
    BY <1>5, <1>9
  <2>2. CASE segment # <<>> /\ segment[1].addr = a /\ g[1].lets = Append(segment[1].lets, c)
    <3>1. segment \in Seq(Segment) /\ Len(segment) <= 1
      BY <1>1, Zenon DEF TypeOK, ListInv
    <3>2. segment[1] \in Segment /\ DOMAIN segment = {1}
      BY <2>2, <3>1, AtMostOne
    <3>3. segment[1].lets \in Seq(Seglet)
      BY <3>2, SegmentFields
    <3>4. SegmentOrder(segment[1], call, nsent, odd, cut)
      BY <3>2, Zenon DEF OrderInv
    <3>5. RiseTo(segment[1].lets, a, h) /\ (a \notin cut => RunTo(segment[1].lets, a, h))
      BY <1>3, <1>8, <1>9, <2>2, <3>4, Zenon DEF SegmentOrder
    <3>6. RiseTo(Append(segment[1].lets, c), a, h + 1)
      BY <1>3, <2>1, <3>3, <3>5, RiseToAppend
    <3>7. a \notin cut => RunTo(Append(segment[1].lets, c), a, h + 1)
      BY <1>3, <2>1, <3>3, <3>5, RunToAppend
    <3> QED
      BY <2>2, <3>6, <3>7, Zenon
  <2>3. CASE g[1].lets = <<c>>
    <3>1. RunTo(<<c>>, a, h + 1)
      BY <1>3, <2>1, RunToOne
    <3>2. RiseTo(<<c>>, a, h + 1)
      BY <1>10, <2>1, <2>3, <3>1, RunToRise
    <3> QED
      BY <2>3, <3>1, <3>2, Zenon
  <2> QED
    BY <1>2, <2>2, <2>3 DEF Grown
<1>12. SegmentOrder(g[1], call', nsent', odd', cut')
  <2>1. Handled(call', nsent', a) = h + 1
    BY <1>4, <1>5, <1>8, <1>9
  <2> QED
    BY <1>2, <1>10, <1>11, <2>1, Zenon DEF SegmentOrder
<1>13. RunAs(g[1].lets, call.addr, odd', cut')
  <2>1. a \notin cut => Consecutive(g[1].lets)
    <3>1. h + 1 \in Nat
      OBVIOUS
    <3> QED
      BY <1>10, <1>11, <3>1, RunToRise
  <2> QED
    BY <1>0, <1>2, <1>11, <2>1, Zenon DEF RunAs, RiseTo
<1> QED
  BY <1>7, <1>12, <1>13

\* A command is added.
LEMMA AppendedOrder ==
  ASSUME CountInv, OrderInv, NEW g, Appended(g)
  PROVE  OrderInv'
<1>0. PICK a : a = call.addr
  OBVIOUS
<1>1. TypeOK /\ ListInv
  BY DEF CountInv
<1>2. /\ call.busy /\ call.rest # <<>> /\ NextCommand
      /\ Grown(segment, g, a, Head(call.rest))
      /\ UNCHANGED <<nsent, odd, cut, sentBack>>
  BY <1>0 DEF Appended
<1>3. /\ call'.busy = call.busy /\ call'.addr = a /\ call'.req = call.req
  BY <1>0, <1>1, <1>2, NextCommandFacts
<1>4. Len(g) = 1 /\ g \in Seq(Segment) /\ g[1].addr = a /\ DOMAIN g = {1}
  BY <1>2, OneFacts DEF Grown
<1>5. /\ CallOrder(call', nsent', odd')
      /\ SegmentOrder(g[1], call', nsent', odd', cut')
      /\ RunAs(g[1].lets, a, odd', cut')
  <2>1. CASE a \in Primaries \ odd
    BY <1>0, <2>1, AppendedRun, Zenon
  <2>2. CASE a \notin Primaries \ odd
    BY <1>2, <1>3, <1>4, <2>2, Zenon DEF CallOrder, SegmentOrder, RunAs
  <2> QED
    BY <2>1, <2>2
<1>6. SentBy(a, call.req[1], nsent, odd \cup cut)
  BY <1>0, <1>2, Zenon DEF OrderInv
<1>7. SentBy(a, call.req[1], nsent', odd' \cup cut')
  BY <1>2, <1>6, Zenon
<1>8. ASSUME NEW i \in DOMAIN segment'
      PROVE  /\ SegmentOrder(segment'[i], call', nsent', odd', cut')
             /\ \E b : SentBy(segment'[i].addr, b, nsent', odd' \cup cut')
  <2>1. CASE segment' = g
    <3>1. i = 1 /\ segment'[i] = g[1]
      BY <1>4, <2>1
    <3> QED
      BY <1>4, <1>5, <1>7, <3>1, Zenon
  <2>2. CASE segment' = <<>>
    <3>1. DOMAIN segment' = {}
      BY <2>2
    <3> QED
      BY <3>1
  <2> QED
    BY <2>1, <2>2 DEF Appended
<1>9. \A f \in disk' : RunAs(f.lets, f.dir[Len(f.dir)], odd', cut')
  <2> DEFINE new == FileOf(g[1])
  <2>1. disk' \subseteq disk \cup {new}
    BY DEF Appended, WriteFile
  <2>3. new.lets = g[1].lets /\ new.dir = Append(cwd, a)
    BY <1>4 DEF FileOf
  <2>4. cwd \in Seq(Addrs)
    BY <1>1, Zenon DEF TypeOK
  <2>5. new.dir[Len(new.dir)] = a
    BY <2>3, <2>4
  <2> HIDE DEF new
  <2>6. \A f \in disk : RunAs(f.lets, f.dir[Len(f.dir)], odd', cut')
    BY <1>2, Zenon DEF OrderInv
  <2> QED
    BY <1>5, <2>1, <2>3, <2>5, <2>6
<1>10. \A b \in Primaries : RunAs(sentBack'[b], b, odd', cut')
  BY <1>2, Zenon DEF OrderInv
<1>11. call'.busy => SentBy(call'.addr, call'.req[1], nsent', odd' \cup cut')
  BY <1>3, <1>7, Zenon
<1> QED
  BY <1>5, <1>8, <1>9, <1>10, <1>11 DEF OrderInv

\* The process dies, perhaps of a read that ends inside a request.
LEMMA DieOrder ==
  ASSUME CountInv, OrderInv, NEW how, Die(how), odd \subseteq odd', cut \subseteq cut'
  PROVE  OrderInv'
<1>1. call' = Idle /\ segment' = <<>> /\ UNCHANGED <<disk, sentBack>>
  BY DEF Die
<1>2. ~call'.busy /\ DOMAIN segment' = {}
  BY <1>1, EmptyFacts, Zenon DEF Idle
<1>3. \A f \in disk' : RunAs(f.lets, f.dir[Len(f.dir)], odd', cut')
  BY <1>1, RunAsLater, Zenon DEF OrderInv
<1>4. \A a \in Primaries : RunAs(sentBack'[a], a, odd', cut')
  BY <1>1, RunAsLater, Zenon DEF OrderInv
<1> QED
  BY <1>2, <1>3, <1>4, Zenon DEF OrderInv, CallOrder

\* The other steps.
LEMMA OtherOrder ==
  ASSUME CountInv, OrderInv,
         \/ Reply \/ (\E a \in Primaries : SendToRecovery(a)) \/ Restart \/ Tick
         \/ UNCHANGED vars
  PROVE  OrderInv'
<1>1. TypeOK /\ ListInv
  BY DEF CountInv
<1>2. UNCHANGED <<disk, nsent, odd, cut, segment>>
  BY DEF Reply, SendToRecovery, Restart, Tick, vars
<1>3. \A f \in disk' : RunAs(f.lets, f.dir[Len(f.dir)], odd', cut')
  BY <1>2, Zenon DEF OrderInv
<1>4. CASE Reply
  <2>1. call.busy /\ call.rest = <<>> /\ call' = Idle /\ UNCHANGED sentBack
    BY <1>4 DEF Reply
  <2>2. ASSUME NEW b \in Primaries
        PROVE  Handled(call', nsent', b) = Handled(call, nsent, b)
               /\ (nsent[b] > 0 => nsent'[b] > 0)
    <3>1. nsent[b] \in Nat /\ Len(call.rest) = 0
      <4>1. nsent \in [Primaries -> Nat]
        BY <1>1, Zenon DEF TypeOK
      <4> QED
        BY <2>1, <4>1
    <3>2. Handled(call, nsent, b) = nsent[b]
      <4>1. nsent[b] - Len(call.rest) = nsent[b]
        BY <3>1, MinusZero, Zenon
      <4> QED
        BY <4>1, Zenon DEF Handled
    <3>3. Handled(call', nsent', b) = nsent[b]
      BY <1>2, <2>1 DEF Handled, Idle
    <3> QED
      BY <1>2, <3>2, <3>3
  <2>3. /\ \A i \in DOMAIN segment' :
              /\ SegmentOrder(segment'[i], call', nsent', odd', cut')
              /\ \E b : SentBy(segment'[i].addr, b, nsent', odd' \cup cut')
        /\ \A a \in Primaries : RunAs(sentBack'[a], a, odd', cut')
    <3>1. odd \subseteq odd' /\ cut \subseteq cut'
      BY <1>2
    <3> QED
      BY <1>1, <1>2, <2>1, <2>2, <3>1, KeptFrame
  <2>4. ~call'.busy
    BY <2>1 DEF Idle
  <2> QED
    BY <1>3, <2>3, <2>4, Zenon DEF OrderInv, CallOrder
<1>5. ASSUME NEW a \in Primaries, SendToRecovery(a)
      PROVE  OrderInv'
  <2>1. PICK f \in FilesOf(a) : sentBack' = [sentBack EXCEPT ![a] = ReadFile(f)]
    BY <1>5 DEF SendToRecovery
  <2>2. f \in disk /\ f.dir = Append(cwd, a)
    BY <2>1 DEF FilesOf
  <2>3. f.num = Len(f.lets) /\ f \in File /\ RunAs(f.lets, f.dir[Len(f.dir)], odd, cut)
    BY <1>1, <2>2 DEF ListInv, TypeOK, OrderInv
  <2>4. f.lets \in Seq(Seglet)
    BY <2>3 DEF File
  <2>5. ReadFile(f) = f.lets
    <3>1. SubSeq(f.lets, 1, Len(f.lets)) = f.lets
      BY <2>4, SubSeqWhole
    <3> QED
      BY <2>3, <3>1 DEF ReadFile
  <2>6. f.dir[Len(f.dir)] = a
    <3>1. cwd \in Seq(Addrs) /\ a \in Addrs
      BY <1>1, Zenon DEF TypeOK, Addrs
    <3> QED
      BY <2>2, <3>1, LastFacts
  <2>7. \A b \in Primaries : RunAs(sentBack'[b], b, odd', cut')
    <3>1. sentBack \in [Addrs -> Seq(Seglet)] /\ Primaries \subseteq Addrs
      BY <1>1 DEF TypeOK, Addrs
    <3>2. \A b \in Primaries : sentBack'[b] = IF b = a THEN f.lets ELSE sentBack[b]
      BY <2>1, <2>5, <3>1
    <3>3. \A b \in Primaries : RunAs(sentBack[b], b, odd, cut)
      BY DEF OrderInv
    <3> QED
      BY <1>2, <2>3, <2>6, <3>2, <3>3
  <2>8. UNCHANGED <<call, segment>>
    BY <1>5 DEF SendToRecovery
  <2> QED
    BY <1>2, <1>3, <2>7, <2>8, Zenon DEF OrderInv
<1>6. CASE Restart \/ Tick \/ UNCHANGED vars
  <2>1. UNCHANGED <<call, segment, sentBack>>
    BY <1>6 DEF Restart, Tick, vars
  <2> QED
    BY <1>2, <1>3, <2>1, Zenon DEF OrderInv
<1> QED
  BY <1>4, <1>5, <1>6

-----------------------------------------------------------------------------
(***************************************************************************)
(* What has been confirmed is held.                                        *)
(***************************************************************************)

\* A file more: it replaces none if there are as many files as writes.
LEMMA WriteFileCard ==
  ASSUME NEW files, IsFiniteSet(files), NEW f
  PROVE  /\ IsFiniteSet(WriteFile(files, f)) /\ f \in WriteFile(files, f)
         /\ Cardinality(files) \in Nat /\ Cardinality(WriteFile(files, f)) \in Nat
         /\ Cardinality(WriteFile(files, f)) <= Cardinality(files) + 1
         /\ Cardinality(WriteFile(files, f)) = Cardinality(files) + 1
               => files \subseteq WriteFile(files, f)
<1> DEFINE rest == {g \in files : <<g.dir, g.num, g.time>> # <<f.dir, f.num, f.time>>}
<1>1. WriteFile(files, f) = rest \cup {f}
  BY DEF WriteFile
<1>2. rest \in SUBSET files
  OBVIOUS
<1> HIDE DEF rest
<1>3. IsFiniteSet(rest) /\ Cardinality(rest) <= Cardinality(files)
      /\ (Cardinality(rest) = Cardinality(files) => rest = files)
  BY <1>2, FS_Subset
<1>4. Cardinality(rest) \in Nat /\ Cardinality(files) \in Nat
  BY <1>3, FS_CardinalityType
<1>5. IsFiniteSet(rest \cup {f})
      /\ Cardinality(rest \cup {f}) = (IF f \in rest THEN Cardinality(rest)
                                       ELSE Cardinality(rest) + 1)
  BY <1>3, FS_AddElement
<1>6. Cardinality(rest \cup {f}) \in Nat
      /\ Cardinality(rest \cup {f}) <= Cardinality(files) + 1
      /\ (Cardinality(rest \cup {f}) = Cardinality(files) + 1
            => Cardinality(rest) = Cardinality(files))
  BY <1>3, <1>4, <1>5
<1> QED
  BY <1>1, <1>3, <1>4, <1>5, <1>6

\* The primary that writes alone is the one of the call and of the segment.
LEMMA AloneFacts ==
  ASSUME CountInv, OrderInv, NEW a \in Primaries, Alone(a)
  PROVE  /\ call.busy => call.addr = a
         /\ segment # <<>> => segment[1].addr = a /\ DOMAIN segment = {1}
<1>1. \A b \in Primaries : nsent[b] > 0 => b = a
  <2>1. ~(0 > 0)
    OBVIOUS
  <2> QED
    BY <2>1, Zenon DEF Alone
<1>2. a \notin (odd \cup cut)
  BY DEF Alone
<1>3. call.busy => call.addr = a
  BY <1>1, <1>2, Zenon DEF OrderInv, SentBy
<1>4. ASSUME segment # <<>>
      PROVE  segment[1].addr = a /\ DOMAIN segment = {1}
  <2>1. segment \in Seq(Segment) /\ Len(segment) <= 1
    BY Zenon DEF CountInv, TypeOK, ListInv
  <2>2. DOMAIN segment = {1}
    BY <1>4, <2>1, AtMostOne
  <2>3. PICK b : SentBy(segment[1].addr, b, nsent, odd \cup cut)
    BY <2>2, Zenon DEF OrderInv
  <2> QED
    BY <1>1, <1>2, <2>2, <2>3, Zenon DEF SentBy
<1> QED
  BY <1>3, <1>4

\* No step makes a primary the only one, forgets a fault, a restart, a lost file
\* or a crash.
LEMMA AloneBack ==
  ASSUME CountInv, OrderInv, FilesInv, NEW a \in Primaries, Alone(a)', [Next]_vars
  PROVE  Alone(a)
<1>1. TypeOK /\ nsent \in [Primaries -> Nat] /\ faults \in Nat /\ restarts \in Nat
      /\ written \in Nat
  BY Zenon DEF CountInv, TypeOK
<1>2. /\ \A b \in Primaries \ {a} : nsent'[b] = 0
      /\ a \notin odd' /\ a \notin cut'
      /\ faults' = 0 /\ restarts' = 0
      /\ written' = Cardinality(disk')
      /\ up' \in {"running", "segv in append"}
  BY DEF Alone
<1>3. ASSUME NEW r \in Primaries, NEW n \in 1..MaxBatch, NEW shape, Sends(r, n, shape),
             cut \subseteq cut', UNCHANGED <<up, disk, faults, restarts, written>>
      PROVE  Alone(a)
  <2>1. /\ n \in Nat \ {0} /\ odd \subseteq odd'
        /\ \A b \in Primaries : nsent'[b] = IF b = r THEN nsent[r] + n ELSE nsent[b]
    BY <1>1, <1>3, SendsFacts
  <2>2. ASSUME NEW b \in Primaries \ {a}
        PROVE  nsent[b] = 0
    <3>1. nsent[b] \in Nat /\ nsent[r] \in Nat /\ nsent'[b] = 0
      BY <1>1, <1>2
    <3> QED
      BY <2>1, <3>1
  <2> QED
    BY <1>2, <1>3, <2>1, <2>2 DEF Alone
<1>4. ASSUME NEW g, Appended(g)
      PROVE  Alone(a)
  <2>1. UNCHANGED <<up, nsent, odd, cut, restarts>>
    BY <1>4 DEF Appended
  <2>2. CASE UNCHANGED <<disk, cwd, written, faults>>
    BY <1>2, <2>1, <2>2 DEF Alone
  <2>3. CASE disk' = WriteFile(disk, FileOf(g[1])) /\ written' = written + 1
             /\ UNCHANGED <<cwd, faults>>
    <3>1. /\ Cardinality(disk) \in Nat /\ Cardinality(disk') \in Nat
          /\ Cardinality(disk') <= Cardinality(disk) + 1
      BY <2>3, WriteFileCard DEF FilesInv
    <3>2. Cardinality(disk) <= written
      BY DEF FilesInv
    <3>3. written = Cardinality(disk)
      <4>1. Cardinality(disk') = written + 1 /\ written \in Nat
        BY <1>1, <1>2, <2>3, Zenon
      <4>2. PICK m \in Nat, k \in Nat : m = Cardinality(disk) /\ k = Cardinality(disk')
        BY <3>1
      <4>3. k = written + 1 /\ k <= m + 1 /\ m <= written
        BY <3>1, <3>2, <4>1, <4>2, Zenon
      <4>4. m = written
        BY <4>1, <4>3
      <4> QED
        BY <4>2, <4>4
    <3> QED
      BY <1>2, <2>1, <2>3, <3>3 DEF Alone
  <2>4. CASE faults' = faults + 1
    <3>1. faults + 1 # 0
      BY <1>1
    <3> QED
      BY <1>2, <2>4, <3>1, Zenon
  <2> QED
    BY <1>4, <2>2, <2>3, <2>4 DEF Appended
<1>5. ASSUME NEW how, Die(how), up = "running", UNCHANGED <<nsent, odd, cut>>
      PROVE  Alone(a)
  BY <1>2, <1>5 DEF Die, Alone
<1>6. CASE AppendLaterNull \/ (\E b \in Primaries : SendToRecoveryNull(b)) \/ Kill
  BY <1>5, <1>6 DEF AppendLaterNull, SendToRecoveryNull, Kill
<1>7. CASE Restart
  BY <1>1, <1>2, <1>7 DEF Restart
<1>8. CASE Reply \/ (\E b \in Primaries : SendToRecovery(b)) \/ Tick \/ UNCHANGED vars
  <2>1. UNCHANGED <<up, nsent, odd, cut, disk, written, faults, restarts>>
    BY <1>8 DEF Reply, SendToRecovery, Tick, vars
  <2> QED
    BY <1>2, <2>1 DEF Alone
<1>9. CASE \E opened \in BOOLEAN : AppendFirst(opened) \/ AppendLater(opened)
  <2>1. PICK g : Appended(g)
    BY <1>9, AppendIs
  <2> QED
    BY <1>4, <2>1
<1>10. ASSUME NEW r \in Primaries, NEW n \in 1..MaxBatch, NEW shape \in [1..n -> Shapes],
              NEW len \in [1..n -> Lens], Receive(r, n, shape, len)
       PROVE  Alone(a)
  BY <1>3, <1>10 DEF Receive
<1>11. ASSUME NEW r \in Primaries, NEW n \in 1..MaxBatch, NEW shape \in [1..n -> Shapes],
              NEW len \in [1..n -> Lens], NEW k \in 0..(5 * n)
       PROVE  ReceivePart(r, n, shape, len, k) \/ ReceivePartNull(r, n, shape, len, k)
                => Alone(a)
  <2>1. CASE ReceivePart(r, n, shape, len, k)
    BY <1>3, <2>1 DEF ReceivePart, EndsInside
  <2>2. CASE ReceivePartNull(r, n, shape, len, k)
    BY <1>2, <2>2 DEF ReceivePartNull, Die
  <2> QED
    BY <2>1, <2>2
<1> QED
  BY <1>6, <1>7, <1>8, <1>9, <1>10, <1>11, Zenon DEF Next

\* The list and the files only change when a command is handled or the process
\* dies.
LEMMA HeldFrame ==
  ASSUME segment' = segment, disk' = disk, NEW b, NEW n, Held(b, n)
  PROVE  Held(b, n)'
BY DEF Held

\* The writer of its own segment: a handled command is held, and what was held
\* still is.
LEMMA HeldAppended ==
  ASSUME CountInv, OrderInv, FilesInv, NEW a \in Primaries, Alone(a), Alone(a)',
         NEW g, Appended(g), NEW b, NEW n,
         Held(b, n) \/ Intact(Head(call.rest), b, n)
  PROVE  Held(b, n)'
<1>0. PICK c : c = Head(call.rest)
  OBVIOUS
<1>1. TypeOK /\ ListInv
  BY DEF CountInv
<1>2. /\ call.busy /\ call.rest # <<>> /\ Grown(segment, g, call.addr, c)
  BY <1>0 DEF Appended
<1>3. call.addr = a /\ (segment # <<>> => segment[1].addr = a /\ DOMAIN segment = {1})
  BY <1>2, AloneFacts
<1>4. c \in Seglet
  <2>1. call.rest \in Seq(Seglet)
    BY <1>1, CallFields
  <2> QED
    BY <1>0, <1>2, <2>1
<1>5. g \in Seq(Segment) /\ Len(g) = 1 /\ DOMAIN g = {1}
  BY <1>2, OneFacts DEF Grown
<1>6. /\ \E j \in DOMAIN g[1].lets : g[1].lets[j] = c
      /\ segment # <<>> => \A j \in DOMAIN segment[1].lets :
            \E k \in DOMAIN g[1].lets : g[1].lets[k] = segment[1].lets[j]
  <2>1. CASE segment # <<>> /\ g[1].lets = Append(segment[1].lets, c)
    <3>1. segment \in Seq(Segment) /\ Len(segment) <= 1
      BY <1>1, Zenon DEF TypeOK, ListInv
    <3>2. segment[1] \in Segment
      BY <2>1, <3>1, AtMostOne
    <3>3. segment[1].lets \in Seq(Seglet)
      BY <3>2, SegmentFields
    <3>4. PICK q \in Seq(Seglet) : q = segment[1].lets
      BY <3>3
    <3>5. /\ Len(q) + 1 \in DOMAIN Append(q, c) /\ Append(q, c)[Len(q) + 1] = c
          /\ \A j \in DOMAIN q : j \in DOMAIN Append(q, c) /\ Append(q, c)[j] = q[j]
      BY <1>4
    <3> QED
      BY <2>1, <3>4, <3>5, Zenon
  <2>2. CASE segment = <<>> /\ g[1].lets = <<c>>
    <3>1. 1 \in DOMAIN <<c>> /\ <<c>>[1] = c
      OBVIOUS
    <3> QED
      BY <2>2, <3>1, Zenon
  <2> QED
    BY <1>2, <1>3, <2>1, <2>2 DEF Grown
<1>7. \/ \E j \in DOMAIN g[1].lets : Intact(g[1].lets[j], b, n)
      \/ \E f \in disk : \E j \in DOMAIN f.lets : Intact(f.lets[j], b, n)
  <2>1. CASE Intact(c, b, n)
    BY <1>6, <2>1, Zenon
  <2>2. ASSUME NEW i \in DOMAIN segment, NEW j \in DOMAIN segment[i].lets,
               Intact(segment[i].lets[j], b, n)
        PROVE  \E k \in DOMAIN g[1].lets : Intact(g[1].lets[k], b, n)
    <3>1. segment # <<>>
      BY EmptyFacts
    <3>2. i = 1
      BY <1>3, <3>1
    <3> QED
      BY <1>6, <2>2, <3>1, <3>2, Zenon
  <2> QED
    BY <1>0, <2>1, <2>2, Zenon DEF Held
<1>8. CASE segment' = g /\ disk' = disk
  <2>1. 1 \in DOMAIN segment' /\ segment'[1].lets = g[1].lets
    BY <1>5, <1>8
  <2> QED
    BY <1>7, <1>8, <2>1, Zenon DEF Held
<1>9. CASE disk' = WriteFile(disk, FileOf(g[1])) /\ written' = written + 1
  <2>1. FileOf(g[1]) \in disk' /\ FileOf(g[1]).lets = g[1].lets
    <3>1. FileOf(g[1]) \in disk'
      BY <1>9, WriteFileCard DEF FilesInv
    <3> QED
      BY <3>1 DEF FileOf
  <2>2. disk \subseteq disk'
    <3>1. written = Cardinality(disk) /\ written + 1 = Cardinality(disk')
      BY <1>9 DEF Alone
    <3> QED
      BY <1>9, <3>1, WriteFileCard DEF FilesInv
  <2> QED
    BY <1>7, <2>1, <2>2, Zenon DEF Held
<1>10. CASE faults' = faults + 1
  <2>1. faults \in Nat /\ faults = 0 /\ faults' = 0
    BY <1>1 DEF TypeOK, Alone
  <2> QED
    BY <1>10, <2>1
<1> QED
  BY <1>8, <1>9, <1>10 DEF Appended

\* Files and writes, over a step.
LEMMA FilesStep ==
  ASSUME CountInv, FilesInv, [Next]_vars
  PROVE  FilesInv'
<1>1. written \in Nat
  BY Zenon DEF CountInv, TypeOK
<1>2. CASE UNCHANGED <<disk, written>>
  BY <1>2 DEF FilesInv
<1>3. ASSUME NEW g, Appended(g)
      PROVE  FilesInv'
  <2>1. CASE disk' = WriteFile(disk, FileOf(g[1])) /\ written' = written + 1
    <3>1. /\ IsFiniteSet(disk') /\ Cardinality(disk) \in Nat /\ Cardinality(disk') \in Nat
          /\ Cardinality(disk') <= Cardinality(disk) + 1
      BY <2>1, WriteFileCard DEF FilesInv
    <3>2. Cardinality(disk) <= written
      BY DEF FilesInv
    <3>3. PICK m \in Nat, k \in Nat : m = Cardinality(disk) /\ k = Cardinality(disk')
      BY <3>1
    <3>4. k <= m + 1 /\ m <= written
      BY <3>1, <3>2, <3>3, Zenon
    <3>5. k <= written + 1
      BY <1>1, <3>4
    <3> QED
      BY <2>1, <3>1, <3>3, <3>5, Zenon DEF FilesInv
  <2> QED
    BY <1>2, <1>3, <2>1 DEF Appended
<1>4. CASE \E opened \in BOOLEAN : AppendFirst(opened) \/ AppendLater(opened)
  <2>1. PICK g : Appended(g)
    BY <1>4, AppendIs
  <2> QED
    BY <1>3, <2>1
<1>5. UNCHANGED <<disk, written>>
      \/ \E opened \in BOOLEAN : AppendFirst(opened) \/ AppendLater(opened)
  <2>1. ASSUME NEW r, NEW n, NEW shape, NEW len, NEW k,
               \/ Receive(r, n, shape, len) \/ ReceivePart(r, n, shape, len, k)
               \/ ReceivePartNull(r, n, shape, len, k)
        PROVE  UNCHANGED <<disk, written>>
    BY <2>1 DEF Receive, ReceivePart, ReceivePartNull, Die
  <2>2. CASE AppendLaterNull \/ Reply \/ (\E a \in Primaries : SendToRecovery(a))
             \/ (\E a \in Primaries : SendToRecoveryNull(a)) \/ Kill \/ Restart \/ Tick
             \/ UNCHANGED vars
    BY <2>2 DEF AppendLaterNull, Reply, SendToRecovery, SendToRecoveryNull, Kill, Restart,
                Tick, Die, vars
  <2> QED
    BY <2>1, <2>2, Zenon DEF Next
<1> QED
  BY <1>2, <1>4, <1>5

\* Everything at once.
IInv == CountInv /\ OrderInv /\ FilesInv /\ DurableInv

\* The invariant holds in the empty backup.
LEMMA InitInv ==
  ASSUME Init
  PROVE  IInv
<1>1. CountInv
  BY InitCount
<1>2. DOMAIN segment = {} /\ disk = {} /\ call = Idle /\ acked = {} /\ written = 0
  BY EmptyFacts, Zenon DEF Init
<1>3. ~Idle.busy
  BY DEF Idle
<1>4. \A a \in Primaries : RunAs(sentBack[a], a, odd, cut)
  <2>1. \A a \in Primaries : sentBack[a] = <<>>
    BY DEF Init, Addrs
  <2>2. \A a : Rising(<<>>, a) /\ Consecutive(<<>>)
    BY EmptyFacts, Zenon DEF Rising, Consecutive
  <2> QED
    BY <2>1, <2>2 DEF RunAs
<1>5. OrderInv
  BY <1>2, <1>3, <1>4 DEF OrderInv, CallOrder
<1>6. FilesInv
  BY <1>2, FS_EmptySet DEF FilesInv
<1>7. DurableInv
  BY <1>2, <1>3 DEF DurableInv, AckedHeld
<1> QED
  BY <1>1, <1>5, <1>6, <1>7 DEF IInv

\* Order, over a step.
LEMMA OrderStep ==
  ASSUME CountInv, OrderInv, [Next]_vars
  PROVE  OrderInv'
<1>1. CASE \E opened \in BOOLEAN : AppendFirst(opened) \/ AppendLater(opened)
  <2>1. PICK g : Appended(g)
    BY <1>1, AppendIs
  <2> QED
    BY <2>1, AppendedOrder
<1>2. CASE AppendLaterNull \/ (\E a \in Primaries : SendToRecoveryNull(a)) \/ Kill
  <2>1. PICK how : Die(how) /\ UNCHANGED <<nsent, odd, cut>>
    BY <1>2 DEF AppendLaterNull, SendToRecoveryNull, Kill
  <2> QED
    BY <2>1, DieOrder
<1>3. ASSUME NEW a \in Primaries, NEW n \in 1..MaxBatch, NEW shape \in [1..n -> Shapes],
             NEW len \in [1..n -> Lens], Receive(a, n, shape, len)
      PROVE  OrderInv'
  BY <1>3, ReceiveOrder
<1>4. ASSUME NEW a \in Primaries, NEW n \in 1..MaxBatch, NEW shape \in [1..n -> Shapes],
             NEW len \in [1..n -> Lens], NEW k \in 0..(5 * n)
      PROVE  ReceivePart(a, n, shape, len, k) \/ ReceivePartNull(a, n, shape, len, k)
               => OrderInv'
  <2>1. CASE ReceivePart(a, n, shape, len, k)
    BY <2>1, ReceivePartOrder
  <2>2. CASE ReceivePartNull(a, n, shape, len, k)
    <3>1. Die("segv in parse") /\ cut \subseteq cut' /\ Sends(a, n, shape)
      BY <2>2 DEF ReceivePartNull, EndsInside
    <3>2. odd \subseteq odd'
      BY <3>1 DEF Sends
    <3> QED
      BY <3>1, <3>2, DieOrder
  <2> QED
    BY <2>1, <2>2
<1>5. CASE Reply \/ (\E a \in Primaries : SendToRecovery(a)) \/ Restart \/ Tick
           \/ UNCHANGED vars
  BY <1>5, OtherOrder
<1> QED
  BY <1>1, <1>2, <1>3, <1>4, <1>5, Zenon DEF Next

\* A read of whole requests confirms nothing yet.
LEMMA ReceiveDurable ==
  ASSUME CountInv, NEW r \in Primaries, NEW n \in 1..MaxBatch,
         NEW shape \in [1..n -> Shapes], NEW len \in [1..n -> Lens],
         Receive(r, n, shape, len), NEW a \in Primaries, Alone(a)', AckedHeld
  PROVE  /\ AckedHeld' /\ call'.busy /\ call'.first
         /\ call'.req = <<a, nsent'[a] - Len(call'.rest) + 1>>
<1>1. TypeOK
  BY DEF CountInv
<1>2. Sends(r, n, shape) /\ segment' = segment /\ disk' = disk /\ acked' = acked
  BY DEF Receive
<1>3. /\ n \in Nat \ {0} /\ nsent \in [Primaries -> Nat]
      /\ \A b \in Primaries : nsent'[b] = IF b = r THEN nsent[r] + n ELSE nsent[b]
      /\ (\E i \in 1..n : shape[i] # "plain") => r \in odd'
  BY <1>1, <1>2, SendsFacts
<1>4. r = a
  <2>1. nsent[r] \in Nat /\ nsent'[r] = nsent[r] + n
    BY <1>3
  <2>2. nsent'[r] # 0
    BY <1>3, <2>1
  <2> QED
    BY <2>2 DEF Alone
<1>5. \A i \in 1..n : shape[i] = "plain"
  BY <1>3, <1>4 DEF Alone
<1>6. /\ call'.busy = TRUE /\ call'.first = TRUE /\ call'.req = <<r, nsent[r] + 1>>
      /\ Len(call'.rest) = n
  BY <1>1, <1>5, ReceivePlain
<1>7. nsent[r] + 1 = nsent'[a] - Len(call'.rest) + 1
  <2>1. nsent[r] \in Nat /\ nsent'[r] = nsent[r] + n
    BY <1>3
  <2> QED
    BY <1>3, <1>4, <1>6, <2>1
<1>8. AckedHeld'
  BY <1>2, HeldFrame, Zenon DEF AckedHeld
<1> QED
  BY <1>4, <1>6, <1>7, <1>8

\* A command that is handled is held, and what was held still is.
LEMMA AppendedDurable ==
  ASSUME IInv, NEW g, Appended(g), NEW a \in Primaries, Alone(a), Alone(a)'
  PROVE  AckedHeld' /\ ~call'.first /\ Held(call.req[1], call.req[2])' /\ call'.req = call.req
<1>1. CountInv /\ OrderInv /\ FilesInv /\ DurableInv /\ TypeOK /\ ListInv
  BY DEF IInv, CountInv
<1>2. /\ call.busy /\ call.rest # <<>> /\ acked' = acked
      /\ call'.busy = call.busy /\ call'.req = call.req /\ call'.first = FALSE
  BY <1>1, NextCommandFacts DEF Appended
<1>3. /\ AckedHeld
      /\ call.first => call.req = <<a, nsent[a] - Len(call.rest) + 1>>
      /\ ~call.first => Held(call.req[1], call.req[2])
  BY <1>1, <1>2, Zenon DEF DurableInv
<1>4. call.addr = a /\ a \notin odd
  BY <1>1, <1>2, AloneFacts DEF Alone
<1>5. Intact(Head(call.rest), a, nsent[a] - Len(call.rest) + 1)
  <2>1. call.rest \in Seq(Seglet) /\ nsent \in [Primaries -> Nat]
        /\ RunTo(call.rest, a, nsent[a])
    BY <1>1, <1>2, <1>4, CallFields, Zenon DEF TypeOK, OrderInv, CallOrder
  <2>2. nsent[a] \in Nat
    BY <2>1
  <2> QED
    BY <1>2, <2>1, <2>2, RunToTail
<1>6. AckedHeld'
  BY <1>1, <1>2, <1>3, HeldAppended, Zenon DEF AckedHeld
<1>7. PICK b, n : b = call.req[1] /\ n = call.req[2]
  OBVIOUS
<1>8. Held(b, n) \/ Intact(Head(call.rest), b, n)
  <2>1. CASE call.first
    <3>1. b = a /\ n = nsent[a] - Len(call.rest) + 1
      BY <1>3, <1>7, <2>1
    <3> QED
      BY <1>5, <3>1, Zenon
  <2>2. CASE ~call.first
    BY <1>3, <1>7, <2>2, Zenon
  <2> QED
    BY <2>1, <2>2
<1>9. Held(b, n)'
  BY <1>1, <1>8, HeldAppended, Zenon
<1>10. b = call'.req[1] /\ n = call'.req[2]
  BY <1>2, <1>7, Zenon
<1> QED
  BY <1>2, <1>6, <1>7, <1>9, <1>10

\* What has been confirmed, over a step.
LEMMA DurableStep ==
  ASSUME IInv, [Next]_vars
  PROVE  DurableInv'
<1>1. CountInv /\ OrderInv /\ FilesInv /\ DurableInv /\ TypeOK /\ ListInv
  BY DEF IInv, CountInv
<1> SUFFICES ASSUME NEW a \in Primaries, Alone(a)'
             PROVE  /\ AckedHeld'
                    /\ call'.busy /\ call'.first
                         => call'.req = <<a, nsent'[a] - Len(call'.rest) + 1>>
                    /\ call'.busy /\ ~call'.first => Held(call.req[1], call.req[2])'
  BY DEF DurableInv
<1>2. Alone(a)
  BY <1>1, AloneBack
<1>3. /\ AckedHeld
      /\ call.busy /\ call.first => call.req = <<a, nsent[a] - Len(call.rest) + 1>>
      /\ call.busy /\ ~call.first => Held(call.req[1], call.req[2])
  BY <1>1, <1>2, Zenon DEF DurableInv
<1> DEFINE Goal == /\ AckedHeld'
                   /\ call'.busy /\ call'.first
                        => call'.req = <<a, nsent'[a] - Len(call'.rest) + 1>>
                   /\ call'.busy /\ ~call'.first => Held(call.req[1], call.req[2])'
<1>4. ASSUME NEW r \in Primaries, NEW n \in 1..MaxBatch, NEW shape \in [1..n -> Shapes],
             NEW len \in [1..n -> Lens], Receive(r, n, shape, len)
      PROVE  Goal
  BY <1>1, <1>3, <1>4, ReceiveDurable, Zenon
<1>5. ASSUME NEW r \in Primaries, NEW n \in 1..MaxBatch, NEW shape \in [1..n -> Shapes],
             NEW len \in [1..n -> Lens], NEW k \in 0..(5 * n)
      PROVE  ReceivePart(r, n, shape, len, k) \/ ReceivePartNull(r, n, shape, len, k)
               => Goal
  <2> SUFFICES ASSUME ReceivePart(r, n, shape, len, k) \/ ReceivePartNull(r, n, shape, len, k)
               PROVE  FALSE
    OBVIOUS
  <2>1. Sends(r, n, shape) /\ r \in cut'
    BY DEF ReceivePart, ReceivePartNull, EndsInside
  <2>2. /\ n \in Nat \ {0} /\ nsent \in [Primaries -> Nat]
        /\ \A b \in Primaries : nsent'[b] = IF b = r THEN nsent[r] + n ELSE nsent[b]
    BY <1>1, <2>1, SendsFacts
  <2>3. nsent'[r] # 0
    BY <2>2
  <2> QED
    BY <2>1, <2>3 DEF Alone
<1>6. CASE AppendLaterNull
  <2>1. /\ call.busy /\ GetSegment(segment, call.addr) = 0
        /\ segment' = <<>> /\ call' = Idle /\ UNCHANGED <<disk, acked>>
    BY <1>6 DEF AppendLaterNull, Die
  <2>2. segment = <<>>
    <3>1. segment \in Seq(Segment) /\ Len(segment) <= 1
      BY <1>1, Zenon DEF TypeOK, ListInv
    <3>2. segment # <<>> => segment[1].addr = call.addr
      BY <1>1, <1>2, <2>1, AloneFacts
    <3>3. GetSegment(segment, call.addr)
            = IF segment # <<>> /\ segment[1].addr = call.addr THEN 1 ELSE 0
      BY <3>1, GetSegmentOne
    <3> QED
      BY <2>1, <3>2, <3>3
  <2>3. segment' = segment /\ disk' = disk /\ acked' = acked /\ ~call'.busy
    BY <2>1, <2>2 DEF Idle
  <2> QED
    BY <1>3, <2>3, HeldFrame, Zenon DEF AckedHeld
<1>7. CASE (\E b \in Primaries : SendToRecoveryNull(b)) \/ Kill
  <2>1. up' \in {"killed", "segv in load"}
    BY <1>7 DEF SendToRecoveryNull, Kill, Die
  <2> QED
    BY <2>1 DEF Alone
<1>8. CASE Reply
  <2>1. /\ call.busy /\ call.rest = <<>> /\ call' = Idle
        /\ acked' = acked \cup {call.req} /\ segment' = segment /\ disk' = disk
    BY <1>8 DEF Reply
  <2>2. ~call.first
    <3>1. call.addr = a /\ a \notin odd
      BY <1>1, <1>2, <2>1, AloneFacts DEF Alone
    <3> QED
      BY <1>1, <2>1, <3>1 DEF OrderInv, CallOrder
  <2>3. \A x \in acked' : Held(x[1], x[2])
    BY <1>3, <2>1, <2>2, Zenon DEF AckedHeld
  <2>4. ~call'.busy
    BY <2>1 DEF Idle
  <2> QED
    BY <2>1, <2>3, <2>4, HeldFrame, Zenon DEF AckedHeld
<1>9. CASE (\E b \in Primaries : SendToRecovery(b)) \/ Restart \/ Tick \/ UNCHANGED vars
  <2>1. /\ call' = call /\ segment' = segment /\ disk' = disk /\ acked' = acked
        /\ nsent' = nsent
    BY <1>9 DEF SendToRecovery, Restart, Tick, vars
  <2>2. AckedHeld'
    BY <1>3, <2>1, HeldFrame, Zenon DEF AckedHeld
  <2> QED
    BY <1>3, <2>1, <2>2, HeldFrame, Zenon
<1>10. CASE \E opened \in BOOLEAN : AppendFirst(opened) \/ AppendLater(opened)
  <2>1. PICK g : Appended(g)
    BY <1>1, <1>10, AppendIs
  <2>2. AckedHeld' /\ ~call'.first /\ Held(call.req[1], call.req[2])' /\ call'.req = call.req
    BY <1>2, <2>1, AppendedDurable
  <2> QED
    BY <2>2, Zenon
<1> QED
  BY <1>4, <1>5, <1>6, <1>7, <1>8, <1>9, <1>10, Zenon DEF Next

\* The invariant holds always.
LEMMA Invariant == Spec => []IInv
<1>1. IInv /\ [Next]_vars => IInv'
  BY NextCount, OrderStep, FilesStep, DurableStep DEF IInv
<1> QED
  BY <1>1, InitInv, PTL DEF Spec

\* A segment, a file and the data sent to a recovery node hold whole commands of
\* the one primary they are filed under, in order, for every layout of bodies,
\* every read and every number of primaries: what a primary with text values of
\* one line stored is not disturbed by the values or the cut requests of others.
THEOREM RunsIntactAlways == Spec => []RunsIntact
<1>1. IInv => RunsIntact
  <2> SUFFICES ASSUME IInv
               PROVE  RunsIntact
    OBVIOUS
  <2>1. TypeOK /\ ListInv /\ OrderInv
    BY DEF IInv, CountInv
  <2>2. ASSUME NEW i \in DOMAIN segment, NEW a \in Primaries \ odd, a = segment[i].addr
        PROVE  Rising(segment[i].lets, a) /\ (a \notin cut => Consecutive(segment[i].lets))
    <3>1. segment[i].lets \in Seq(Seglet)
      BY <2>1, LetsType
    <3>2. SegmentOrder(segment[i], call, nsent, odd, cut)
      BY <2>1, Zenon DEF OrderInv
    <3>3. PICK h \in Nat : h = Handled(call, nsent, a)
      BY <2>1, HandledType
    <3>4. /\ RiseTo(segment[i].lets, a, h)
          /\ a \notin cut => RunTo(segment[i].lets, a, h)
      BY <2>2, <3>2, <3>3, Zenon DEF SegmentOrder
    <3>5. a \notin cut => Consecutive(segment[i].lets)
      BY <3>1, <3>3, <3>4, RunToRise
    <3> QED
      BY <3>4, <3>5, Zenon DEF RiseTo
  <2>3. \A i \in DOMAIN segment : RunOf(segment[i].lets, segment[i].addr)
    BY <2>2, Zenon DEF RunOf
  <2> QED
    BY <2>1, <2>3, Zenon DEF OrderInv, RunsIntact, RunAs, RunOf
<1> QED
  BY <1>1, Invariant, PTL

\* While one primary alone writes, with text values and requests that arrive
\* whole, and nothing fails, every confirmed command is in memory or in a file,
\* even after the crash in the middle of a batch.
THEOREM SingleWriterDurableAlways == Spec => []SingleWriterDurable
<1>1. IInv => SingleWriterDurable
  BY Zenon DEF IInv, DurableInv, Alone, SingleWriterDurable
<1> QED
  BY <1>1, Invariant, PTL

=============================================================================
