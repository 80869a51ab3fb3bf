------------------------ MODULE FailureDetectorProofs ------------------------
(***************************************************************************)
(* Safety of the failure detector for every set of primaries, every table  *)
(* size and every bound.  The counter of PrimaryTable is tied to what it   *)
(* cannot see: the heartbeats still on their way and the seconds that have *)
(* passed.                                                                 *)
(***************************************************************************)
EXTENDS FailureDetector, TLAPS

\* What has happened in the second that runs.
Ticks(p) == IF p \in ticked THEN 1 ELSE 0
Sends(p) == IF sent[p] THEN 1 ELSE 0
Heards(p) == IF sent[p] /\ hb[p] = 0 THEN 1 ELSE 0

Known(p) == \E i \in DOMAIN table : table[i].addr = p

\* HEARTBEAT looks an address up before it takes a slot for it.
SlotsDistinct ==
    \A i, j \in DOMAIN table : table[i].addr = table[j].addr => i = j

\* Only a primary with a slot has had a timer, and the one that is reported
\* keeps its slot, which is why no second timer is started for it.
Timed(p) ==
    /\ p \in armed \cup ticked \/ reports[p] # 0 => Known(p)
    /\ reports[p] \in {0, 1} /\ (reports[p] = 1 => p \notin armed)

\* One heartbeat per second and start, and those that were late.
InFlight(p) == hb[p] <= MaxInFlight + restarts[p] + Sends(p)

\* What the counter of an armed primary is worth: each tick is a second, and
\* only heartbeats that were really sent take something off.
Credit(p) ==
    \A i \in DOMAIN table : table[i].addr = p =>
        /\ table[i].MaxTimes <= 2
        /\ table[i].MaxTimes >=
              hb[p] + 1 + Ticks(p) - MaxInFlight - restarts[p] - Sends(p)
        /\ table[i].MaxTimes >= age[p] + Ticks(p) - MaxInFlight - restarts[p]

\* A punctual primary that runs: the counter is at most 1 between two seconds,
\* and within a second at most 2, between the tick and the heartbeat.
Punctual(p) ==
    up[p] =>
        /\ reports[p] = 0
        /\ hb[p] <= Sends(p)
        /\ \A i \in DOMAIN table : table[i].addr = p =>
              /\ p \in armed
              /\ table[i].MaxTimes <= 1 + Ticks(p) - Heards(p)

PrimaryInv(p) ==
    /\ Timed(p)
    /\ InFlight(p)
    /\ p \in armed => Credit(p)
    /\ p \notin Slow => Punctual(p)

\* The inductive invariant.
IInv == TypeOK /\ SlotsDistinct /\ \A p \in Primaries : PrimaryInv(p)

-----------------------------------------------------------------------------
Slots == [addr : Primaries, MaxTimes : Int]

\* The address that CRASH is parsed into is made of the ip of one primary and
\* the port of one.
LEMMA ParseCrashType ==
  ASSUME NEW batch \in Seq(Primaries), batch # <<>>
  PROVE  ParseCrash(batch) \in Addrs
<1>1. Head(batch) \in Primaries /\ batch[Len(batch)] \in Primaries
  OBVIOUS
<1> QED
  BY <1>1 DEF ParseCrash, Addrs

\* Messages that one read returns, and those it leaves, are messages.
LEMMA CutType ==
  ASSUME NEW S, NEW q \in Seq(S), NEW n \in Nat \ {0}, n <= Len(q)
  PROVE  /\ SubSeq(q, 1, n) \in Seq(S) /\ SubSeq(q, 1, n) # <<>>
         /\ SubSeq(q, n + 1, Len(q)) \in Seq(S)
         /\ Head(q) \in S
OBVIOUS

\* What a heartbeat of p does to slot i: one off, unless the counter is at the
\* bound of the model already; or a new slot, with a timer of its own.
HeardSlot(p, i) ==
    \/ /\ i \in DOMAIN table /\ table'[i].addr = table[i].addr
       /\ IF table[i].addr = p
          THEN \/ table'[i].MaxTimes = table[i].MaxTimes - 1
               \/ table'[i].MaxTimes = table[i].MaxTimes /\ table[i].MaxTimes <= 0
          ELSE table'[i].MaxTimes = table[i].MaxTimes
    \/ /\ table'[i].addr = p /\ table'[i].MaxTimes = 0
       /\ ~Known(p) /\ p \in armed'

\* HEARTBEAT: what the handler leaves in the table.
LEMMA HeardFacts ==
  ASSUME NEW p \in Primaries, Heard(p), table \in Seq(Slots), armed \in SUBSET Primaries,
         SlotsDistinct, p \in armed => Known(p)
  PROVE  /\ table' \in Seq(Slots) /\ armed' \in SUBSET Primaries
         /\ SlotsDistinct'
         /\ armed \subseteq armed' /\ armed' \subseteq armed \cup {p}
         /\ \A q \in Primaries : Known(q) => Known(q)'
         /\ \A i \in DOMAIN table' : HeardSlot(p, i)
         /\ p \in armed' => p \in armed \/ ~Known(p)
         /\ p \in armed' => Known(p)'
<1>1. CASE Slot(p) # {}
  <2>1. /\ table' = [i \in DOMAIN table |->
               IF table[i].addr = p /\ table[i].MaxTimes > -Floor
               THEN [table[i] EXCEPT !.MaxTimes = @ - 1] ELSE table[i]]
        /\ armed' = armed
    BY <1>1 DEF Heard
  <2>2. \A i \in DOMAIN table : table[i] \in Slots /\ i \in 1..Len(table)
    OBVIOUS
  <2>3. table' \in Seq(Slots) /\ DOMAIN table' = DOMAIN table
    <3>1. /\ DOMAIN table' = 1..Len(table) /\ DOMAIN table = 1..Len(table)
          /\ Len(table) \in Nat
      BY <2>1
    <3>2. ASSUME NEW i \in 1..Len(table) PROVE table'[i] \in Slots
      <4>1. table[i] \in Slots /\ i \in DOMAIN table
        BY <2>2, <3>1
      <4>2. [table[i] EXCEPT !.MaxTimes = @ - 1] \in Slots
        BY <4>1 DEF Slots
      <4> QED
        BY <2>1, <4>1, <4>2
    <3>3. table' \in [1..Len(table) -> Slots]
      BY <2>1, <3>1, <3>2
    <3> QED
      BY <3>1, <3>3
  <2>4. \A i \in DOMAIN table : table'[i].addr = table[i].addr
    BY <2>1, <2>2 DEF Slots
  <2>5. \A i \in DOMAIN table :
           IF table[i].addr = p /\ table[i].MaxTimes > -Floor
           THEN table'[i].MaxTimes = table[i].MaxTimes - 1
           ELSE table'[i].MaxTimes = table[i].MaxTimes
    BY <2>1, <2>2 DEF Slots
  <2>6. \A i \in DOMAIN table : table[i].MaxTimes \in Int
    BY <2>2 DEF Slots
  <2>7. Known(p) /\ Known(p)'
    BY <1>1, <2>3, <2>4 DEF Known, Slot
  <2> QED
    BY DetectorAssumption, <2>1, <2>3, <2>4, <2>5, <2>6, <2>7 DEF SlotsDistinct, Known, HeardSlot
<1>2. CASE Slot(p) = {} /\ Len(table) < MAX_PRIMARY
  <2>1. table' = Append(table, [addr |-> p, MaxTimes |-> 0]) /\ armed' = armed \cup {p}
    BY <1>2, DetectorAssumption DEF Heard
  <2>2. [addr |-> p, MaxTimes |-> 0] \in Slots
    BY DEF Slots
  <2>3. /\ table' \in Seq(Slots) /\ DOMAIN table = 1..Len(table)
        /\ Len(table) \in Nat /\ DOMAIN table' = 1..(Len(table) + 1)
        /\ \A i \in DOMAIN table : table'[i] = table[i]
        /\ table'[Len(table) + 1] = [addr |-> p, MaxTimes |-> 0]
    BY <2>1, <2>2
  <2>4. ~Known(p)
    BY <1>2 DEF Known, Slot
  <2>5. Known(p)'
    BY <2>3 DEF Known
  <2>6. \A i \in DOMAIN table' : i \in DOMAIN table \/ i = Len(table) + 1
    BY <2>3
  <2>7. SlotsDistinct'
    BY <2>3, <2>4, <2>6 DEF SlotsDistinct, Known
  <2>8. ASSUME NEW i \in DOMAIN table' PROVE HeardSlot(p, i)
    <3>1. CASE i \in DOMAIN table
      <4>1. table'[i] = table[i] /\ table[i].addr # p
        BY <2>3, <2>4, <3>1 DEF Known
      <4> QED
        BY <3>1, <4>1 DEF HeardSlot
    <3>2. CASE i = Len(table) + 1
      BY <2>1, <2>3, <2>4, <3>2 DEF HeardSlot
    <3> QED
      BY <2>6, <3>1, <3>2
  <2>9. \A q \in Primaries : Known(q) => Known(q)'
    BY <2>3 DEF Known
  <2>10. /\ armed' \in SUBSET Primaries /\ armed \subseteq armed'
         /\ armed' \subseteq armed \cup {p}
    BY <2>1
  <2> QED
    BY <2>3, <2>4, <2>5, <2>7, <2>8, <2>9, <2>10, Zenon
<1>3. CASE Slot(p) = {} /\ Len(table) >= MAX_PRIMARY
  <2>1. table' = table /\ armed' = armed /\ ~Known(p)
    BY <1>3, DetectorAssumption DEF Heard, Known, Slot
  <2> QED
    BY <2>1 DEF SlotsDistinct, Known, HeardSlot
<1> QED
  BY <1>1, <1>2, <1>3 DEF Heard

\* recovery_cb: the counter of p goes up by one, all others stay.
LEMMA CountedFacts ==
  ASSUME NEW p \in Primaries, table \in Seq(Slots)
  PROVE  /\ Counted(p) \in Seq(Slots) /\ DOMAIN Counted(p) = DOMAIN table
         /\ \A i \in DOMAIN table :
               /\ Counted(p)[i].addr = table[i].addr
               /\ table[i].MaxTimes \in Int
               /\ Counted(p)[i].MaxTimes = table[i].MaxTimes + (IF table[i].addr = p THEN 1 ELSE 0)
<1>1. /\ DOMAIN Counted(p) = 1..Len(table) /\ DOMAIN table = 1..Len(table)
      /\ Len(table) \in Nat
  BY DEF Counted
<1>2. ASSUME NEW i \in 1..Len(table)
      PROVE  /\ Counted(p)[i] \in Slots
             /\ Counted(p)[i].addr = table[i].addr
             /\ table[i].MaxTimes \in Int
             /\ Counted(p)[i].MaxTimes = table[i].MaxTimes + (IF table[i].addr = p THEN 1 ELSE 0)
  <2>1. table[i] \in Slots /\ i \in DOMAIN table
    BY <1>1
  <2>2. /\ [table[i] EXCEPT !.MaxTimes = @ + 1] \in Slots
        /\ [table[i] EXCEPT !.MaxTimes = @ + 1].MaxTimes = table[i].MaxTimes + 1
        /\ [table[i] EXCEPT !.MaxTimes = @ + 1].addr = table[i].addr
        /\ table[i].MaxTimes \in Int
    BY <2>1 DEF Slots
  <2>3. Counted(p)[i] = IF table[i].addr = p THEN [table[i] EXCEPT !.MaxTimes = @ + 1]
                        ELSE table[i]
    BY <2>1 DEF Counted
  <2> QED
    BY <2>1, <2>2, <2>3 
<1>3. Counted(p) \in [1..Len(table) -> Slots]
  BY <1>1, <1>2 DEF Counted
<1> QED
  BY <1>1, <1>2, <1>3

-----------------------------------------------------------------------------
\* At start-up nothing is in the table and nothing on its way.
LEMMA InitInv == Init => IInv
<1> SUFFICES ASSUME Init PROVE IInv
  OBVIOUS
<1>1. TypeOK
  <2>1. \A S : <<>> \in Seq(S)
    OBVIOUS
  <2>2. /\ up \in [Primaries -> BOOLEAN] /\ sent \in [Primaries -> BOOLEAN]
        /\ since \in [Primaries -> BOOLEAN]
    BY Zenon DEF Init
  <2>3. /\ hb \in [Primaries -> Nat] /\ age \in [Primaries -> Nat]
        /\ reports \in [Primaries -> Nat] /\ restarts \in [Primaries -> Nat]
        /\ repeats \in [Primaries -> Nat]
    BY DEF Init
  <2>4. /\ armed = {} /\ ticked = {} /\ restored = {}
        /\ table = <<>> /\ crash = <<>> /\ crashed = <<>>
        /\ rnode = "up" /\ bnode = "up" /\ coordLink = FALSE /\ backupLink = FALSE
    BY DEF Init
  <2> QED
    BY <2>1, <2>2, <2>3, <2>4, Zenon DEF TypeOK
<1>2. SlotsDistinct
  BY DEF Init, SlotsDistinct
<1>3. ASSUME NEW p \in Primaries PROVE PrimaryInv(p)
  BY DetectorAssumption
     DEF Init, PrimaryInv, Timed, InFlight, Credit, Punctual, Ticks, Sends, Heards
<1> QED
  BY <1>1, <1>2, <1>3 DEF IInv

\* The facts about one primary that the steps below keep using.
LEMMA PrimaryTypes ==
  ASSUME TypeOK, NEW p \in Primaries
  PROVE  /\ hb[p] \in Nat /\ age[p] \in Nat /\ restarts[p] \in Nat /\ reports[p] \in Nat
         /\ up[p] \in BOOLEAN /\ sent[p] \in BOOLEAN
         /\ table \in Seq(Slots)
         /\ \A i \in DOMAIN table : table[i].MaxTimes \in Int /\ table[i].addr \in Primaries
         /\ Ticks(p) \in {0, 1} /\ Sends(p) \in {0, 1} /\ Heards(p) \in {0, 1}
         /\ MaxInFlight \in Nat
<1>1. table \in Seq(Slots)
  BY DEF TypeOK, Slots
<1>2. \A i \in DOMAIN table : table[i] \in Slots
  BY <1>1
<1> QED
  BY DetectorAssumption, <1>1, <1>2 DEF TypeOK, Slots, Ticks, Sends, Heards

\* The counter of a primary is worth what it was, or the bound on it is weaker.
LEMMA CreditStep ==
  ASSUME TypeOK, TypeOK', NEW q \in Primaries, Credit(q), table' = table,
         hb'[q] + Ticks(q)' - restarts'[q] - Sends(q)'
             <= hb[q] + Ticks(q) - restarts[q] - Sends(q),
         age'[q] + Ticks(q)' - restarts'[q] <= age[q] + Ticks(q) - restarts[q]
  PROVE  Credit(q)'
<1>1. ASSUME NEW i \in DOMAIN table, table[i].addr = q
      PROVE  /\ table[i].MaxTimes <= 2
             /\ table[i].MaxTimes >=
                   hb'[q] + 1 + Ticks(q)' - MaxInFlight - restarts'[q] - Sends(q)'
             /\ table[i].MaxTimes >= age'[q] + Ticks(q)' - MaxInFlight - restarts'[q]
  <2>1. /\ table[i].MaxTimes <= 2
        /\ table[i].MaxTimes >= hb[q] + 1 + Ticks(q) - MaxInFlight - restarts[q] - Sends(q)
        /\ table[i].MaxTimes >= age[q] + Ticks(q) - MaxInFlight - restarts[q]
    BY <1>1 DEF Credit
  <2>2. /\ table[i].MaxTimes \in Int /\ MaxInFlight \in Nat
        /\ hb[q] \in Nat /\ restarts[q] \in Nat /\ age[q] \in Nat
        /\ Ticks(q) \in {0, 1} /\ Sends(q) \in {0, 1}
    BY PrimaryTypes
  <2>3. /\ hb'[q] \in Nat /\ restarts'[q] \in Nat /\ age'[q] \in Nat
        /\ Ticks(q)' \in {0, 1} /\ Sends(q)' \in {0, 1}
    BY DEF TypeOK, Ticks, Sends
  <2> QED
    BY <2>1, <2>2, <2>3
<1> QED
  BY <1>1 DEF Credit

\* A heartbeat is sent: one more on its way, and the second's is sent.
LEMMA SendHeartBeatInv ==
  ASSUME IInv, NEW p \in Primaries, SendHeartBeat(p)
  PROVE  IInv'
<1>1. TypeOK'
  BY SMTT(40) DEF IInv, TypeOK, SendHeartBeat, rvars, cvars
<1>2. SlotsDistinct'
  BY DEF IInv, SlotsDistinct, SendHeartBeat, rvars
<1>3. ASSUME NEW q \in Primaries PROVE PrimaryInv(q)'
  <2>1. /\ UNCHANGED <<up, restarts, table, armed, ticked, age, reports>>
        /\ Ticks(q)' = Ticks(q)
    BY DEF SendHeartBeat, rvars, Ticks
  <2>2. PrimaryInv(q) /\ TypeOK
    BY DEF IInv
  <2>3. Timed(q)'
    BY <2>1, <2>2 DEF PrimaryInv, Timed, Known
  <2>4. CASE q = p
    <3>1. sent'[q] = TRUE /\ sent[q] = FALSE /\ hb'[q] = hb[q] + 1 /\ hb[q] \in Nat
      BY <2>1, <2>4 DEF IInv, TypeOK, SendHeartBeat
    <3>2. Sends(q)' = 1 /\ Sends(q) = 0 /\ Heards(q)' = 0 /\ Heards(q) = 0
      BY <3>1 DEF Sends, Heards
    <3>3. InFlight(q)'
      BY <2>1, <2>2, <3>1, <3>2, PrimaryTypes DEF PrimaryInv, InFlight
    <3>4. q \in armed => Credit(q)'
      BY <1>1, <2>1, <2>2, <3>1, <3>2, PrimaryTypes, CreditStep, SMTT(40) DEF PrimaryInv
    <3>5. q \notin Slow => Punctual(q)'
      BY <2>1, <2>2, <3>1, <3>2, PrimaryTypes DEF PrimaryInv, Punctual
    <3> QED
      BY <2>1, <2>3, <3>3, <3>4, <3>5 DEF PrimaryInv
  <2>5. CASE q # p
    <3>1. sent'[q] = sent[q] /\ hb'[q] = hb[q]
      BY <2>1, <2>5 DEF IInv, TypeOK, SendHeartBeat
    <3>2. Sends(q)' = Sends(q) /\ Heards(q)' = Heards(q)
      BY <3>1 DEF Sends, Heards
    <3> QED
      BY <2>1, <2>2, <2>3, <3>1, <3>2 DEF PrimaryInv, InFlight, Credit, Punctual
  <2> QED
    BY <2>4, <2>5
<1> QED
  BY <1>1, <1>2, <1>3 DEF IInv

\* A primary stops: nothing is promised of it any more.
LEMMA CrashInv ==
  ASSUME IInv, NEW p \in Primaries, Crash(p)
  PROVE  IInv'
<1>1. /\ UNCHANGED <<sent, hb, restarts, table, armed, ticked, age, reports>>
      /\ \A q \in Primaries : up'[q] => up[q]
  BY DEF IInv, TypeOK, Crash, rvars
<1>2. TypeOK'
  BY DEF IInv, TypeOK, Crash, rvars, cvars
<1>3. SlotsDistinct'
  BY <1>1 DEF IInv, SlotsDistinct
<1>4. ASSUME NEW q \in Primaries PROVE PrimaryInv(q)'
  <2>1. PrimaryInv(q)
    BY DEF IInv
  <2>2. Ticks(q)' = Ticks(q) /\ Sends(q)' = Sends(q) /\ Heards(q)' = Heards(q)
    BY <1>1 DEF Ticks, Sends, Heards
  <2> QED
    BY <1>1, <2>1, <2>2 DEF PrimaryInv, Timed, Known, InFlight, Credit, Punctual
<1> QED
  BY <1>2, <1>3, <1>4 DEF IInv

\* A slow primary comes back: it may send one more heartbeat in this second,
\* which its restart is counted for.
LEMMA RestartInv ==
  ASSUME IInv, NEW p \in Primaries, Restart(p)
  PROVE  IInv'
<1>1. /\ UNCHANGED <<hb, table, armed, ticked, age, reports>> /\ p \in Slow
      /\ Restart(p)
  BY DEF Restart
<1>2. TypeOK'
  BY DEF IInv, TypeOK, Restart, cvars
<1>3. SlotsDistinct'
  BY <1>1 DEF IInv, SlotsDistinct
<1>4. ASSUME NEW q \in Primaries PROVE PrimaryInv(q)'
  <2>1. PrimaryInv(q) /\ TypeOK /\ Ticks(q)' = Ticks(q)
    BY <1>1 DEF IInv, Ticks
  <2>2. Timed(q)'
    BY <1>1, <2>1 DEF PrimaryInv, Timed, Known
  <2>3. CASE q = p
    <3>1. sent'[q] = FALSE /\ restarts'[q] = restarts[q] + 1
      BY <1>1, <2>1, <2>3 DEF TypeOK, Restart
    <3>2. Sends(q)' = 0
      BY <3>1 DEF Sends
    <3>3. InFlight(q)'
      BY <1>1, <2>1, <3>1, <3>2, PrimaryTypes DEF PrimaryInv, InFlight
    <3>4. q \in armed => Credit(q)'
      <4>1. /\ hb[q] \in Nat /\ age[q] \in Nat /\ restarts[q] \in Nat
            /\ Ticks(q) \in {0, 1} /\ Sends(q) \in {0, 1}
        BY <2>1, PrimaryTypes
      <4>2. hb[q] + Ticks(q) - restarts'[q] - 0 <= hb[q] + Ticks(q) - restarts[q] - Sends(q)
        BY <3>1, <4>1
      <4>3. age[q] + Ticks(q) - restarts'[q] <= age[q] + Ticks(q) - restarts[q]
        BY <3>1, <4>1
      <4> QED
        BY <1>1, <1>2, <2>1, <3>2, <4>2, <4>3, CreditStep DEF PrimaryInv
    <3> QED
      BY <1>1, <2>2, <2>3, <3>3, <3>4 DEF PrimaryInv
  <2>4. CASE q # p
    <3>1. UNCHANGED <<sent[q], up[q], restarts[q]>>
      BY <1>1, <2>1, <2>4 DEF TypeOK, Restart
    <3>2. Sends(q)' = Sends(q) /\ Heards(q)' = Heards(q)
      BY <1>1, <3>1 DEF Sends, Heards
    <3> QED
      BY <1>1, <2>1, <2>2, <3>1, <3>2 DEF PrimaryInv, InFlight, Credit, Punctual
  <2> QED
    BY <2>3, <2>4
<1> QED
  BY <1>2, <1>3, <1>4 DEF IInv

\* A second ends after everybody's timer and every punctual heartbeat.
LEMMA SecondInv ==
  ASSUME IInv, Second
  PROVE  IInv'
<1>1. /\ UNCHANGED <<up, hb, restarts, table, armed, reports>> /\ ticked' = {}
      /\ sent' = [p \in Primaries |-> FALSE] /\ armed \subseteq ticked
      /\ \A p \in Primaries : up[p] => sent[p]
      /\ \A p \in Primaries : hb[p] <= IF p \in Slow THEN MaxInFlight ELSE 0
      /\ age' = [p \in Primaries |-> IF age[p] < AgeCap THEN age[p] + 1 ELSE age[p]]
  BY DEF Second
<1>2. TypeOK'
  <2>1. sent' \in [Primaries -> BOOLEAN]
    BY <1>1
  <2>2. age' \in [Primaries -> Nat]
    BY <1>1 DEF IInv, TypeOK
  <2> QED
    BY <1>1, <2>1, <2>2 DEF IInv, TypeOK, Second, cvars
<1>3. SlotsDistinct'
  BY <1>1 DEF IInv, SlotsDistinct
<1>4. ASSUME NEW q \in Primaries PROVE PrimaryInv(q)'
  <2>1. PrimaryInv(q) /\ TypeOK
    BY DEF IInv
  <2>2. Timed(q)'
    BY <1>1, <2>1 DEF PrimaryInv, Timed, Known
  <2>3. sent'[q] = FALSE /\ q \notin ticked' /\ age'[q] <= age[q] + 1
    BY <1>1, <2>1, PrimaryTypes DEF TypeOK
  <2>4. Sends(q)' = 0 /\ Ticks(q)' = 0 /\ Heards(q)' = 0
    BY <2>3 DEF Sends, Ticks, Heards
  <2>5. InFlight(q)'
    BY <1>1, <2>1, <2>4, PrimaryTypes DEF InFlight
  <2>6. ASSUME q \in armed PROVE Credit(q)'
    <3>1. Ticks(q) = 1
      BY <1>1, <2>6 DEF Ticks
    <3>2. /\ hb[q] \in Nat /\ age[q] \in Nat /\ age'[q] \in Nat /\ restarts[q] \in Nat
          /\ Sends(q) \in {0, 1}
      BY <1>2, <2>1, PrimaryTypes DEF TypeOK
    <3>3. hb[q] + 0 - restarts[q] - 0 <= hb[q] + 1 - restarts[q] - Sends(q)
      BY <3>2
    <3>4. age'[q] + 0 - restarts[q] <= age[q] + 1 - restarts[q]
      BY <2>3, <3>2
    <3> QED
      BY <1>1, <1>2, <2>1, <2>4, <2>6, <3>1, <3>3, <3>4, CreditStep DEF PrimaryInv
  <2>7. ASSUME q \notin Slow, up[q] PROVE Punctual(q)'
    <3>1. sent[q] /\ hb[q] = 0
      BY <1>1, <2>1, <2>7, PrimaryTypes
    <3>2. Heards(q) = 1
      BY <3>1 DEF Heards
    <3>3. ASSUME NEW i \in DOMAIN table, table[i].addr = q
          PROVE  q \in armed /\ table[i].MaxTimes <= 1
      <4>1. q \in armed /\ table[i].MaxTimes <= 1 + Ticks(q) - Heards(q)
        BY <2>1, <2>7, <3>3 DEF PrimaryInv, Punctual
      <4>2. Ticks(q) = 1
        BY <1>1, <4>1 DEF Ticks
      <4> QED
        BY <3>2, <4>1, <4>2
    <3>4. reports[q] = 0
      BY <2>1, <2>7 DEF PrimaryInv, Punctual
    <3> QED
      BY <1>1, <2>4, <3>1, <3>3, <3>4 DEF Punctual
  <2>8. q \notin Slow => Punctual(q)'
    BY <1>1, <2>7 DEF Punctual
  <2> QED
    BY <1>1, <2>2, <2>5, <2>6, <2>8 DEF PrimaryInv
<1> QED
  BY <1>2, <1>3, <1>4 DEF IInv

\* HEARTBEAT: the counter loses at most as much as has left the network, and a
\* first heartbeat finds no more on the way than may be late.
LEMMA ReceiveHeartBeatInv ==
  ASSUME IInv, NEW p \in Primaries, NEW n \in 1..MaxBurst, ReceiveHeartBeat(p, n)
  PROVE  IInv'
<1>1. /\ Heard(p) /\ UNCHANGED <<up, sent, restarts, ticked, reports>>
      /\ hb' = [hb EXCEPT ![p] = @ - n] /\ age' = [age EXCEPT ![p] = 0]
      /\ n \in Nat /\ n >= 1 /\ n <= hb[p]
  BY DetectorAssumption DEF ReceiveHeartBeat
<1>2. TypeOK /\ PrimaryInv(p) /\ table \in Seq(Slots) /\ armed \in SUBSET Primaries
      /\ SlotsDistinct
  BY DEF IInv, TypeOK, Slots
<1>3. /\ table' \in Seq(Slots) /\ armed' \in SUBSET Primaries
      /\ SlotsDistinct'
      /\ armed \subseteq armed' /\ armed' \subseteq armed \cup {p}
      /\ \A q \in Primaries : Known(q) => Known(q)'
      /\ \A i \in DOMAIN table' : HeardSlot(p, i)
      /\ p \in armed' => p \in armed \/ ~Known(p)
      /\ p \in armed' => Known(p)'
  <2>1. p \in armed => Known(p)
    BY <1>2 DEF PrimaryInv, Timed
  <2> QED
    BY <1>1, <1>2, <2>1, HeardFacts
<1>4. hb' \in [Primaries -> Nat] /\ age' \in [Primaries -> Nat]
  BY <1>1, <1>2 DEF TypeOK
<1>5. TypeOK'
  BY <1>1, <1>2, <1>3, <1>4 DEF TypeOK, ReceiveHeartBeat, cvars, Slots
<1>6. ASSUME NEW q \in Primaries, q # p PROVE PrimaryInv(q)'
  <2>1. hb'[q] = hb[q] /\ age'[q] = age[q]
    BY <1>1, <1>2, <1>6 DEF TypeOK
  <2>2. Sends(q)' = Sends(q) /\ Ticks(q)' = Ticks(q) /\ Heards(q)' = Heards(q)
    BY <1>1, <2>1 DEF Sends, Ticks, Heards
  <2>3. \A i \in DOMAIN table' : table'[i].addr = q =>
           /\ i \in DOMAIN table /\ table[i].addr = q
           /\ table'[i].MaxTimes = table[i].MaxTimes
    BY <1>3, <1>6 DEF HeardSlot
  <2>4. (q \in armed' <=> q \in armed) /\ PrimaryInv(q)
    BY <1>3, <1>6 DEF IInv
  <2>5. Timed(q)'
    BY <1>1, <1>3, <2>4 DEF PrimaryInv, Timed
  <2> QED
    BY <1>1, <2>1, <2>2, <2>3, <2>4, <2>5 DEF PrimaryInv, InFlight, Credit, Punctual
<1>7. PrimaryInv(p)'
  <2>1. /\ hb[p] \in Nat /\ hb'[p] = hb[p] - n /\ age'[p] = 0 /\ hb'[p] \in Nat
        /\ restarts[p] \in Nat /\ MaxInFlight \in Nat
        /\ Ticks(p) \in {0, 1} /\ Sends(p) \in {0, 1}
    BY <1>1, <1>2, <1>4, PrimaryTypes DEF TypeOK
  <2>2. Sends(p)' = Sends(p) /\ Ticks(p)' = Ticks(p)
    BY <1>1 DEF Sends, Ticks
  <2>3. Timed(p)'
    BY <1>1, <1>2, <1>3 DEF PrimaryInv, Timed
  <2>4. InFlight(p)'
    <3>1. hb[p] <= MaxInFlight + restarts[p] + Sends(p)
      BY <1>2 DEF PrimaryInv, InFlight
    <3>2. hb'[p] <= MaxInFlight + restarts[p] + Sends(p)
      BY <1>1, <2>1, <3>1
    <3> QED
      BY <1>1, <2>2, <3>2 DEF InFlight
  <2>5. ASSUME NEW i \in DOMAIN table', table'[i].addr = p, p \in armed'
        PROVE  /\ table'[i].MaxTimes <= 2
               /\ table'[i].MaxTimes >=
                     hb'[p] + 1 + Ticks(p) - MaxInFlight - restarts[p] - Sends(p)
               /\ table'[i].MaxTimes >= age'[p] + Ticks(p) - MaxInFlight - restarts[p]
    <3>1. CASE i \in DOMAIN table /\ table'[i].addr = table[i].addr
               /\ (\/ table'[i].MaxTimes = table[i].MaxTimes - 1
                   \/ table'[i].MaxTimes = table[i].MaxTimes /\ table[i].MaxTimes <= 0)
      <4>1. Known(p)
        BY <2>5, <3>1 DEF Known
      <4>2. p \in armed
        BY <1>3, <2>5, <4>1
      <4>3. /\ table[i].MaxTimes <= 2 /\ table[i].MaxTimes \in Int
            /\ table[i].MaxTimes >=
                  hb[p] + 1 + Ticks(p) - MaxInFlight - restarts[p] - Sends(p)
        <5>1. Credit(p) /\ table[i].addr = p
          BY <1>2, <2>5, <3>1, <4>2 DEF PrimaryInv
        <5> QED
          BY <1>2, <3>1, <5>1, PrimaryTypes DEF Credit
      <4> QED
        BY <1>1, <2>1, <3>1, <4>3
    <3>2. CASE table'[i].MaxTimes = 0 /\ ~Known(p)
      <4>1. Ticks(p) = 0
        BY <1>2, <3>2 DEF PrimaryInv, Timed, Ticks
      <4>2. hb[p] <= MaxInFlight + restarts[p] + Sends(p)
        BY <1>2 DEF PrimaryInv, InFlight
      <4> QED
        BY <1>1, <2>1, <3>2, <4>1, <4>2
    <3> QED
      BY <1>3, <2>5, <3>1, <3>2 DEF HeardSlot
  <2>6. p \in armed' => Credit(p)'
    BY <1>1, <2>2, <2>5 DEF Credit
  <2>7. ASSUME p \notin Slow, up[p] PROVE Punctual(p)'
    <3>1. Punctual(p) /\ reports[p] = 0 /\ hb[p] <= Sends(p)
      BY <1>2, <2>7 DEF PrimaryInv, Punctual
    <3>2. hb[p] = 1 /\ hb'[p] = 0 /\ Sends(p) = 1
      BY <1>1, <2>1, <3>1
    <3>3. Heards(p) = 0 /\ Heards(p)' = 1
      BY <1>1, <3>2 DEF Heards, Sends
    <3>4. ASSUME NEW i \in DOMAIN table', table'[i].addr = p
          PROVE  p \in armed' /\ table'[i].MaxTimes <= Ticks(p)
      <4>1. CASE i \in DOMAIN table /\ table'[i].addr = table[i].addr
                 /\ (\/ table'[i].MaxTimes = table[i].MaxTimes - 1
                     \/ table'[i].MaxTimes = table[i].MaxTimes /\ table[i].MaxTimes <= 0)
        <5>1. p \in armed /\ table[i].MaxTimes <= 1 + Ticks(p) - Heards(p)
          BY <2>7, <3>1, <3>4, <4>1 DEF Punctual
        <5>2. table[i].MaxTimes \in Int
          BY <1>2, <4>1, PrimaryTypes
        <5> QED
          BY <1>3, <2>1, <3>3, <4>1, <5>1, <5>2
      <4>2. CASE table'[i].MaxTimes = 0 /\ p \in armed'
        BY <2>1, <4>2
      <4> QED
        BY <1>3, <3>4, <4>1, <4>2 DEF HeardSlot
    <3>5. Punctual(p)'
      BY <1>1, <2>1, <2>2, <3>1, <3>2, <3>3, <3>4 DEF Punctual
    <3> QED
      BY <3>5
  <2>8. p \notin Slow => Punctual(p)'
    BY <1>1, <2>7 DEF Punctual
  <2> QED
    BY <2>3, <2>4, <2>6, <2>8 DEF PrimaryInv
<1> QED
  BY <1>3, <1>5, <1>6, <1>7 DEF IInv

\* recovery_cb: a tick is counted, and the timer is added again only while the
\* counter is at most 2.
LEMMA RecoveryCbInv ==
  ASSUME IInv, NEW p \in Primaries, RecoveryCb(p)
  PROVE  IInv'
<1> DEFINE reported == \E i \in Slot(p) : Suspect(Counted(p)[i].MaxTimes)
<1>1. /\ UNCHANGED <<up, sent, hb, restarts, age>>
      /\ p \in armed /\ p \notin ticked
      /\ table' = Counted(p) /\ ticked' = ticked \cup {p}
      /\ armed' = IF reported THEN armed \ {p} ELSE armed
      /\ reports' = IF reported /\ coordLink THEN [reports EXCEPT ![p] = @ + 1] ELSE reports
      /\ crash' = IF reported /\ coordLink THEN Append(crash, p) ELSE crash
      /\ repeats' = IF reported /\ coordLink THEN [repeats EXCEPT ![p] = @ + 1] ELSE repeats
      /\ since' = IF reported /\ coordLink THEN [since EXCEPT ![p] = TRUE] ELSE since
      /\ rnode' = IF reported /\ ~coordLink THEN "segv" ELSE rnode
      /\ UNCHANGED <<coordLink, crashed, backupLink, bnode, restored>>
  BY Zenon DEF RecoveryCb, Rearmed, pvars
<1>2. TypeOK /\ PrimaryInv(p) /\ table \in Seq(Slots) /\ SlotsDistinct
  BY DEF IInv, TypeOK, Slots
<1>3. /\ table' \in Seq(Slots) /\ DOMAIN table' = DOMAIN table
      /\ \A i \in DOMAIN table :
            /\ table'[i].addr = table[i].addr
            /\ table[i].MaxTimes \in Int
            /\ table'[i].MaxTimes = table[i].MaxTimes + (IF table[i].addr = p THEN 1 ELSE 0)
  BY <1>1, <1>2, CountedFacts
<1>4. ~reported => \A i \in DOMAIN table : table[i].addr = p => table'[i].MaxTimes <= 2
  <2>1. ASSUME ~reported, NEW i \in DOMAIN table, table[i].addr = p
        PROVE  ~(table'[i].MaxTimes > 2)
    BY <1>1, <2>1 DEF Slot, Suspect
  <2> QED
    BY <1>3, <2>1
<1>5. reported => \E i \in DOMAIN table : table[i].addr = p /\ table'[i].MaxTimes > 2
  BY <1>1 DEF Slot, Suspect
<1> HIDE DEF reported
<1>6. TypeOK'
  <2>1. /\ reports' \in [Primaries -> Nat] /\ repeats' \in [Primaries -> Nat]
        /\ since' \in [Primaries -> BOOLEAN]
    <3>1. /\ reports \in [Primaries -> Nat] /\ repeats \in [Primaries -> Nat]
          /\ since \in [Primaries -> BOOLEAN]
      BY <1>2, Zenon DEF TypeOK
    <3>2. reports' \in [Primaries -> Nat]
      BY <1>1, <3>1
    <3>3. repeats' \in [Primaries -> Nat]
      BY <1>1, <3>1
    <3>4. since' \in [Primaries -> BOOLEAN]
      BY <1>1, <3>1
    <3> QED
      BY <3>2, <3>3, <3>4
  <2>2. crash' \in Seq(Primaries)
    BY <1>1, <1>2 DEF TypeOK
  <2>3. armed' \in SUBSET Primaries /\ ticked' \in SUBSET Primaries
    BY <1>1, <1>2 DEF TypeOK
  <2> QED
    BY <1>1, <1>2, <1>3, <2>1, <2>2, <2>3 DEF TypeOK, Slots
<1>7. SlotsDistinct'
  BY <1>2, <1>3 DEF SlotsDistinct
<1>8. \A q \in Primaries : Known(q)' <=> Known(q)
  BY <1>3 DEF Known
<1>9. ASSUME NEW q \in Primaries, q # p PROVE PrimaryInv(q)'
  <2>1. PrimaryInv(q) /\ (q \in armed' <=> q \in armed) /\ (q \in ticked' <=> q \in ticked)
    BY <1>1, <1>9 DEF IInv
  <2>2. Sends(q)' = Sends(q) /\ Ticks(q)' = Ticks(q) /\ Heards(q)' = Heards(q)
    BY <1>1, <2>1 DEF Sends, Ticks, Heards
  <2>3. reports'[q] = reports[q]
    BY <1>1, <1>2, <1>9 DEF TypeOK
  <2>4. \A i \in DOMAIN table' : table'[i].addr = q =>
           /\ i \in DOMAIN table /\ table[i].addr = q
           /\ table'[i].MaxTimes = table[i].MaxTimes
    BY <1>3, <1>9
  <2>5. Timed(q)'
    BY <1>8, <2>1, <2>3 DEF PrimaryInv, Timed
  <2> QED
    BY <1>1, <2>1, <2>2, <2>3, <2>4, <2>5 DEF PrimaryInv, InFlight, Credit, Punctual
<1>10. PrimaryInv(p)'
  <2>1. /\ hb[p] \in Nat /\ age[p] \in Nat /\ restarts[p] \in Nat /\ MaxInFlight \in Nat
        /\ Sends(p) \in {0, 1} /\ Heards(p) \in {0, 1}
    BY <1>2, PrimaryTypes
  <2>2. /\ Sends(p)' = Sends(p) /\ Heards(p)' = Heards(p)
        /\ Ticks(p) = 0 /\ Ticks(p)' = 1
    BY <1>1 DEF Sends, Ticks, Heards
  <2>3. Known(p) /\ reports[p] = 0
    BY <1>1, <1>2 DEF PrimaryInv, Timed
  <2>4. /\ reports'[p] = IF reported /\ coordLink THEN 1 ELSE 0
        /\ p \in armed' <=> ~reported
    BY <1>1, <1>2, <2>3 DEF TypeOK
  <2>5. Timed(p)'
    BY <1>8, <2>3, <2>4 DEF Timed
  <2>6. InFlight(p)'
    BY <1>1, <1>2, <2>2 DEF PrimaryInv, InFlight
  <2>7. ASSUME NEW i \in DOMAIN table, table[i].addr = p
        PROVE  /\ table'[i].MaxTimes \in Int
               /\ table'[i].MaxTimes >=
                     hb[p] + 1 + 1 - MaxInFlight - restarts[p] - Sends(p)
               /\ table'[i].MaxTimes >= age[p] + 1 - MaxInFlight - restarts[p]
    <3>1. /\ table[i].MaxTimes >= hb[p] + 1 + Ticks(p) - MaxInFlight - restarts[p] - Sends(p)
          /\ table[i].MaxTimes >= age[p] + Ticks(p) - MaxInFlight - restarts[p]
      BY <1>1, <1>2, <2>7 DEF PrimaryInv, Credit
    <3>2. table[i].MaxTimes \in Int /\ table'[i].MaxTimes = table[i].MaxTimes + 1
      BY <1>3, <2>7
    <3> QED
      BY <2>1, <2>2, <3>1, <3>2
  <2>8. p \in armed' => Credit(p)'
    BY <1>1, <1>3, <1>4, <2>2, <2>4, <2>7 DEF Credit
  <2>9. ASSUME p \notin Slow, up[p] PROVE Punctual(p)'
    <3>1. \A i \in DOMAIN table : table[i].addr = p => table[i].MaxTimes <= 1 + 0 - Heards(p)
      BY <1>2, <2>2, <2>9 DEF PrimaryInv, Punctual
    <3>2. \A i \in DOMAIN table : table[i].addr = p =>
             table'[i].MaxTimes <= 1 + 1 - Heards(p) /\ table'[i].MaxTimes <= 2
      <4>1. ASSUME NEW i \in DOMAIN table, table[i].addr = p
            PROVE  table'[i].MaxTimes <= 1 + 1 - Heards(p) /\ table'[i].MaxTimes <= 2
        <5>1. /\ table[i].MaxTimes \in Int /\ table'[i].MaxTimes = table[i].MaxTimes + 1
              /\ table[i].MaxTimes <= 1 + 0 - Heards(p)
          BY <1>3, <3>1, <4>1
        <5> QED
          BY <2>1, <5>1
      <4> QED
        BY <4>1
    <3>3. ~reported
      <4>1. ASSUME NEW i \in DOMAIN table, table[i].addr = p, table'[i].MaxTimes > 2
            PROVE  FALSE
        <5>1. table'[i].MaxTimes \in Int /\ table'[i].MaxTimes <= 2
          BY <2>7, <3>2, <4>1
        <5> QED
          BY <4>1, <5>1
      <4> QED
        BY <1>5, <4>1
    <3>4. reports'[p] = 0 /\ p \in armed' /\ hb[p] <= Sends(p)
      BY <1>2, <2>4, <2>9, <3>3 DEF PrimaryInv, Punctual
    <3> QED
      BY <1>1, <1>3, <2>2, <3>2, <3>4 DEF Punctual
  <2>10. p \notin Slow => Punctual(p)'
    BY <1>1, <2>9 DEF Punctual
  <2> QED
    BY <2>5, <2>6, <2>8, <2>10 DEF PrimaryInv
<1> QED
  BY <1>6, <1>7, <1>9, <1>10 DEF IInv

\* What happens on the coordinator, on the backup and on the way to them does
\* not concern the table.
LEMMA ElsewhereInv ==
  ASSUME IInv, UNCHANGED <<pvars, table, armed, ticked, age, reports>>, TypeOK'
  PROVE  IInv'
<1>1. UNCHANGED <<up, sent, hb, restarts, table, armed, ticked, age, reports>>
  BY DEF pvars
<1>2. SlotsDistinct'
  BY <1>1 DEF IInv, SlotsDistinct
<1>3. ASSUME NEW q \in Primaries PROVE PrimaryInv(q)'
  <2>1. PrimaryInv(q)
    BY DEF IInv
  <2>2. Ticks(q)' = Ticks(q) /\ Sends(q)' = Sends(q) /\ Heards(q)' = Heards(q)
    BY <1>1 DEF Ticks, Sends, Heards
  <2> QED
    BY <1>1, <2>1, <2>2 DEF PrimaryInv, Timed, Known, InFlight, Credit, Punctual
<1> QED
  BY <1>2, <1>3 DEF IInv

\* CRASH is parsed into an address.
LEMMA CoordinatorCrashInv ==
  ASSUME IInv, NEW n \in 1..MaxBurst, CoordinatorCrash(n)
  PROVE  IInv'
<1>1. n \in Nat \ {0} /\ n <= Len(crash)
  BY DetectorAssumption DEF CoordinatorCrash
<1>2. crash \in Seq(Primaries) /\ crashed \in Seq(Addrs)
  BY DEF IInv, TypeOK
<1>3. /\ SubSeq(crash, 1, n) \in Seq(Primaries) /\ SubSeq(crash, 1, n) # <<>>
      /\ crash' \in Seq(Primaries)
  BY <1>1, <1>2, CutType DEF CoordinatorCrash
<1>4. ParseCrash(SubSeq(crash, 1, n)) \in Addrs
  BY <1>3, ParseCrashType
<1>5. crashed' \in Seq(Addrs)
  BY <1>2, <1>4 DEF CoordinatorCrash
<1>6. UNCHANGED <<pvars, rvars, backupLink, bnode, restored>>
  BY DEF CoordinatorCrash
<1>7. TypeOK'
  BY <1>3, <1>5, <1>6 DEF IInv, TypeOK, pvars, rvars
<1> QED
  BY <1>6, <1>7, ElsewhereInv DEF rvars

\* The backup restores only what it has files of.
LEMMA BackupCrashedInv ==
  ASSUME IInv, NEW n \in 1..MaxBurst, BackupCrashed(n)
  PROVE  IInv'
<1>1. n \in Nat \ {0} /\ n <= Len(crashed)
  BY DetectorAssumption DEF BackupCrashed
<1>2. crashed \in Seq(Addrs)
  BY DEF IInv, TypeOK
<1>3. crashed' \in Seq(Addrs)
  BY <1>1, <1>2, CutType DEF BackupCrashed
<1>4. restored' \in SUBSET Persisted /\ bnode' \in {"up", "segv"}
  BY DEF IInv, TypeOK, BackupCrashed, BackupRestores
<1>5. UNCHANGED <<pvars, rvars, crash, backupLink>>
  BY DEF BackupCrashed
<1>6. TypeOK'
  BY <1>3, <1>4, <1>5 DEF IInv, TypeOK, pvars, rvars
<1> QED
  BY <1>5, <1>6, ElsewhereInv DEF rvars

-----------------------------------------------------------------------------
\* Every step of the recovery node, of a primary, of the coordinator and of the
\* backup keeps the invariant.
LEMMA NextInv == IInv /\ [Next]_vars => IInv'
<1> SUFFICES ASSUME IInv, [Next]_vars PROVE IInv'
  OBVIOUS
<1>1. ASSUME NEW p \in Primaries, SendHeartBeat(p) \/ Crash(p) \/ Restart(p)
      PROVE  IInv'
  BY <1>1, SendHeartBeatInv, CrashInv, RestartInv
<1>2. CASE Second
  BY <1>2, SecondInv
<1>3. ASSUME NEW p \in Primaries, NEW n \in 1..MaxBurst, ReceiveHeartBeat(p, n)
      PROVE  IInv'
  BY <1>3, ReceiveHeartBeatInv
<1>4. ASSUME NEW p \in Primaries, RecoveryCb(p) PROVE IInv'
  BY <1>4, RecoveryCbInv
<1>5. CASE ConnectCoordinator
  <2>1. TypeOK'
    BY <1>5 DEF IInv, TypeOK, ConnectCoordinator, pvars, cvars
  <2> QED
    BY <1>5, <2>1, ElsewhereInv DEF ConnectCoordinator
<1>6. ASSUME NEW n \in 1..MaxBurst, CoordinatorCrash(n) PROVE IInv'
  BY <1>6, CoordinatorCrashInv
<1>7. CASE ConnectBackup
  <2>1. TypeOK'
    BY <1>7 DEF IInv, TypeOK, ConnectBackup, pvars, rvars
  <2> QED
    BY <1>7, <2>1, ElsewhereInv DEF ConnectBackup, rvars
<1>8. ASSUME NEW n \in 1..MaxBurst, BackupCrashed(n) PROVE IInv'
  BY <1>8, BackupCrashedInv
<1>9. CASE UNCHANGED vars
  <2>1. TypeOK'
    BY <1>9 DEF IInv, TypeOK, vars, pvars, rvars, cvars
  <2> QED
    BY <1>9, <2>1, ElsewhereInv DEF vars, rvars
<1> QED
  BY <1>1, <1>2, <1>3, <1>4, <1>5, <1>6, <1>7, <1>8, <1>9 DEF Next

\* The inductive invariant holds in every reachable state.
LEMMA Invariant == Spec => []IInv
BY InitInv, NextInv, PTL DEF Spec

\* Every variable of the recovery node, the primaries, the coordinator and the
\* backup keeps its type; in particular only data of primaries the backup has
\* files of is sent to the recovery node.
THEOREM TypeCorrect == Spec => []TypeOK
<1>1. IInv => TypeOK
  BY DEF IInv
<1> QED
  BY Invariant, <1>1, PTL

\* Reports of one silence are reports.
Repeated == \A p \in Primaries : repeats[p] <= reports[p]

\* Only recovery_cb counts, and it counts both.
LEMMA RepeatedStep == IInv /\ IInv' /\ Repeated /\ [Next]_vars => Repeated'
<1> SUFFICES ASSUME IInv, IInv', Repeated, [Next]_vars, NEW q \in Primaries
             PROVE  repeats'[q] <= reports'[q]
  BY DEF Repeated
<1>1. /\ repeats \in [Primaries -> Nat] /\ reports \in [Primaries -> Nat]
      /\ reports'[q] \in Nat /\ repeats[q] <= reports[q]
  BY DEF IInv, TypeOK, Repeated
<1>2. CASE UNCHANGED <<reports, repeats>>
  BY <1>1, <1>2
<1>3. ASSUME NEW p \in Primaries, NEW n \in 1..MaxBurst, ReceiveHeartBeat(p, n)
      PROVE  repeats'[q] <= reports'[q]
  <2>1. reports' = reports /\ repeats' = [repeats EXCEPT ![p] = 0]
    BY <1>3 DEF ReceiveHeartBeat
  <2> QED
    BY <1>1, <2>1
<1>4. ASSUME NEW p \in Primaries, RecoveryCb(p) PROVE repeats'[q] <= reports'[q]
  <2>1. \/ UNCHANGED <<reports, repeats>>
        \/ /\ reports' = [reports EXCEPT ![p] = @ + 1]
           /\ repeats' = [repeats EXCEPT ![p] = @ + 1]
    BY <1>4, Zenon DEF RecoveryCb
  <2> QED
    BY <1>1, <1>2, <2>1
<1>5. \/ UNCHANGED <<reports, repeats>>
      \/ \E p \in Primaries, n \in 1..MaxBurst : ReceiveHeartBeat(p, n)
      \/ \E p \in Primaries : RecoveryCb(p)
  BY DEF Next, vars, rvars, SendHeartBeat, Crash, Restart, Second, ConnectCoordinator,
         CoordinatorCrash, ConnectBackup, BackupCrashed
<1> QED
  BY <1>2, <1>3, <1>4, <1>5

\* recovery_cb reports one silence once: its timer is gone then, and HEARTBEAT
\* starts a timer only together with a slot, which the primary has already.
THEOREM ReportedOncePerSilenceAlways == Spec => []ReportedOncePerSilence
<1>1. Init => Repeated
  BY DEF Init, Repeated
<1>2. IInv /\ Repeated => ReportedOncePerSilence
  <2> SUFFICES ASSUME IInv, Repeated, NEW p \in Primaries PROVE repeats[p] <= 1
    BY DEF ReportedOncePerSilence
  <2>1. reports[p] \in {0, 1} /\ repeats[p] \in Nat /\ repeats[p] <= reports[p]
    BY DEF IInv, TypeOK, PrimaryInv, Timed, Repeated
  <2> QED
    BY <2>1
<1> QED
  BY InitInv, NextInv, RepeatedStep, <1>1, <1>2, PTL DEF Spec

\* recovery_cb never reports a primary that has not stopped and whose heartbeats
\* arrive in their second, for any interleaving of timer and heartbeat.
THEOREM NoFalseReportAlways == Spec => []NoFalseReport
<1>1. IInv => NoFalseReport
  <2> SUFFICES ASSUME IInv, NEW p \in Primaries, p \notin Slow, reports[p] > 0, up[p]
               PROVE  FALSE
    BY DEF NoFalseReport
  <2>1. reports[p] = 0
    BY DEF IInv, PrimaryInv, Punctual
  <2> QED
    BY <2>1
<1> QED
  BY Invariant, <1>1, PTL

\* While recovery_cb is still being called for a primary, its last heartbeat is
\* at most two seconds and one for each heartbeat of credit ago.
THEOREM SilenceBoundedAlways == Spec => []SilenceBounded
<1>1. IInv => SilenceBounded
  <2> SUFFICES ASSUME IInv, NEW p \in armed
               PROVE  age[p] <= 2 + MaxInFlight + restarts[p]
    BY DEF SilenceBounded
  <2>1. TypeOK /\ p \in Primaries /\ PrimaryInv(p)
    BY DEF IInv, TypeOK
  <2>2. PICK i \in DOMAIN table : table[i].addr = p
    BY <2>1 DEF PrimaryInv, Timed, Known
  <2>3. /\ table[i].MaxTimes <= 2
        /\ table[i].MaxTimes >= age[p] + Ticks(p) - MaxInFlight - restarts[p]
    BY <2>1, <2>2 DEF PrimaryInv, Credit
  <2>4. /\ table[i].MaxTimes \in Int /\ age[p] \in Nat /\ restarts[p] \in Nat
        /\ Ticks(p) \in {0, 1} /\ MaxInFlight \in Nat
    BY <2>1, PrimaryTypes
  <2> QED
    BY <2>3, <2>4
<1> QED
  BY Invariant, <1>1, PTL
=============================================================================
