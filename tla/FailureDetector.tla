--------------------------- MODULE FailureDetector ---------------------------
(***************************************************************************)
(* Detection of a crashed primary and the chain that restores its data     *)
(* (ramcube.c: HB_cb, sendHeartBeat, HEARTBEAT, autoAddTimes, recovery_cb, *)
(* CRASH, CRASHED, send_to_recovery).                                      *)
(*                                                                         *)
(* Every primary sends HEARTBEAT once a second to the recovery node, which *)
(* keeps one counter per primary in PrimaryTable: a heartbeat takes one    *)
(* off, a timer adds one every second, and above 2 the primary is reported *)
(* to the coordinator.  The coordinator tells the backup, the backup sends *)
(* the primary's segments to the recovery node.                            *)
(*                                                                         *)
(* Time is counted in seconds: in each one every live primary sends one    *)
(* heartbeat and every armed timer fires once, in any order.               *)
(***************************************************************************)
EXTENDS Integers, Sequences, FiniteSets

CONSTANTS
    Primaries,      \* addresses, records [ip, port]
    Persisted,      \* addresses the backup has files of
    MAX_PRIMARY,    \* slots of PrimaryTable
    Slow,           \* primaries whose heartbeats may be late, and that may restart
    MaxInFlight,    \* heartbeats of a slow one that may cross the end of a second
    MaxBurst,       \* messages one read may return
    MaxRestarts,    \* bound: restarts of each slow primary
    AgeCap,         \* bound: ages are counted up to this many seconds
    Floor           \* bound: counters are tracked down to -Floor

ASSUME DetectorAssumption ==
    /\ \A p \in Primaries \cup Persisted : DOMAIN p = {"ip", "port"}
    /\ Slow \subseteq Primaries
    /\ MAX_PRIMARY \in Nat \ {0} /\ MaxInFlight \in Nat /\ MaxBurst \in Nat \ {0}
    /\ MaxRestarts \in Nat /\ AgeCap \in Nat /\ Floor \in Nat

VARIABLES
    up,         \* which primaries run
    sent,       \* which primaries have sent their heartbeat of this second
    hb,         \* heartbeats in flight from each primary
    table,      \* PrimaryTable: the used slots, [addr, MaxTimes]
    armed,      \* primaries whose timer is pending
    ticked,     \* primaries whose timer has fired in this second
    rnode,      \* the recovery node: "up" or "segv"
    coordLink,  \* vpCoordinatorOut[0] of the recovery node is set
    crash,      \* CRASH messages to the coordinator, in flight
    crashed,    \* CRASHED messages to the backup, in flight
    backupLink, \* the coordinator has a proxy of the backup
    bnode,      \* the backup: "up" or "segv"
    restored,   \* primaries whose data was sent to the recovery node
    age,        \* seconds since the last heartbeat of each primary was handled
    reports,    \* number of CRASH messages sent about each primary
    repeats,    \* those sent since a heartbeat of it was last handled (history)
    since,      \* a report was sent since the primary last started (history)
    restarts

pvars == <<up, sent, hb, restarts>>
rvars == <<table, armed, ticked, rnode, coordLink, age, reports, repeats, since>>
cvars == <<crash, crashed, backupLink, bnode, restored>>
vars == <<pvars, rvars, cvars>>

Init ==
    /\ up = [p \in Primaries |-> TRUE]
    /\ sent = [p \in Primaries |-> FALSE]
    /\ hb = [p \in Primaries |-> 0]
    /\ table = <<>>
    /\ armed = {} /\ ticked = {}
    /\ rnode = "up" /\ coordLink = FALSE
    /\ crash = <<>> /\ crashed = <<>>
    /\ backupLink = FALSE /\ bnode = "up"
    /\ restored = {}
    /\ age = [p \in Primaries |-> 0]
    /\ reports = [p \in Primaries |-> 0]
    /\ repeats = [p \in Primaries |-> 0]
    /\ since = [p \in Primaries |-> FALSE]
    /\ restarts = [p \in Primaries |-> 0]

-----------------------------------------------------------------------------
(***************************************************************************)
(* Primaries and the clock.                                                *)
(***************************************************************************)

\* HB_cb, sendHeartBeat: one HEARTBEAT, and the timer is added again.
SendHeartBeat(p) ==
    /\ up[p] /\ ~sent[p]
    /\ hb' = [hb EXCEPT ![p] = @ + 1]
    /\ sent' = [sent EXCEPT ![p] = TRUE]
    /\ UNCHANGED <<up, restarts, rvars, cvars>>

Crash(p) ==
    /\ up[p]
    /\ up' = [up EXCEPT ![p] = FALSE]
    /\ UNCHANGED <<sent, hb, restarts, rvars, cvars>>

\* The primary comes back under the same address and connects again.
Restart(p) ==
    /\ p \in Slow /\ ~up[p] /\ restarts[p] < MaxRestarts
    /\ up' = [up EXCEPT ![p] = TRUE]
    /\ sent' = [sent EXCEPT ![p] = FALSE]
    /\ restarts' = [restarts EXCEPT ![p] = @ + 1]
    /\ since' = [since EXCEPT ![p] = FALSE]
    /\ UNCHANGED <<hb, table, armed, ticked, rnode, coordLink, age, reports, repeats, cvars>>

\* A second ends: whoever had to act in it has.
Second ==
    /\ rnode = "up"
    /\ \A p \in Primaries :
          /\ up[p] => sent[p]
          /\ hb[p] <= IF p \in Slow THEN MaxInFlight ELSE 0
    /\ armed \subseteq ticked
    /\ sent' = [p \in Primaries |-> FALSE]
    /\ ticked' = {}
    /\ age' = [p \in Primaries |-> IF age[p] < AgeCap THEN age[p] + 1 ELSE age[p]]
    /\ UNCHANGED <<up, hb, restarts, table, armed, rnode, coordLink, reports, repeats, since,
                   cvars>>

-----------------------------------------------------------------------------
(***************************************************************************)
(* The recovery node.                                                      *)
(***************************************************************************)

Slot(p) == {i \in DOMAIN table : table[i].addr = p}

\* Mutant of Heard: a heartbeat of a known primary counts twice.
Heard_Twice(p) ==
    \/ /\ Slot(p) # {}
       /\ table' = [i \in DOMAIN table |->
             IF table[i].addr = p /\ table[i].MaxTimes > -Floor
             THEN [table[i] EXCEPT !.MaxTimes = @ - 2] ELSE table[i]]
       /\ UNCHANGED armed
    \/ /\ Slot(p) = {} /\ Len(table) < MAX_PRIMARY
       /\ table' = Append(table, [addr |-> p, MaxTimes |-> 0])
       /\ armed' = armed \cup {p}

\* HEARTBEAT: a known primary's counter goes down by one; an unknown one gets
\* the next free slot, its counter at 0, and its timer; with no free slot
\* nothing happens.
Heard(p) ==
    \/ /\ Slot(p) # {}
       /\ table' = [i \in DOMAIN table |->
             IF table[i].addr = p /\ table[i].MaxTimes > -Floor
             THEN [table[i] EXCEPT !.MaxTimes = @ - 1] ELSE table[i]]
       /\ UNCHANGED armed
    \/ /\ Slot(p) = {} /\ Len(table) < MAX_PRIMARY
       /\ table' = Append(table, [addr |-> p, MaxTimes |-> 0])
       /\ armed' = armed \cup {p}                       \* autoAddTimes
    \/ /\ Slot(p) = {} /\ Len(table) >= MAX_PRIMARY
       /\ UNCHANGED <<table, armed>>

\* One read returns n heartbeats of p.  The handler returns 1, at which
\* try_read_command throws the rest of the buffer away.
ReceiveHeartBeat(p, n) ==
    /\ rnode = "up" /\ n <= hb[p]
    /\ Heard(p)
    /\ hb' = [hb EXCEPT ![p] = @ - n]
    /\ age' = [age EXCEPT ![p] = 0]
    /\ repeats' = [repeats EXCEPT ![p] = 0]
    /\ UNCHANGED <<up, sent, restarts, ticked, rnode, coordLink, reports, since, cvars>>

\* Mutant of Rearmed: the timer is added again after a report too.
Rearmed_Always(p, reported) == armed

\* Mutant of Rearmed: the timer is never added again.
Rearmed_Never(p, reported) == armed \ {p}

\* recovery_cb adds the timer again unless it has just sent a report.
Rearmed(p, reported) == IF reported THEN armed \ {p} ELSE armed

\* Mutant of Suspect: the limit of the comment.
Suspect_Early(times) == times > 1

Suspect(times) == times > 2

Counted(p) ==
    [i \in DOMAIN table |->
        IF table[i].addr = p THEN [table[i] EXCEPT !.MaxTimes = @ + 1] ELSE table[i]]

\* recovery_cb: the counter goes up by one; above 2 the coordinator is told
\* through vpCoordinatorOut[0], which is NULL while there is no coordinator.
RecoveryCb(p) ==
    /\ rnode = "up" /\ p \in armed \ ticked
    /\ table' = Counted(p)
    /\ ticked' = ticked \cup {p}
    /\ LET reported == \E i \in Slot(p) : Suspect(Counted(p)[i].MaxTimes)
       IN  /\ armed' = Rearmed(p, reported)
           /\ IF reported /\ coordLink
              THEN /\ crash' = Append(crash, p)
                   /\ reports' = [reports EXCEPT ![p] = @ + 1]
                   /\ repeats' = [repeats EXCEPT ![p] = @ + 1]
                   /\ since' = [since EXCEPT ![p] = TRUE]
              ELSE UNCHANGED <<crash, reports, repeats, since>>
           /\ rnode' = IF reported /\ ~coordLink THEN "segv" ELSE rnode
    /\ UNCHANGED <<pvars, coordLink, age, crashed, backupLink, bnode, restored>>

\* TYPE of the coordinator was handled: its proxy is in vpCoordinatorOut.
ConnectCoordinator ==
    /\ rnode = "up" /\ ~coordLink
    /\ coordLink' = TRUE
    /\ UNCHANGED <<pvars, cvars, table, armed, ticked, rnode, age, reports, repeats, since>>

-----------------------------------------------------------------------------
(***************************************************************************)
(* The coordinator and the backup.                                         *)
(***************************************************************************)

\* CRASH: the first address token is the ip, the last number of everything that
\* was read is the port.
ParseCrash(batch) == [ip |-> Head(batch).ip, port |-> batch[Len(batch)].port]

\* CRASH: the backup's address is fixed in the code; while the coordinator has no
\* proxy of it the message is dropped.
CoordinatorCrash(n) ==
    /\ n <= Len(crash)
    /\ crashed' = IF backupLink THEN Append(crashed, ParseCrash(SubSeq(crash, 1, n)))
                  ELSE crashed
    /\ crash' = SubSeq(crash, n + 1, Len(crash))
    /\ UNCHANGED <<pvars, rvars, backupLink, bnode, restored>>

ConnectBackup ==
    /\ ~backupLink
    /\ backupLink' = TRUE
    /\ UNCHANGED <<pvars, rvars, crash, crashed, bnode, restored>>

\* Mutant of BackupRestores: the answer goes to a node that is not there.
BackupRestores_Nowhere(p) == UNCHANGED <<bnode, restored>>

\* Mutant of BackupRestores: a missing directory is taken for an empty one.
BackupRestores_Any(p) == restored' = restored \cup {p} /\ UNCHANGED bnode

\* send_to_recovery: loadToMem of an address with no directory ends the backup.
BackupRestores(p) ==
    IF p \in Persisted
    THEN restored' = restored \cup {p} /\ UNCHANGED bnode
    ELSE bnode' = "segv" /\ UNCHANGED restored

\* CRASHED: the first of the n messages read is handled, the others are lost.
BackupCrashed(n) ==
    /\ bnode = "up" /\ n <= Len(crashed)
    /\ BackupRestores(Head(crashed))
    /\ crashed' = SubSeq(crashed, n + 1, Len(crashed))
    /\ UNCHANGED <<pvars, rvars, crash, backupLink>>

-----------------------------------------------------------------------------
Next ==
    \/ \E p \in Primaries : SendHeartBeat(p) \/ Crash(p) \/ Restart(p)
    \/ Second
    \/ \E p \in Primaries, n \in 1..MaxBurst : ReceiveHeartBeat(p, n)
    \/ \E p \in Primaries : RecoveryCb(p)
    \/ ConnectCoordinator
    \/ \E n \in 1..MaxBurst : CoordinatorCrash(n)
    \/ ConnectBackup
    \/ \E n \in 1..MaxBurst : BackupCrashed(n)

Spec == Init /\ [][Next]_vars

\* Timers fire, the network delivers and the event loops run; nobody has to
\* crash, to restart or to connect.
Fairness ==
    /\ WF_vars(Second)
    /\ \A p \in Primaries :
          /\ WF_vars(SendHeartBeat(p))
          /\ WF_vars(\E n \in 1..MaxBurst : ReceiveHeartBeat(p, n))
          /\ WF_vars(RecoveryCb(p))
    /\ WF_vars(\E n \in 1..MaxBurst : CoordinatorCrash(n))
    /\ WF_vars(\E n \in 1..MaxBurst : BackupCrashed(n))

FairSpec == Spec /\ Fairness

-----------------------------------------------------------------------------
(***************************************************************************)
(* Properties.                                                             *)
(***************************************************************************)

Addrs == [ip : {p.ip : p \in Primaries}, port : {p.port : p \in Primaries}]

\* Every variable has its type.
TypeOK ==
    /\ up \in [Primaries -> BOOLEAN] /\ sent \in [Primaries -> BOOLEAN]
    /\ hb \in [Primaries -> Nat]
    /\ table \in Seq([addr : Primaries, MaxTimes : Int])
    /\ armed \in SUBSET Primaries /\ ticked \in SUBSET Primaries
    /\ rnode \in {"up", "segv"} /\ bnode \in {"up", "segv"}
    /\ coordLink \in BOOLEAN /\ backupLink \in BOOLEAN
    /\ crash \in Seq(Primaries) /\ crashed \in Seq(Addrs)
    /\ restored \in SUBSET Persisted
    /\ age \in [Primaries -> Nat]
    /\ reports \in [Primaries -> Nat] /\ repeats \in [Primaries -> Nat]
    /\ since \in [Primaries -> BOOLEAN]
    /\ restarts \in [Primaries -> Nat]

\* One crash is reported once, so its data is not replayed a second time over newer
\* values: between two reports about a primary a heartbeat of it has been handled,
\* whatever the counter says while the timer of recovery_cb goes on.
ReportedOncePerSilence == \A p \in Primaries : repeats[p] <= 1

\* A primary that never stopped, and whose heartbeats all arrived within the
\* second they were sent in, is never reported, whatever the order of the timer
\* and the heartbeat within each second.
NoFalseReport ==
    \A p \in Primaries \ Slow : reports[p] > 0 => ~up[p]

\* While a primary's timer is armed, its silence is bounded: heartbeats arriving
\* before the timer of their second, and the extra heartbeat of a quick restart,
\* build up a credit that puts the report off by one second each, and nothing
\* else does.  The credit is at most the heartbeats that can be late together.
SilenceBounded == \A p \in armed : age[p] <= 2 + MaxInFlight + restarts[p]

\* A primary with a running timer that stops for good is reported, unless the
\* recovery node has no coordinator to report to.
FirstCrashReported ==
    \A p \in Primaries :
        (~up[p] /\ p \in armed) ~> (up[p] \/ since[p] \/ rnode = "segv")

\* A report leads to the primary's data being sent to the recovery node, if the
\* backup has files of it, is connected and alive, and no other report is on its
\* way.
ReportRestores ==
    \A p \in Persisted :
        (crash = <<p>> /\ backupLink /\ bnode = "up" /\ crashed = <<>>)
            ~> (p \in restored \/ Cardinality({q \in Primaries : reports[q] > 0}) > 1)

\* "If no heartbeat of the primary has been received for 2s, send a message to
\* the coordinator": every stop of a primary that has a slot is reported.
EveryCrashReported ==
    \A p \in Primaries :
        (~up[p] /\ Slot(p) # {}) ~> (up[p] \/ since[p] \/ rnode = "segv")

=============================================================================
