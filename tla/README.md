# A verification project for RamCube (ebucmar)

RamCube is memcached 1.4.15 with replication built into it.  A *primary* is a
memcached server that sends every value stored by an ASCII storage command to a
*backup* and tells its client `STORED` only when the backup has confirmed.  The
backup collects the commands of each primary in a *segment* and writes full
segments to files.  A *recovery* node watches the heartbeats of the primaries; it
reports a silent one to the *coordinator*, the coordinator tells the backup, and
the backup sends the segments of the lost primary to the recovery node, which
replays them.  All four are the same program with a different configuration.

This directory has TLA+ modules that model the parts where this can go wrong,
TLC configurations that check them on small instances, and TLAPS proofs.
`PROJECT.json` maps every definition to the lines it models.

## 1. Inventory

| Part | State | Operations | What is hard | What makes it correct |
|---|---|---|---|---|
| Segment store (`Segment.c`, `Object.c`) | `Manager`: the list of segments, each with header (address, capacity, count), seglets and the append pointer `p`; the files under `backup/<ip>.<port>/`; the working directory | `appendToSegment`, `persist`, `loadToMem`, `readFile`, `segmentToString` | several primaries share one list; one read may hold several requests, cut by counting line ends, or a part of one; persist in the middle of a batch; `fopen` failures; restarts; file names with a one-second clock | what is stored are whole commands of the right primary in order; counts and capacities exact; what was confirmed is held |
| Replication (`ramcube.c`, `memcached.c`) | conn structures and their free stack, sockets, requests and replies in flight | `complete_nread_ascii`, `ramcube_post_set_data`, `BACKUP_REQUEST`, `BACKUP_REPLY`, `conn_new`, `conn_close` | the confirmation identifies the client by the address of a structure that is reused; later commands run while it is due; `noreply` | `STORED` only after the backup holds the set; a structure serves one client; every command is answered |
| Failure detector (`ramcube.c`) | `PrimaryTable`, one one-shot timer per primary, the proxies | `HEARTBEAT`, `recovery_cb`, `CRASH`, `CRASHED`, `send_to_recovery` | timer and heartbeat in any order; late and merged messages; restarts; a full table; a missing link | no false report, one report per silence, a crash is reported, a report restores |
| Item store (`items.c`, `assoc.c`, `slabs.c`, `thread.c`, `memcached.c`) | items (reference count, flags, CAS id, times), hash chains, LRU list, free list, `oldest_live` | alloc, link, unlink, remove, replace, get, update, store, incr, touch, flush | any number of references held by uploads and replies in progress, in 16 bits; eviction and reclaim while they are; lazy expiry and flush; tail repair | reference counts exact; nothing freed in use, nothing leaked; table and LRU in step; a get never returns what was overwritten, deleted or flushed |
| Connection (`memcached.c`) | one `conn`: state, `rbuf`, `rlbytes`, `sbytes`, `noreply`, `item`, `ilist`, `msglist`, `write_and_go` | `drive_machine`, `try_read_command`, the ASCII and binary commands, `complete_nread`, `transmit`, `conn_close` | requests split anywhere, several in one read, a full socket, a yield, refused values, a structure reused by the next client | a request starts where the last one ended; each is answered once and in order; no reference is kept; nobody is hung up on without cause |
| Handshake (`ramcube.c`) | configured neighbours, proxies by role and direction | `init_ramcube_config`, `init_smaller_proxies`, `TYPE`, `connect_and_return_ConnProxy`, `push_back_proxy` | both sides may connect; who does is decided by comparing addresses; nothing is retried, nothing is removed | a link in each direction |
| Workers, connection queue (`thread.c`, `memcached.c`) | connection queues, notify pipes, `init_count`, `allow_new_conns`, the timer | accept, `dispatch_conn_new`, `thread_libevent_process`, `do_accept_new_conns`, `maxconns_handler`, `conn_close` | running out of descriptors while workers close | every accepted connection is served; accepting resumes |
| Item locks, table expansion (`thread.c`, `assoc.c`) | item locks, the global lock, each worker's lock type, both tables, `hashpower`, `expanding`, `expand_bucket` | `item_lock`, `item_unlock`, `switch_item_lock_type`, `assoc_find/insert/delete/expand`, maintenance thread | switching lock types while workers run; lookups without `cache_lock` | a bucket is moved when nobody uses it; a linked key is found; an expansion ends |
| Slab pages, rebalancer (`slabs.c`, `items.c`) | pages and free list of each class, `slab_rebal`, the signal | `do_slabs_newslab`, `do_item_alloc`, `do_item_get`, `slabs_reassign`, `slab_rebalance_*` | items in use on the page; allocation, lookup and the mover each hold other locks | no chunk is lost or used twice; a page moves empty; the mover finishes |

Interaction: parts of one node call each other in one worker thread when there is a
RamCube configuration (`num_threads` is set to 1 in `ramcube_adjust_memcached_settings`)
and in several without one, besides the main, maintenance and rebalancer threads; nodes interact by TCP
messages only: `BACKUP_REQUEST` and `BACKUP_REPLY` between primary and backup,
`HEARTBEAT` from primary to recovery node, `CRASH` from recovery node to coordinator,
`CRASHED` from coordinator to backup, `RECOVERY_REQUEST` with the commands from
backup to recovery node.  A client's value goes UpdateCommand / CompleteNread
(ItemStore) -> PostSetData (Replication) -> Receive / AppendFirst (SegmentStore)
-> Reply / BackupRequest -> ReplyOpen (Replication); a crash goes Suspect ->
CoordinatorCrash -> BackupCrashed (FailureDetector) -> SendToRecovery (SegmentStore).

The hazards, each at its line with the properties that cover it, are listed in
`PROJECT.json`.

## 2. Modules

**SegmentStore** (with `MCSegment`) - the backup.  `segment` is `Manager->segment`
as a sequence, `used` is `Manager->used`, `disk` the files, `cwd` the working directory
relative to the start directory.  The text of requests is abstracted to lines
(`Body`, `LeftCom`); `Commands` is the cutting loop of `appendToSegment`.  A read returns
whole requests (`Receive`) or ends inside one (`ReceivePart`, for the primaries in
`Splitting`), since `try_read_command` waits for the end of the `BACKUP_REQUEST` line only
and drops the buffer when the handler returns (`memcached.c:3534-3545`): what has arrived
of the body is cut into commands all the same, the rest is read as commands of its own.
The last line then is no address: if it has a colon the batch is filed under what it reads
as (`Garbled`), and confirmed; if not, `getIp` and `strrchr` run into an invalid access
(`ReceivePartNull`).  `odd` and `cut` record the primaries this and strange values have
happened to.  One
`appendToSegment` call is a sequence of actions (`Receive`, `AppendFirst`,
`AppendLater` ..., `Reply`) so that the process can be killed between two commands of
a batch; each command is one action with the persist loop (`Sweep`) that follows it
in the code.  NULL dereferences are explicit: `AppendLaterNull` and
`SendToRecoveryNull` end the process.  `CountSeglet` counts on the head of the list as
the code does, whichever segment was appended to.  Taken for granted: no value, key or cut
address spells the address of another primary or a command of the protocol, and the lines
of a body that is read later are no command of the backup's (it answers `ERROR`, which the
primary ignores).

**Replication** - clients, a primary, a backup, and the two channels between them.
`conn` holds state, descriptor and `noreply` of each conn structure, `freeconns` is the
stack of `conn_from_freelist` / `conn_add_to_freelist`, `sock` the kernel's descriptor
table.  A request carries the address `ptr` of the structure, as the code sends it;
session and number in it are bookkeeping for the properties.  The backup is reduced to
what becomes of a read: all sets stored and the first confirmed (`BackupRequest`), the last
one stored or not when the read ends inside it (`BackupRequestPart`; `cut` has those that
reached the backup and were not stored), or the end of the backup (`dead`).  An action is
one pass of the worker over one event.  `ReplyClosed` has the three outcomes of `out_string` +
`drive_machine` on a structure that was closed.

**FailureDetector** (with `MCDetector`) - time is counted in seconds; in each second every
live primary sends one heartbeat and every armed timer fires once, in any order
(`Second` ends it).  Only primaries in `Slow` may have heartbeats cross the end of a
second.  `table` is the used part of `PrimaryTable`, `armed` the pending timers.  CRASH and
CRASHED messages are read whole (of a partial one `strtok` would return NULL).

**ItemStore** (with `MCItems`) - the heap of a server as one record, so that a C function is
an operator from heap to heap; commands are actions that compose those operators in
the order of the code.  `ref` has what connections hold: the handle `<<c, 0>>` is `c->item`
during an upload, `<<c, i>>` the i-th entry of `c->ilist` during a reply.  Commands are
atomic, as in the single worker thread; uploads, replies and the flush loop are not.  A get
takes its hits one after the other and a reply releases them one after the other; `turn`
keeps the worker at it.  `refcount` has `RefMod` values.  Since a get may name one key any
number of times, `do_item_get` may wrap it around: a command is a step of its action as
long as it does not (`Countable`), `WrapAround` is the step in which it does, and after it,
as after tail repair, the heap is `damaged` and the model ends.  A lifetime or a delay of
`flush_all` is in seconds from now, or from `REALTIME_MAXDELTA` on a time of the day, which
may be before the start (`Realtime`).  The key the caller has locked and
the failing trylock of another key with the same lock are in `Stops`.  A history
variable `truth` records what the last command about each key left, `told` the CAS ids
sent to clients.

**ItemHeapProofs** - lemmas about the operators on heaps; **ItemStoreProofs** - about the
commands.  The theorems and inductive invariants of the other modules are in
**SegmentStoreProofs**, **ReplicationProofs**, **FailureDetectorProofs**, **ConnProofs**,
**WorkerThreadsProofs** and **SlabMoverProofs** (section 4).

**Conn** (with `MCConn`) - one conn structure and the clients it serves in turn.  The wire
is a sequence of units (two of a command line or header, one of extras and key, those
of the value), each labelled with its request, so that a read that starts at the wrong
place is seen.  A C function that works on a conn is an operator from conn to conn, or
to the set of conns it may leave when the item store's answer is open; `drive_machine`
has one action per state.  A set may have a bad line (`BadLine`: too few or too many words,
a long key, no number, a negative length), be refused, or be read.  Two things are
assumed of what clients send: the value of an ASCII set is as long as its line says, and
the lengths of a binary header do not contradict each other, except as `binvalid`.
**RequestReply** is what it promises: requests are taken in
order, each is answered at most once and before the next is taken, and the connection
may end.  `ImplementsRequestReply` is the refinement (`INSTANCE RequestReply WITH ...`).

**WorkerThreads** (with `MCWorkers`) - the threads of a node and their locks.  A command of
a worker is four steps (`Begin` takes the item lock, `Look` is `assoc_find`, `Change` links
or unlinks under `cache_lock`, `Finish` unlocks); the maintenance thread is a program
counter `maint` with one action per lock operation, and `assoc_expand` has one per
assignment, since `assoc_find` reads without its lock.  When its `calloc` fails there is a
moment in which the table pointer is NULL: a lookup then would end the process, and is no
step of the model.

**SlabMover** (with `MCSlab`) - classes, pages and chunks, workers in the middle of
`do_item_alloc`, `do_item_get`, link, unlink and remove, and the rebalancer, each cut
where it takes or drops a lock.  Item locks, reference counts, the LRU list, free lists
and the page on the move are shared.  An update of an LRU list under `cache_lock` is one
step; `do_item_get` has no `cache_lock` when it unlinks an item of the page on the move, and
where another thread may be in the middle of a search or of `item_link_q` or
`item_unlink_q` on that list (`Relinks`, `MoverRelinks`) it may do so too.  `raced` records
which of the known races has happened; what a list contains after two updates have
overlapped (`"lists"`) depends on single stores, and the model ends there.  A set for
which no chunk is found goes on to delete the old item of its key (`Refused`).  The memory
it begins with is any that set and delete commands leave behind (`InitialMemoryAssumption`).

**Handshake** (with `MCShake`) - nodes, their configuration files (`Config`: one record per
line), connections (`link`) and the arrays of proxies that refer to them.  `ReadType` is
`process_command_TYPE` for BACKUP, PING and COORDINATOR.  Dialling may fail at once when
nobody listens at the peer (`Refused`); that a descriptor or memory is missing is left out.

The properties' comments say which code behaviour each one is about.

## 3. Runs

| Run | Checks | Shows | Bounds |
|---|---|---|---|
| `seg_core` | `TypeOK SegmentsAccounted RunsIntact SingleWriterDurable` | with two primaries, reads that end anywhere, kills, restarts and one `fopen` failure, segments and files are whole commands in order with exact counts, without a gap unless a read was cut | 2 primaries, the requests of one arriving in parts, plain bodies, 3 commands each in batches of up to 2, capacity 4 with lines of 1 or 2 so that a segment overflows after one or two commands, also inside a batch; 1 second of clock so that a file name can and need not repeat |
| `seg_two_primaries` | violation of `AckedHeldWhileUp` | a confirmed command is dropped from a backup that runs when a second primary appears (finding 1) | no faults, whole requests, capacity never reached |
| `repl_core` | `TypeOK StoredAfterBackupUnlessOrphanedOrCut ConnsDistinct Answered` | the confirmation protocol is right as long as no connection closes with a confirmation due | 2 clients with 2 commands, the first may pipeline and leave; 2 requests in one read, which may end anywhere in the last |
| `repl_stale` | violation of `StoredAfterBackup` | a stale confirmation reaches another client (finding 2) | as above |
| `detect_core` | `TypeOK ReportedOncePerSilence NoFalseReport SilenceBounded FirstCrashReported ReportRestores` | the first crash is found in time and leads to recovery; nobody is reported falsely, or twice for one silence | 2 primaries on different hosts and ports, one slow with 1 late heartbeat and 1 restart; while a timer is armed no counter reaches `-Floor`, and `AgeCap` is above the limit of `SilenceBounded` (2 + 1 + 1) |
| `detect_second_crash` | violation of `EveryCrashReported` | a second crash is never reported (finding 3) | as `detect_core` |
| `item_refs` | `TypeOK RefsExactUnlessDamaged LinkedOnce CasMeansValue`, `SentItemStable` | no item is freed in use or leaked, ids and sent values are stable, in every interleaving of two connections | 2 keys, 2 connections, 3 chunks (fewer than the items two keys, an upload and an append can want), CAS ids up to 3, two hits in a get and counts up to 4, so that the gets of both connections for one key wrap one; set, append and cas: the one branch of add or replace that these do not have, an add that only touches the item, is left to the proofs |
| `item_time` | `NeverStaleUnlessUndone` | a get returns what the last command left, or nothing, under expiry, flushes now, later and at a time of the day, eviction from 2 chunks, a shared item lock, and tail repair after one second | 2 keys, 2 connections, one hit in a get, clock 2..4, the storage command set only (incr takes the allocating path that append takes), since time multiplies the states; 5 seconds are the longest delay and the day began 10 seconds before the start: of the delays 0, 2, 6 and 13 the third is before the start and the last 3 seconds after it |
| `conn_core` | `TypeOK AlignedUnlessUnswallowed RefsReleasedUnlessLongKey ClosedForCause RequestsAnswered ImplementsRequestReply` | requests are read to the byte and answered in order in every split, yield and reuse of the structure | 2 clients with 2 requests each and a third one sent ahead, 26 requests of both protocols, with bodies of touch and stat, one request per event, a socket that takes one unit: every answer of more than one unit blocks, every second buffered request meets the yield |
| `workers_core` | `TypeOK MoverExclusive LinkedFindable SameKeyExcludedUnlessSwitching RebalancerPausedUnlessResumedEarly ExpansionEnds AcceptsAgain` | expansion against workers and rebalancer, accepting against closing | 2 workers, 2 connections and 1 descriptor, 1 key in the last bucket of a table of two that grows to four or cannot, 2 commands: set before, delete after any step of the expansion |
| `slab_core` | `TypeOK ChunksAccountedUnlessUnlinkRaced PageClearUnlessUnlinkRaced LockHeldUnlessStaleUnlock RebalanceEnds` | the mover against allocation and lookup, up to an overlap of two updates of one list | 2 workers, 2 commands, 2 keys stored at the start, a class of two pages of two chunks and an empty one, 2 tries of a search, 1 rebalance |
| `shake_core` | `TypeOK LinkedWhenSmallerFirst` | who connects when nodes start in any order | 3 nodes, 2 types of links, 2 slots per array, 4 starts: one node may start three times, which overflows an array of its peer |

Symmetry of keys and connections is used in the item runs, which have no liveness
property.  Deadlock is not checked because all counters are bounded: a run stops when
its clients have sent all they may.

**Conditions in properties.**  `StoredAfterBackupUnlessOrphanedOrCut` and `ConnsDistinct`
have the exception that finding 2 makes necessary, the former also that of a read that
ends inside a request, `NeverStaleUnlessUndone` that of a flush replaced by one not in
force, and `heap.damaged` those of tail repair and of a count that wraps around
(section 5): the runs show that nothing else breaks them.  In the same way the other
properties named *Unless* except what section 5 says of their module: values that are
not skipped (`AlignedUnlessUnswallowed`; a value taken for a command ends the
model, `lost`), the multiget with an illegal key, a switch of lock types under way,
the resume of what was not paused, and in SlabMover the unlink by `do_item_get` in the
middle of another worker's search or of another update of the list, and the stale
`hold_lock`.  `LinkedFindable` does not speak of the steps inside `assoc_expand`, `RebalanceEnds` of a chunk that was
lost (`Leaked`), `LinkedWhenSmallerFirst` of peers of which the greater was up first.
`SingleWriterDurable` excludes a second writer (finding 1), values that are not text of one
line, a request that arrives in parts, a failed `fopen`, a restart, and a reused file name,
each of which loses commands in the code as written; `RunsIntact` says of a primary whose
values are odd nothing but that it does not disturb the others, and of one whose requests
arrive in parts that what is kept are whole commands in order, not that none is missing.
`Answered` excepts commands with `noreply` (whose flag survives the set, because
`ramcube_post_set_data` answers nobody), reads of several requests, of which the
backup answers only the first, and a backup that a cut request has killed.

**Fairness.**  What libevent, TCP and the scheduler of threads provide: a ready event is served (`Worker`, the
reply handlers, `Event` and `DriveMachine` in Conn, `BackupRequest`,
`ReceiveHeartBeat`, `CoordinatorCrash`, `BackupCrashed`), a pending timer fires (`SendHeartBeat`, `RecoveryCb`, `Second`).  No
client has to send, leave or connect, nobody has to crash or restart, no link has to
be made.  In Conn a client that has begun to send a request sends all of it and reads
what it is sent, without which a server that waits for the rest would be at fault.
Threads run (weak fairness of the main, maintenance and rebalancer threads); a
thread that waits for a mutex gets it if it is free again and again (strong fairness of
`Pause` in WorkerThreads and of each worker in SlabMover): POSIX does not promise it,
but without it nothing that uses a contended mutex is live.  In Handshake a connection is
set up or refused, and what has been sent is read or lost.

## 4. Proofs

What is proved holds for every value of the constants: all numbers of nodes, clients,
connections, keys, threads, commands, table and segment sizes, and without the bounds
of the runs.

| Module | Theorem | Property (`Spec => []` of it) |
|---|---|---|
| `SegmentStoreProofs` | `TypeCorrect`, `SegmentsAccountedAlways` | `TypeOK`, `SegmentsAccounted` |
| | `RunsIntactAlways`, `SingleWriterDurableAlways` | `RunsIntact`, `SingleWriterDurable`, for all layouts of bodies and all cuts of reads |
| `ReplicationProofs` | `TypeCorrect`, `StoredAfterBackupAlways`, `ConnsDistinctAlways` | `TypeOK`, `StoredAfterBackupUnlessOrphanedOrCut`, `ConnsDistinct` |
| `FailureDetectorProofs` | `TypeCorrect`, `ReportedOncePerSilenceAlways`, `NoFalseReportAlways`, `SilenceBoundedAlways` | `TypeOK`, `ReportedOncePerSilence`, `NoFalseReport`, `SilenceBounded` |
| `ItemStoreProofs` | `TypeCorrect`, `RefsExactAlways`, `LinkedOnceAlways`, `CasMeansValueAlways`, `NeverStaleAlways` | `TypeOK`, `RefsExactUnlessDamaged`, `LinkedOnce`, `CasMeansValue`, `NeverStaleUnlessUndone` |
| | `SentItemStableAlways` | `SentItemStable` (of every step) |
| `ConnProofs` | `TypeCorrect`, `RefsReleasedAlways` | `TypeOK`, `RefsReleasedUnlessLongKey` |
| | `ClosedForCauseAlways` | `ClosedForCause` (of every step) |
| | `AlignedAlways` | `AlignedUnlessUnswallowed` |
| `SlabMoverProofs` | `TypeCorrect`, `LockHeldAlways` | `TypeOK`, `LockHeldUnlessStaleUnlock` |
| | `ChunksAccountedAlways`, `PageClearAlways` | `ChunksAccountedUnlessUnlinkRaced`, `PageClearUnlessUnlinkRaced` |
| `WorkerThreadsProofs` | `TypeCorrect`, `MoverExclusiveAlways`, `LinkedFindableAlways`, `SameKeyExcludedAlways`, `RebalancerPausedAlways` | `TypeOK`, `MoverExclusive`, `LinkedFindable`, `SameKeyExcludedUnlessSwitching`, `RebalancerPausedUnlessResumedEarly` |

*Assumptions.*  Each module's assumption on its constants (`SegmentAssumption`, ...,
which state types, non-empty or positive sizes, and that model values for "nobody" are
not somebody: `NobodyAssumption` in WorkerThreads), in Replication that the conn
structures are finitely many and enough for the clients, in ItemStore that a count has
more than the three values one command needs, in Conn which commands a value can come
with (`ValuedKinds`: the others check the length of their body and are `binvalid` with one),
and in SlabMover
`InitialMemoryAssumption`: the model begins with the first pages, each in one class,
each key stored once, and free lists of chunks of their class that hold no item.  TLC
evaluates all of them in the runs.  No theorem has a hypothesis of its own.

*SegmentStore.*  `CountInv` (at most one segment, its header counts its seglets and its
capacity is what they leave, no full segment survives a sweep) gives the accounting for
all shapes.  The running total is a function defined by recursion; that adding a
seglet adds its length follows from the function being unique on an initial part of its
domain (`LeastNumber` stands in for induction).  `RunsIntact` needs `OrderInv`: for every
primary whose own values are plain, the commands a call under its address has left are the
last ones it sent (`RunTo`), the segment has commands of it up to the last one handled
(`RiseTo`), and ends with that one unless a read was cut.  Calls and segments are filed
under the sender's address or, when a body was odd or cut, under one that is no primary's
(`SentBy`), which is why one primary cannot disturb another.  `SingleWriterDurable` needs `DurableInv`: under its hypotheses a
command is held from the moment it is handled, and `FilesInv`: as many files as were
written means that none was replaced.

*Replication.*  `OwnInv` is the heart: as long as no structure was closed with a
confirmation due, every open socket has its structure, every structure is open or once
on the free stack, and the address in every message between primary and backup leads
to the client whose set it is.  It needs `StructInv` (two open structures have two
sockets) and `AcceptInv` (there are enough structures).  `ConfirmInv` counts: the
`STORED`s a client got and the confirmations on their way to it are at most its commands
that reached the backup (`NReached`), whole or cut; `StreamInv` and `BackupInv` say that a command is in one place,
so that the backup's count goes up by one for each.

*FailureDetector.*  The counter of the table is tied to what it cannot see.  `Credit`: it
is at least the seconds since the last start or heartbeat, less the heartbeats that may
come late; `Punctual`: for a primary that is never late it is at most 1 between seconds,
so the limit is not reached while it runs; `Timed`: a primary that was reported has no
timer left, so it is not reported again, let alone in the same silence (the property would
also allow a code that adds the timer again when a heartbeat comes).

*ItemStore.*  That a count is exact after an unlink depends on the item being in the table
under its own key and once in the LRU list, and those depend on the counts, because a
chunk may be handed out again only when nobody refers to it.  The invariant is

    IInv == /\ TypeOK
            /\ current_time >= 1
            /\ heap.damaged \/ (Sound(heap, Held(ref)) /\ Uploads(heap, ref))

where `Sound(h, held)` says, for a heap and a function that counts the references
held outside it: counts are exact, an item is in the LRU list and heads the only entry
of its key's chain if and only if it is linked, the lists have no repetition, and the free
list has exactly the chunks with count 0.  `Uploads` says that an item being uploaded
is not linked and that no other handle refers to it.  `Sound` is parameterised by the references because a
command takes references while it runs: each operator's lemma (`DoItemGet`,
`DoItemUnlink`, `DoItemRemove`, `DoItemLink`, `DoItemAlloc`, ...) says from which
`held` to which it leads, the lemma of a command composes them, and the proof of a
step has one case per action.  `Countable` is used where a count goes up that others may
have raised.  After tail repair or a wrap the heap is not sound any more and the model
stops, so nothing is claimed.

What items contain rests on `IInv`.  Each operator's lemma also gives `Fair`: an item that
is linked afterwards was linked before with the same key, value and CAS id, or has an id
given since (`Newer`), and what somebody holds keeps its key and value (`Calm`).  With it
`ContentInv` is kept: no linked item has an id not given yet, and told ids stand for their
values (`CasInv`).  That nobody is sending what is being uploaded is in `Uploads`.  The branch of
`do_add_delta` that changes a value in place (`memcached.c:3139`) would break both; the
proof shows that it is never taken, because `do_item_get` has just taken a reference to an
item that the table refers to, and the branch wants `refcount == 1`.

What a get returns rests on `IInv` too.  `FreshInv` says that, until a flush in force is
undone, the LRU list goes from the most recent item to the oldest one (`Ordered`), and
that what is linked has the value the last command left, or is `Gone` (flushed or expired,
which stays so while the clock goes on), or is about to be unlinked by the flush going on.
A flush in force has `oldest_live # 0`: the times of the day before the start switch it off.
The order of the list is part of it because `do_item_flush_expired` stops at the first
item that is older than the flush (`items.c:598`): what it leaves behind must be older still.
The commands keep it for one of two reasons: a C function that only loses items leaves the
others as they were and in the order they were in (`Thinned`: unlinking, eviction, reclaiming,
`do_item_get` of a dead item), and one that links an item puts it in front with the
current time (`do_item_link`, `do_item_update`).  TLC found `FreshInv` to hold on the
instances of both `item_refs` and `item_time` before it was proved.

*Conn.*  Each C function that answers a request has a lemma that says what it leaves
(`Kept`, `Ordinary`); `Taken` and `Completed` say it of whole commands.  `SafeInv` then
has: one protocol on the wire (`ProtocolInv`), what `conn_nread` and `conn_parse_cmd`
find (`ServingInv`), that `write_and_go = conn_closing` is set only under the answer to a
`quit` or a broken header (`HangUpInv`, which gives `ClosedForCause`), and that the
ledger of references is `c->item` and `c->ileft` (`RefInv`).  `StreamInv` is what alignment
rests on: the unread part of the buffer, the socket and what the client has not sent yet
are the rest of one request and then whole ones, and that rest is exactly what the conn
still has to read or swallow (`Owed`).  The stream is described by the distance of any
two units, not of neighbours, so that taking many units at once needs no induction.

*WorkerThreads.*  `RegistrationInv`: `init_count` counts the workers whose pipe has no byte of
`switch_item_lock_type` left; `LockTypeInv`: who has read the byte has the lock type it
asks for; `HolderInv`: a worker inside `item_lock` holds the lock of its type and no
other.  Together they give that the mover, which has the global lock and has waited for
all workers, is alone.  `TableInv` says which buckets are in which table.

*SlabMover.*  The invariant is

    IInv == TypeInv /\ LockHeldUnlessStaleUnlock /\ ("unlink" \notin raced => HeapInv)

`TypeInv` has what a worker has in hand at each place of a command (`Shape`), that
`cache_lock` belongs to the worker that searches or to the mover that is inside
`slab_rebalance_move`, and that the mover's position is in the page.  `HeapInv` ties the
chunks to all who use them, one conjunct of `ChunkInv` for each way to use one: the count is
the number of references (`CountInv`), a linked chunk is on the list of its class
(`LinkedInv`), a free one is of a page of that class, marked, and nobody's (`SlotInv`), what
a worker has is an item or just allocated (`HandleInv`), what it has not linked yet and
what it is about to free is its own (`NewInv`, `FreedInv`), and what is marked 255 is of the
page on the move (`ClearInv`).  None of them holds without the others: that a chunk with
count 1 may be evicted, or taken by the mover, needs that the one reference is the
table's, and that it is not on its way to the free list.  `SearchInv` says that a search
is at a linked item, which the race of `do_item_get` breaks: hence the exception, which
the overlap of two updates of a list shares (`"unlink" \in raced` in both).
`MoverInv` is why the page is clear at the end: while `busy_items` is 0 all that has been
passed is marked 255, and from `done` follows that this is the whole page.  A chunk in
nobody's hands and on no list (`Unused`) stays so, since whatever a step of a worker touches
was in use or is of a new page (`WorkerFrame`).

*Model-checked only.*  Of the invariants, `TypeOK` of Handshake: what `Start` leaves in the
arrays is a fold over the connections it begins, and that a fold keeps an array within
`MAX_NEIGHBORS` takes induction over its length.  Out of the prover's reach are the liveness
properties (`Answered`, `FirstCrashReported`, `ReportRestores`, `RequestsAnswered`,
`ExpansionEnds`, `AcceptsAgain`, `RebalanceEnds`, `LinkedWhenSmallerFirst`), the refinement
of RequestReply (its `pending` selects the first units of a sequence with a recursive
definition, about which nothing can be proved without induction, and its fairness),
and what `LeftCom` computes for every input.

## 5. Findings

1. `getLastSegment` never returns a segment: the first command of another primary
   replaces the list and drops confirmed commands (`seg_two_primaries`).
2. A `BACKUP_REPLY` is matched to a client by the address of a reusable structure
   (`repl_stale`).
3. The timer of a primary is not added again after a report (`detect_second_crash`).

Deviations the models have, without a run that shows them (a property of the module
excepts each):

- *SegmentStore, Replication.*  A `BACKUP_REQUEST` whose body arrives in two reads, because TCP
  or the limit on the growth of the buffer (`memcached.c:3627-3629`) divides it, is handled when its first line is
  there (`memcached.c:3534-3545`).  Cut in the value, it is confirmed though it was not stored;
  cut in the address, it is stored under a wrong one; where what has arrived has no colon
  the backup ends.
- *ItemStore.*  A `flush_all` with a delay moves `oldest_live` into the future, and one at a time
  of the day before the start sets it to 0 (`realtime` gives 1, `memcached.c:166`): both bring
  back what an earlier flush invalidated (`memcached.c:3342`; `doc/protocol.txt:697-708` says
  invalidated items are not returned).  Tail repair frees items that are in use by a slow
  reader, not only leaked ones (`items.c:130`).  One `get` of a key named 65535 times wraps its
  reference count, and the item is freed while it is in use and linked (`thread.c:85`).
- *Conn.*  A storage command with a bad line (too many words, a long key, something that is no
  number, a negative length) is answered without swallowing the value that follows
  (`memcached.c:2900-2936`), and so is one with `noreply` whose item is refused, in spite of
  "swallow the data line" (`memcached.c:2949`): `out_string` goes to `conn_new_cmd`, and the
  value is parsed as a command.  The body length of touch, GAT (`memcached.c:1981`) and stat
  (`memcached.c:1948`) is not checked, and a value they announce stays on the wire.  A binary
  set without a value that is refused swallows as many
  bytes as an earlier request, or an earlier client of the structure, left in `sbytes`
  (`memcached.c:2059`).  A multiget with an over-long key after hits keeps their references
  (`memcached.c:2745`).
- *WorkerThreads.*  Between the exchange of the tables and `expand_bucket = 0` lookups, which
  hold only the global item lock, miss linked keys (`assoc.c:125`), and when `calloc` has
  failed they dereference NULL until the pointer is set back (`assoc.c:128-141`).  The maintenance thread's
  first round resumes a rebalancer it has not paused and unlocks its mutex
  (`assoc.c:247`).  While the lock type is switched, two workers may be inside the item
  lock of one key.  A spurious wake-up expands the table (`assoc.c:251`).  A connection that
  closes between `EMFILE` and `do_accept_new_conns(false)` is forgotten: accepting waits for
  the next close.
- *SlabMover.*  `slab_rebalance_move` releases a busy item's lock before its reference
  (`slabs.c:558`, `569`): if the holder lets go in between, the chunk has no reference, is not
  marked as free, and the rebalance never ends; `slabs_rebalancer_pause` then waits for
  ever.  A stale `hold_lock` in `do_item_alloc` unlocks another worker's item (`items.c:120`;
  only under append, prepend and incr, where an item of the caller's own hash is met
  later in the search).  `do_item_get` unlinks an item of the moving page without
  `cache_lock` (`items.c:522-533`, where it is commented out) while `do_item_alloc` is at it;
  with a third worker the chunk is used twice.  It does so while another thread links or
  unlinks in the same list (`items.c:250-289`), which corrupts `head`, `prev` and `next`.
- *Handshake.*  A smaller node that starts after the greater one is never connected, because
  nothing is retried.  Dead proxies stay in their arrays, so `get_backup_proxy_by_key`
  sends sets to dead connections after a peer has restarted; when an array is full of
  them a new proxy is silently left out.  A TYPE that is read after its sender restarted
  makes two live proxies for one peer.

Met while modelling, without a statement in the repository they contradict: with a full
table a primary is never monitored; two reports in one read are combined to one
wrong address; a report before the coordinator has connected ends the recovery node;
a value that contains a line end, or bytes an earlier item left behind it, shifts the cut of a
body and mixes commands of that primary;
a failed `fopen` loses the segment and leaves the working directory changed; two files
may get one name; recovery sends one file only and nothing that is still in memory;
loading an address without a directory ends the backup; deletes and touches are not
replicated and appends are replicated as sets of the fragment.

Also: a binary `GATKQ` is handled as `GAT`; when the stream ends right after a read that
filled the buffer, what was read is dropped.

## 6. Not modelled

UDP, SASL switched on, failing mallocs of buffers, `maxconns_fast`; parsing and formatting of
numbers and names, option parsing, hashing, `cache.c`; `Log.c` and `Storage.c` have no code.
Of modelled parts: in SlabMover expiry, tail repair, flush and `evict_to_free = 0` (ItemStore
has them for one worker), `slab_automove_decision` (whose unsigned difference wraps when
`stats reset` comes between two of its rounds); a full `PrimaryTable` is modelled but no run
reaches it; several backups, the loss of the link between primary and backup with sets in
flight, and the replay on the recovery node.

## 7. Plan

Done: the nine modules above with their runs, and the theorems of section 4.

Theorems next: the type invariant of Handshake, once its folds can be reasoned about
(with a prover that instantiates the library's induction theorems, or with the arrays
filled one proxy a step); the step simulation of RequestReply, for the same reason.

Left to model: **Recovery**, the composition of primary, backup and recovery node on a
few keys (what a client finds after recovery against what it was told; replay of
`RECOVERY_REQUEST` through the ordinary command path), and the automove decision.
