# Verification of orbitive

Orbitive is a set of Rust crates that give sibling processes of one machine (a
*fleet* of *nodes*) shared state without a server: everything lives in POSIX
shared-memory segments, is changed by atomics and file locks, and must survive
the death of any process at any instruction. This directory holds TLA+ models
of its components, the TLC runs that check them on small instances and the TLAPS
proofs of their main invariants.

`PROJECT.json` maps every definition to the lines it models and lists runs,
mutants, hazards, findings and theorems.

## 1. The system

| Part | State | Operations | What is hard | What makes it correct |
|---|---|---|---|---|
| ring lane (`core/src/ring/shm.rs`) | head, slots with a sequence word, write locks | `write`, `write_batch`, `read`, `read_head`, state reads, `reset` | lock-free readers against writers that lap them; three topologies; a writer that dies half-way | frames are whole; batches appear at once; nothing is given up that is still there |
| ring cursor (`core/src/ring/cursor.rs`, `fleet/cursor.rs`) | next counter per lane | `poll_ring`, `poll_lanes`, `cursor_at_head` | the head is loaded once and stale for the rest of the walk | in order, at most once, every gap reported |
| ring readiness (`core/src/ring/readiness.rs`, `readiness.rs`, `sync.rs`) | generation and waiter words in the header, driver thread, private descriptor | `notify`, driver loop, `drain`, `drop` | futex, condition variable, eventfd and reactor in one chain, each of which coalesces | no lost wake; drop ends |
| in-memory ring (`core/src/ring/mod.rs`) | an atomic head, a write mutex, an `RwLock` per slot | same interface | process-local | as the lane |
| shared regions (`core/src/shm.rs`, `shm/group.rs`) | segments, lock files, lane holds | open, validate, lock, unlink, group membership | creation races; files removed under a path; kernel locks freed by death | one initialised segment; one holder of a lock or a lane |
| fleet, ids (`core/src/fleet`, `epoch.rs`) | node, rings by type, id counter | publish family, registration | — | ids are unique |
| lock (`lock/src`) | open-addressed table of leases, two counters, event ring, fences | acquire, renew, release (by id, by owner, by force), `current`, `poll`, `Fence::admit` | clocks read before the lock; publish before store; deletion under probing | one holder; no live lease evicted; stale holders fenced off |
| cell (`cell/src`) | slots with generation, value, version, parking sequence, waiter count; a row of pins per process | allocate, open, release, writes, `add_until`, waits, wakes | values are changed without a lock after a check of the generation | no write crosses generations; no lost wake; units handed out once |
| text cell (`cell/src/text*`) | two banks and a selector over the cell lifetime | store, load, wait, writer recovery | seqlock banks and dead writers | a reader gets one whole text |
| counter (`counter/src`) | keyed i64 atomics, installed once | add, load | — | sums add up |
| quota (`quota/src`) | sharded table of GCRA states, two banks per slot, pins | admit, evict, recover | freeze, publish and death between any two stores | no admission beyond the rate; identity never mixed |
| pool (`pool/src`) | keys, resources, reserved and active counts, interest bits | register, reserve, accept, finish, drain, node_dead | claims in three places updated one by one | claims conserved; capacity never exceeded |
| link (`link/src`) | inbox turns, claims, doorbells, turn logs | reserve, commit, receive, reclaim | helping, dead producers and dead readers | each message once, in order; no stuck turn |
| stream (`stream/src`) | slots with two sides and directions, exchange arena | create, open, read, write, drop, credits | generation-free compare-exchange on drop; arena credit | bytes in order; a slot belongs to one stream |
| cache (`cache/src`) | per process and store a table of revisions, a shared revision counter, a lane of mutations per process | put, delete, reset, get, poll, recover, observe | revisions taken before they are published; frames overwritten before they are polled; tables opened late | the last write wins; nothing older comes back; losses are known |
| arena (`arena/src`) | index of slots over a ring of bytes, a row of pins per process | put, get, forget, reset, reclaim | readers pin without a lock while a writer evicts | held bytes stay; the dead take no room |
| rustls session store (`rustls/src/session`) | sets of slots, claims, registrations | put, get, take, reset | an operation may die at any byte | a ticket is used once; no byte outlives its session |
| client-pool (`client-pool/src`) | one mutex of counters, idle clients, a `Notify` | acquire, recycle, return, run, pause, drain | cancellation at every await | counts add up; nobody is forgotten |
| events, invoke, metrics | consumers and producers of rings | publish, receive | — | as the ring and readiness |
| cli (`cli/src`) | none | discover, clear, inspection | removes by name what others have open | never removes what a member uses |
| auth | tokens | — | cryptography and parsing | not modelled |

**Interaction.** Locks, events, invocations, caches and links all publish through the
ring (`Fleet::publish_notified`), so its frames and its readiness carry
everything else. The lock table calls into the ring inside its own kernel lock. The cache keeps its
values in the arena; a pool session sends its lease over an exchange, and an exchange is a
stream for control and a payload arena for the bytes.
Cells, texts, quotas and streams share one lifetime scheme: a row of pins per
process, held by a kernel lock (`try_hold_lane`) that dies with the process.
All waiting goes through `core/src/sync.rs` (`wait_word`, `wake_word`).

## 2. Modules

| Module | Models |
|---|---|
| `ShmRing` | a lane, its writers in one of three topologies, its readers, deaths |
| `RingLog` | abstract: an append-only log whose readers are handed frames in order or told what is gone; refined by `ShmRing` |
| `RingReadiness` | publishers, shared word, driver, descriptor, reactor, consumer, drop |
| `LockTable` | the lease table, the events of a key, the fenced resource, time, deaths |
| `CellTable` | slots, pins, rows, writes, divided work, waits and wakes, deaths |
| `PoolTable` | one key of the pool: resources, units, leases, executions, creation budget, admissions, sleepers, deaths |
| `LinkInbox` | one lane of a link's inbox: writers, helpers, readers, recovery, both ways to wait, deaths |
| `StreamTable` | the life of one stream slot: sides, exchanges, drops, death reports, takeover, reset |
| `StreamRing` | one direction of a stream: bytes, flags, waits, doorbells, drivers |
| `Exchange` | chunks over one lane of the payload arena: reserve, send, borrow, credit, reclaim |
| `Quota` | one shard of a quota: admission, installation, eviction, repair; the store in memory |
| `ClientPool` | the process-local pool of clients |
| `Arena` | the byte store: pins, eviction, allocation, reclaim |
| `SessionStore` | the table of TLS sessions: registrations, claims, entries byte by byte |
| `Cache` | revisions, mutation lanes, local tables, polls, recovery, the observer |
| `Region` | fleet membership, segments, lock files by path, the removing tool |
| `MCStores` | extends `Region`; the instances of it and of `Exchange`, `Arena`, `SessionStore` and `Cache`, in one run |
| `MCGates` | extends `MCClientPool`; the instances of it and of `Quota` and `StreamTable`, in one run |
| other `MC...` | the instances of the module they extend |
| `...Proofs` (eight) | the proofs about the module they extend, section 4 |

`MCStores` and `MCGates` each put several components into one run. Those components
do not call one another in what is modelled, so a behaviour is of one of them:
`part` says which, and the others rest. The component that has proofs, `Region` or
`ClientPool`, is extended and keeps its variables, so that the run and the theorem are
about the same definitions; the variables `s1`, `s2`, ... stand for those of
the rest (the substitution of each `INSTANCE`). The instances of a
component, its `Setup`, `Bounds` or `Instances`, are sets of records listed in the
same module; one of them is picked in the initial state, each for a kind of
race.

### ShmRing

`head` is `ShmLaneHeader.write_pos`; `slot[i]` is a sequence word, 0 or odd or
even as in `write_slot`, and a frame in two parts stored and loaded one by one
in any order, which is what Relaxed content accesses between two fences allow.
`write` is `write_batch` of size 1. A writer of an ordered lane goes
`LockLane` or `LockLocal`, `LockRegion` (which may fail), then `MarkWriting`,
`StorePart`, `Commit` for each counter and `Publish`; a writer of a Shared lane
`Claim`s its counters first. A reader walks (`PollStart`, `Probe...`, `ReadPre`,
`LoadPart`, then `WalkReady` or `ReadTorn`) or reads one slot (`DirectStart`).
`Crash` ends all threads of a process at once, frees its kernel lock and gives
its replacement a new incarnation, so that what it writes is told apart. `log`
is history: the body each published counter stands for. `over` and `lost` are
the two kinds of loss `poll_ring` counts.

`Lapping` says whether a Shared claim may overtake an unfinished one by a whole
ring. The code does nothing to prevent it, so this is an assumption on the
deployment: the ring is large enough that no writer is overtaken by a lap between
its claim and its commit. `RingShared` checks what holds under that
assumption, `RingSharedLapped` what happens without it.

### RingReadiness

Both forms in one module, chosen by `form`: the one that always wakes and the
one whose driver counts itself while parked. A futex is a guard on the value of
the word at the step that parks (`EnterWait`) and a step that moves the sleeper
(`WakeWord`). The descriptor, the edge the kernel owes the reactor and the
readiness the reactor has recorded are three Booleans, because the order in
which a consumer clears and drains them is where wakes get lost.

### LockTable

One step per place where a client can be seen by, or be overtaken by, another
one: `Call` reads the clock, a table step finds the slot and mints ids under the
lock, `Publish` or `PublishFails`, then the store (through a tombstone, in two
steps) or the release. `Home` stands for the hash, so that the instance can make
keys collide. Only the last event of each key is kept. `tenures`, `served` and
`revoked` are history for the properties.

### CellTable

Structural operations hold `lock`; writes are a check (`Checks`), one atomic
update, `CountChange`, `LookForWaiters`, `BumpSequence` and `WakeOn`, each a step
of its own. The value of a flag is the generation of the handle that wrote it,
which is all the main property needs; the value of a tally is a number, and
`granted` counts what `add_until` handed out. A waiter goes through every step
of `wait_changed_until` and `wait_if`. `Claim` and `Crash` give processes their rows and take them.
Installation is two steps, because `open` looks at the state and the fields are stored before it.

### PoolTable

The pool has no lock across processes, so every action is one atomic access of
the shared memory; reads that nothing else depends on are merged with the access
they precede. A thread carries its operation in `pc` and what it works on in
`job`. `Mixes` is a set of sets of operations and options, one of which is
picked at the start (`uses`): checking every operation against every other at once is out
of reach, while the races that matter are between a few. `moved` stands for the
version counter, of which the code only asks whether it has changed. The order
in which `LocalFirst` prefers resources is left open: a scan may choose any that
is usable. Leases are data and may be brought to the owner any number of times;
`Reconcile` brings the number of executions its caller has counted, `Age` goes over the
entries one by one and `Settle` writes the number, which an accept or the end of an
execution may have overtaken by then (`stale`, finding 14). With `"remote"` in a mix, a bound,
a node that owns a resource leaves acquiring to the others.
A node dies with all its threads (`Crash`), its death is dealt with once
(`NodeDead` to `SwapAdmissions`) and then it may `Restart` under a new life.
`ran`, `crashes`, `torn`, `ended`, `overlapped` and `stale` are history: `overlapped` says that a
slot was reused while a thread that had checked its generation was still at
work on it, the situation of finding 5.

### LinkInbox

Every action is one atomic access of the shared memory, with the ones before it that
nobody can tell apart. A slot carries the turn it is for (`seq`), a claim that
names a record of a producer, and a body. `Write` goes through `LoadRead`,
`LoadReserve`, `LoadClaim`, `TakeRecord`, `IntentStore`, `ClaimSlot`,
`CheckTurn`, `Admit`, `StorePayload` and `Commit`; a writer that finds the slot
claimed helps its owner (`Help...`), which may be anyone at any stage. The
reader takes the lane (`Join...`), resets what the last one left (`Reset...`),
reads (`ReadHead` to `CopyOut`, `Consume...`) and waits, either parked on the
lane's word (`form = "park"`) or behind its socket (`"socket"`, `Arm`,
`Recheck`, `Disarm`, `Drain`). `Rec...` is the recovery of a dead
producer's records, by a joining reader or by the registration's next holder.
A lane is addressed by what its owner published, so a `Write` comes after the first
owner has made the lane ready (`initialized`).
`sent`, `fate`, `delivered`, `malformed` and `count` are history. The statements
about sleep leave out a record that no recovery has come past yet
(`Unrecovered`), a wake that took the receiver's interest and died before it rang
(`InterestTaken`, finding 7) and an announcer of the directory that died.

### StreamTable, StreamRing

`StreamTable` is the life of one slot at the grain of one access: `Create`,
`Offer`, the steps of `open`, the look and the store of each flag, the two halves of a drop and the
emptying of the slot, the rearm for another exchange, a death and its report (`NodeDead`, `End...`: the
look at a side, the compare and swap to DEAD, each flag, the claims one by one, the emptying),
the takeover of a node (`Supersede`) and `ResetAll`. `exchange` numbers the uses of a
slot and `reported` are the deaths that were reported. None of those stores carries a
generation, so one that stops before it may land on the next stream in the slot.
`gaps` records exactly that, and what kind of store it was (`Stores`): "claim", "giveBack" and "stamp"
of an open, "flag", "release" and "empty" of a drop, "end" and "mark" of a report; and "orphan", a death
between a claim and its stamps or between a release and the emptying, which no
later step of the code makes good. A property excepts only the kinds that can break it:
`OneHolder` "giveBack"; `SlotOutlivesHolders` the ones that take something from a holder (`Taking`);
`CleanExchange` the ones that leave a mark (`Marking`) and "giveBack"; `DeathReachesPeer` `Taking` and
"orphan". `StreamReuse` shows what is excepted (findings 8, 12, 13). `bound.calls` are the flags that may be set in an
instance, `bound.mortal` who may die and `bound.until` the late stores beyond which a behaviour is not followed: "giveBack",
after which no property says anything, and with three processes and a death all of `Taking`. `handle.safe` tells a side B that was opened
while side A was held from one opened after it was gone.

`StreamRing` is one direction of such a slot: `tail`, `head`, flags, the change
word with its waiters, and for each side a thread that parks on that word or a task behind the doorbell of
its process, which a driver thread, the process's reactor or the process itself
answers. Bytes are numbered by their position, and what the buffer holds before anything is written is none of them (`NoByte`). The code compares the change word and
the doorbell generations only with what it read before, so the model keeps whether they are
still the `same`. A death is reported by the actor `d`. `mode` picks who waits
how, what the writer waits for at its end, whether the reader stops early and who may die.

### Exchange

One lane of two slots of two bytes. A producer plans its chunks, reserves an
extent slot by slot, stamps and fills it, and sends the descriptor; the control stream is the queue that
`StreamRing` delivers, one frame long. A receiver looks, takes, holds and releases;
a producer without room counts itself a waiter and sleeps as a thread or as a task behind a driver. `p1` and `p2`
are two incarnations of the lane's node, `r1` and `r2` receivers of one process, `m`
reports deaths. The bytes of an extent are the generation of the publication that
wrote them. `gaps` are "read" (a chunk was reclaimed and reused between the
reader's look and its take), "reserve" (the same under the stamps of a
reservation), "unread" (a receiver left with chunks unread, which stay with the producer's
incarnation) and "orphan" (a death inside a take, a release or a reservation, whose
slots no report reclaims).

### Quota

One shard, a step per atomic access: probe, pin, validate, charge (a compare and
swap of the theoretical arrival time), freeze, recheck of the pins, copy of the key into the unused bank in
parts, publish. A repair is one step, because it stores one word under the
shard's lock. Instances with `memory` are `memory.rs`, with `guard` the other
retention. The arithmetic of `gcra.rs` is kept with its scaling and its two
roundings, on small numbers. `admitted`, `epoch` and `answer` are history.

### ClientPool

One step is one critical section of the state mutex and what follows it up to
the next lock or await. Tokio's `Notify` is external: a future from `notified()`
completes when a `notify_waiters` comes after it was made. Idle clients are
counted; whether one is past its retirement is decided when the code looks.
Cancellation may strike at any await. Only option records that `PoolOptions`
accepts become pools.

### Arena

A writer under the region's lock and readers without one. The generation of a
record stands for its bytes (`ring`), and one length for the identity body and
the encoded one behind it. `Verify` is the second look of `pin_entry`;
allocation scans, evicts, looks again and retries as the code does. `since` is
history: the least generation a lookup that starts now may return; `w.alone`
says that nobody alive has pinned anything while the put ran.

### SessionStore

A server table (`exclusion = "set"`) is used under the claim of a set, which names a
registration; a client table (`"table"`) under one lock. Values are written and
erased byte by byte between two stores of the state (`WriteBegin`, `WriteByte`, `WriteCommit`; `Release` or `EraseWay`,
`EraseByte`, `Forget`), so a death leaves them in part; a push releases the dead slots it meets one after the other. A claim left behind is taken
back by whoever gets the lock of its registration (`TakeBack...`), or by the
next holder of that registration (`Own...`). `taken` is history.

### Cache

A revision is taken (`TakeVersion`), published on the lane of the process and then
installed locally; lanes keep `LaneFrames` frames, a poll drains lane after lane under
the cursor's mutex, notes what was overwritten, sorts and applies. `floor` is what a clear or an
eviction leaves behind. `sound` is history: whether the table was opened while no revision was
on its way to a lane (finding 9) and its process neither polled nor was behind, or has recovered since. The observer reads heads, lanes and heads again.

### Region

The fleet's lock, the segment behind a name, the lock files behind their paths
and the open files behind those: what is removed by name stays usable by whoever has it open. Creation goes through the
steps of `open_or_create_locked` with its failures; sections open the lock file
again each time; a reader is an `ArenaReader`, which joins the fleet and attaches to what exists; the tool discovers, tries the exclusive lock, unlinks and
removes files, and may stop or die anywhere.

## 3. Runs

| Run | Instance | Shows |
|---|---|---|
| `RingOrdered` | PerNode and SharedOrdered, 3 writers in 2 processes, 2 slots, batches of 1 to 3, 3 counters, 1 death | `ReadsAreSound`, no hole below the head, head never back, refinement of `RingLog` |
| `RingShared` | Shared, no lapping, 2 writers in 2 processes, 2 slots, 4 counters, 1 death | `ReadsAreSound` and the refinement, without the guarantees of order |
| `Readiness` | 2 publishers, 2 publishes, 1 death, both forms | `DriverSound`, every announced publish polled, drop ends |
| `Lock` | 2 clients, 3 keys of which two collide, 2 slots, ids to 2, revisions to 3, time to 2, 1 fault | `TableSound`, fencing |
| `Cell` | 2 threads in 2 processes, 1 slot, 2 generations, 2 sequences, 2 writes per cell, 2 deaths | `CellsSound`, waits end |
| `Pool` | 2 nodes with a thread and a slot each, capacity 2, budget 2, 2 registrations, 2 leases, 1 death, 8 mixes | `CountsSound`, `BudgetsHold` |
| `PoolSleep` | 2 threads of the owner and 1 of another node, 1 slot of capacity 1, 2 mixes: acquire, accept, cancel with timeouts or with reconcile | nobody sleeps next to a free unit if the version is taken first; a lease brought to both threads of the owner is accepted once (`AcceptsSound`) |
| `Link` | 2 writers, 2 readers, lanes of 1 or 2 slots, 2 writes, 1 death, 5 instances | `TurnsKept`, no committed message lost, `NobodyStuck` |
| `StreamRing` | rings of 1 or 2 bytes, up to 4 bytes, 1 death, 9 instances | bytes in order and complete; both sides always come to their end |
| `Stores` | `Exchange` 5 flows, `Arena` 2 slots, 3 bytes, 3 records and 1 death, `SessionStore` 7 tables, `Cache` 7 fleets, `Region` 5 setups of 2 members, a reader and the tool | chunks intact and credit back; held records stay and room returns; a session used once, no trace, no set stuck; last write wins, no resurrection, honest snapshots; one segment with exclusive sections |
| `Gates` | `Quota` 6 stores, `ClientPool` 3 sets of options (one is refused) with 2 requests and 1 pause, `StreamTable` 5 instances | rate and exact answers; the counters add up and nobody is forgotten; sides held once, peers told, slots back |
| `SessionTwice` | 2 handles, a set of 2 slots, 3 stores of 2 keys | violation, see 6 |

Some properties are conjunctions of named parts that are broken by the same kind
of slip: `ReadsAreSound` is the type invariant with `FramesAreWhole`,
`IdReadIsWhole` and `LossIsReal`; `DriverSound` has `WaitersExact` and
`NoLostWake`; `TableSound` has `OneHolder`, `NeverEvicted`, `EntriesReachable`
and `EventsFollowTable`; `CellsSound` has `WritesStayInGeneration`,
`ClaimsAddUp`, `WaitersCounted` and `NoLostWake`; `CountsSound` has
`CapacityRespected`, `ReservedAccounted`, `AvailableExact` and `RanNotPending` (a lease that ran cannot
be accepted once more), of which `AcceptsSound` is the first two and the last; `BudgetsHold` is
`NoOvershoot`, `AdmissionBounded` and `WarmFloor`; `TurnsKept` is
`DeliveredOnceInTurn` and `NeverMalformed`; `NobodyStuck` is `NoSleepOverFrame` and
`NoTurnStuck`; `SegmentKept` is `OneSegment` and `SectionsExclude`; `HeldSafely`
is `OneHolder` and `SlotOutlivesHolders` of streams; `PeersTold` is
`CleanExchange` and `DeathReachesPeer`.

**Why the bounds are enough for the cases they are for.** Two slots and three or
four counters let a write lap a reader and a batch wrap the ring; a batch of 3 is longer
than the ring and is refused. Three writers give both kinds of exclusion their contender (the
local mutex and the kernel lock). One death suffices for a
replacement to rewrite unpublished counters. In the lock table two slots and
three keys fill it, make an entry overflow into the home of another key, and let
an expired entry be taken; `CounterMax` of 2 reaches the exhaustion of ids. In
the cell table one slot is reused over two generations and then exhausted, the
sequence reaches its maximum with waiters parked below it, two deaths and
claims exchange the rows of the processes. In the pool a capacity of 2 against two
threads of different nodes tells a unit lost from one counted twice; a budget of
2 with two claimers is reached and exceeded by one slip; `GenLimit` of 2 lets a slot
be reused once and then exhausted. `PoolSleep` needs two sleepers and one
releaser on one unit, since only a wake given to the wrong one of two can be lost; two
of its threads are of the owner, so that they race to accept one lease, and a reconcile races with both. Its budget of 1
sends callers to sleep instead of creating.
`MaxLeases` and `MaxInstalls` only stop new attempts, they never cut an operation short.

A lane of one slot makes every turn of the inbox meet the one before it, which is
where helping and recovery work; the instance with two slots is for turns that
are committed out of order (with three writes instead of two, where a turn meets the one a capacity
earlier, it passes as well, and would double the time of the run). A stream's ring of one byte is full after each
write and empty after each read, so that each side waits for the other in every way there
is; exact writes need a frame of two. Two slots in the exchange lane are one chunk of two
slots or two chunks of one, so that a chunk may have to wait for both. Three bytes in
the arena with records of up to two make the third record land on the first, wrap, and be
skipped where a reader pins. The session table has sets of two ways: one to
evict or reuse, one to keep. Lanes of one frame in the cache lose the first of
any two mutations that are not polled between. A burst of 2 at 2 units in 3
ticks makes a refill that is no whole number of ticks. A slot of the stream table is
used by two streams in four of the five instances, with three processes and a death of which both
others tell the table, with a replacement that takes over the node of a dead creator, with flags and a death, and with a reset;
three processes let one open take the side that a late one gives back.

**Symmetry** is used where processes, threads, keys or requests are model values
that no constant tells apart; `Gates` exchanges a process together with its node, `PoolSleep` the two threads of a node.
The runs with temporal properties under fairness use none.

**Deadlock** is checked in the ring runs and in `StreamRing`, whose `Finished`
is the only rest. It is off for `Readiness`, which ends when the reader is
dropped, for `Lock`, whose clock and revisions are bounded, for `Cell`, where
generations and writes are, for the pool runs, where leases and registrations
are and where all callers may rightly be asleep, and for `Link`, `Stores` and
`Gates`, where calls are bounded and everybody may be idle. What must not stop
there is said by properties of quiet states (`NoTurnStuck`, `CreditReturns`,
`SlotReturns`, `NobodyForgotten`, `NoSetStuck`).

**Fairness.** `Readiness`, `Cell` and `StreamRing` assume that a thread inside a call of the
library goes on: weak fairness on the steps of the driver, the reactor, the
consumer and a publisher inside its call, on the steps of a thread inside a
cell operation, and on the two sides of a stream, their drivers and whoever reports a
death. This is what a preemptive scheduler, a runtime that polls the tasks it was
asked to wake and a supervisor that reports deaths give. In `StreamRing` the two
sides go on calling until their bytes are through, because the question is
whether a wait of theirs ends. Otherwise nothing is assumed to
start a call, to interrupt a park or to keep a process alive. A step that waits
(`Park`, `Join`, the wait for the drain) is only enabled once its condition
holds. The other models have no fairness: their runs check safety.

Every property has a mutant in `PROJECT.json`, a plausible slip in the code
(a dropped check, a swapped order, a missing reset) under which it fails.

## 4. Proofs

Every theorem below is for every value of the constants: any set of processes,
threads, keys or readers, any capacity, any bound. The proof modules extend the
module they are about. Each has one inductive invariant `IInv`, checked by TLC on
the instance of the component's run before it was proved, lemmas of one action or
one kind of step each, and a temporal step at the end.

| Module | Theorem | States | Run |
|---|---|---|---|
| `ShmRingProofs` | `TypeCorrect`, `HeadAdvances` | types; the head never moves back, in all topologies | `RingOrdered` |
| | `OrderedFramesAreWhole`, `OrderedIdReadIsWhole`, `OrderedNoVisibleHole`, `OrderedLossIsReal`, `OrderedReadsAreSound` | what readers of an ordered lane rely on | `RingOrdered` |
| | `OrderedLaneIsLog` | a ring of ordered lanes implements `RingLog` (`IsAppendOnlyLog`) | `RingOrdered` |
| `RingReadinessProofs` | `TypeCorrect`, `WaitersAreExact`, `NoWakeIsLost`, `DriverIsSound` | the driver never sleeps over a publish (`DriverSound`) | `Readiness` |
| `CellTableProofs` | `CellsAreSound` | `CellsSound` | `Cell` |
| `LockTableProofs` | `TableIsSound`, `FenceServesInOrder` | `TableSound`; `TenuresServedInOrder`, an action property | `Lock` |
| `RegionProofs` | `SegmentsAreKept` | `SegmentKept` | `Stores` |
| `ClientPoolProofs` | `PoolCountsAddUp`, `PoolForgetsNobody` | `CountsAddUp`, `NobodyForgotten` | `Gates` |
| `StreamRingProofs` | `BytesCrossInOrder` | `BytesInOrder` | `StreamRing` |
| `LinkInboxProofs` | `InboxInvariant`, `InboxTurnsKept`, `InboxLosesNothing` | `TurnsKept`, `AcceptedNotLost` | `Link` |

None of the properties is inductive as it stands. What each invariant adds, and why:

**ShmRing.** The writer between the load of the head and its store is the only one
and the head has not moved (`LockHeld`); an even sequence word names the counter in
its slot (`SlotShape`); published counters are committed and, unless overwritten,
hold their frame (`LaneInv`); the same for the committed part of a batch under way
(`BatchInv`); what the slot being filled holds (`FillInv`); and what a reader
between its two looks may have copied (`CopyInv`). The last is the delicate one: the
sequence word *can* return to an older value, when the replacement of a dead writer
rewrites unpublished counters, but never to that of a published one.

For the refinement the log is the published frames and a reader of it has come as
far as its walk (`Position`). Publishing is `Append`, the skip at the start of a poll
and an unavailable counter are `Miss`, a whole frame is `Deliver`, a subscription at
the head is `Join`, and everything else, deaths included, is a stuttering step. Two
more facts are needed (`LogInv`): a batch under way has an admitted length, and no
cursor is ahead of the head. The hypothesis is that the ring has no `Shared` lane: a
lapped claim of a `Shared` lane breaks the promise (finding 2), and
for those without lapping TLC checks it.

**RingReadiness.** The count is decremented, so its type depends on its exactness, and
the absence of lost wakes depends on the count being right when a publisher looks: the
three are proved together.

**CellTable.** A handle names the generation its slot has, because the pins of a row
are *exactly* the threads of its process that hold or build a cell there (`PinsInv`, a
cardinality) and a slot is taken only when no row pins it. A tally is what was
handed out. A sleeper that should not sleep has somebody between the change and the
wake; the count of waiters is at least the number of registered threads, and the
parking sequence never wraps (`SinceInv`).

**LockTable.** A slot never becomes empty again, so a probe path stays clear of empty
slots and `find_slot` finds exactly the entries of a key; the scan of `acquire`
therefore meets a live entry, or has freed the expired one before it writes. A
standing lease is in the table or being rewritten by its holder (`HeldInv`), because
the time a caller read is never ahead of the clock. Ids order the tenures of a key
(`KnownInv`, `OrdInv`), which the fence compares (`ServedInv`).

**Region.** The tool holds the fleet's lock alone while it removes (`Alone`); otherwise
the path of a lock file keeps standing for the file the members have open, and who is
inside has *that* file locked (`Kept`); a named segment without a header is in the
hands of its creator alone, who is inside.

**ClientPool.** `IInv` is both properties with what they need of each other: who is in
the queue (`QueueInv`), what a stopped pool may still do (`StopInv`) and who has a signal
on its way (`SignalInv`). Counters are cardinalities of places of tasks; the lemmas are
about one task that moves.

**StreamRing.** The bytes between tail and head are in the ring, and so are those
copied in and not committed; the writer only overwrites what the reader gave back,
because two positions less than a lap apart are in different slots (`SameSlot`, the one
lemma with division). A FIN is only set behind the last byte and the reader reads
the flags *before* the head, so a FIN and an empty ring mean nothing is missing. That all
the steps of the two ways to wait leave this alone (`QuietKeeps`) is most of the proof.

**LinkInbox.** `IInv` has two halves: what the shared memory is (`SharedInv`) and what each
process knows of it where it is (`Knows`, which sees through a wake or a help to the
place it goes on at). Of the shared memory: a claim names a referenced record of a
turn of its slot, and a done claim is of the present turn or of the one being
consumed (`ClaimInv`); a referenced record is stable, of its registration and not behind its
slot (`RecordInv`); the turns of the slots are a window of one capacity from the
read position and an admitted turn is claimed (`LaneInv`); a committed message is in
its slot until its turn is over (`FateInv`); deliveries are in turn (`DeliveredInv`).
A process knows what its locks give it: who holds a registration, that its record is
not named by any claim or that its reserved claim stands; who holds the lane, where the head
is, and, once its epoch has begun, that nothing committed for that epoch was lost (`Kept`).

Some seventy actions are handled in two kinds. A *calm* step changes nothing the invariant
speaks of and only has to justify the next place of its process (`CalmStep`). A *sound*
step changes a record, a slot, a position or a lock; it keeps `SharedInv`, moves turns only
forward (`Forward`) and leaves to others what they hold (`Spares`). `Bystander` is the
rely-guarantee argument: what a process knows survives every sound step of another,
a helper that admits its turn for it included. The one fact with division is that two
positions of one slot are a capacity apart (`Slots`), which is why the slot of a
position is the operator `SlotIn` of a capacity. A writer that died leaves its
reserved claim and record to whoever takes its registration's lock next, and a reader that died
inside a consumption leaves a head whose slot is already of the next turn; both are cases of
the invariant, so a death (`CrashKeeps`) needs nothing but the release of locks.

Assumptions: the named `ASSUME`s of the modules on their constants. `CellTable` has
`ThreadsAssumption` (a finite set of threads, without which a count of waiters means
nothing). `Region` and `ClientPool` have no `ASSUME`; what their
proofs need of the constants is a hypothesis of the theorem: `Apart` (the tool and the
mark of a free lock are not processes) and `Sensible` (finitely many requests, which are
not drainers; options are natural numbers). All hold in the runs. `OrderedLaneIsLog`
assumes that `Topologies` has no `Shared`.

Only model-checked:

* liveness (`EveryPublishSeen`, `DropEnds`, `WaitsEnd`, `EveryoneEnds`), which needs
  fairness and `ENABLED`;
* `Shared` lanes, whose safety rests on no claim being lapped (`Lapping = FALSE`);
* `PoolTable`: its counts are sums over slots and nodes (a fold), and what a fold
  computes needs induction over data;
* `NobodyStuck` of `LinkInbox`: that no reader sleeps over a frame and no turn is stuck is
  about who is still on the way to wake or to recover, a second invariant over the same actions;
* `StreamTable`, `Exchange`, `Quota`, `Arena`, `SessionStore`, `Cache`: no proofs.

## 5. Not modelled

* Everywhere: 64-bit counters, and 32-bit words that are only compared, are unbounded
  in the models or reduced to whether they moved; the parking sequence and the generation of a cell and
  the generations of registrations and pool slots, whose exhaustion the code handles, have
  their maximum. Memory orders weaker than the program relies on: ring content is
  unordered between the fences, everything else is sequentially consistent.
  Resets at a quiescent owner boot (`reset_transport`, `reset_all`, `unlink`),
  handles inherited through `fork`, encodings, statistics.
* Ring: `reset`; the semantic version counter; several lanes at once
  (`poll_lanes` repeats the walk). The ring in memory: an `RwLock` around each frame of one process.
* Readiness: the driver ends when `wait_word` or the write to the descriptor fails
  (`core/src/ring/readiness.rs:60`, `201`); neither call fails in the model.
* Regions: views of a `FleetObserver` (`core/src/fleet/mod.rs:188`), which attach without a membership and
  are protected by nothing but the checks of the header. The stores of a new header, its lanes and its
  slots (`core/src/ring/shm.rs:320`) are one step: members are behind the segment's lock, and only such a
  view could meet them half done. `unlink` by a live member, which takes no fleet lock and is left to
  the owner of the lifecycle; prepared lane locks, watcher slots, groups.
* Lock: the order in which `poll` merges lanes (`lock/src/lib.rs:388`; it sorts one
  batch, so a frame of a lane polled earlier may be older than one already
  delivered), a client with several owner identities or threads. A failure to take the
  table's kernel lock returns before anything is read.
* Cell: text cells; the type mismatch error; `load`. A death between a write and
  its wake (`cell/src/lib.rs:640`) leaves a waiter asleep; the code has no recovery for it
  and the wake properties are stated for runs without a death.
* Counter: a key is installed once under a lock and never removed, every other operation is one atomic update.
* Pool: doorbells, interest bits (`pool/src/table.rs:600`) and `poll_capacity` of
  asynchronous callers, the lookup of keys, sessions, two deaths at once. The stores of `install` are
  one step. Some statements leave out a window in which the code has no
  defence: `NoOvershoot` a death inside the drop of a `CreationPermit` or inside a
  registration before it is counted (`torn`); `AvailableExact` what
  follows a drain or a close (`ended`), after which the count of free units drifts;
  `AcceptsSound` and `CountsSound` reuse under a thread
  at work (`overlapped`). `CapacityRespected` and `AvailableExact` also leave out a reconcile whose
  number was overtaken (`stale`); `WarmFloor` is for deaths outside the same windows as `NoOvershoot`. `NoSleepOverRoom` is for callers without the fleet-wide
  availability count, whose give-back in `reserve` rings nobody, and for an
  attempt loop without a limit.
* Link: event payloads, the watcher of peers, several lanes of one inbox.
* Stream: opening and validating segments; `try_read_exact`; waits with a timeout.
  The two halves, `StreamTable` and `StreamRing`, are not composed: a direction
  is that of one exchange. The stores that land late on the next stream are left out of the
  properties by their kind, as section 2 says. In the exchange, `DeliveredIntact` leaves out a chunk
  that was reclaimed and used again between a reader's look and its take, or under the stamps of a
  reservation (`stream/src/exchange/arena.rs:753`): without `gaps \cap {"read", "reserve"} = {}` in `Exchange` the
  run `Stores` fails.
* Quota: several shards and their hashing, errors of arithmetic overflow, the retirement
  of a slot whose generation is spent, opening a segment.
* Client pool: the composition with the fleet pool (`fleet.rs`), `wait_until_open`.
* Sessions: the store in memory, TLS encodings.
* Cache: the event descriptor, which is that of `RingReadiness`.
* Auth, metrics and the inspection commands of the cli: cryptography, samples
  written to a ring, printing.

## 6. Findings

The listed one:

1. **A session may be stored twice** (`SessionTwice`). `put` breaks at the first
   slot of a set that is empty or expired before it has looked whether a later
   one holds the key (`rustls/src/session/store.rs:144`); put k1, put k2, take k1, put k2 leaves two live
   entries of k2. `store/claim.rs:9` says two stores of one key "cannot both
   install it, which is what keeps a ticket single use".

Met earlier or along the way, and kept as configurations that anybody can rerun
(`tlc -config X.cfg MODULE` ends with the counterexample; where several properties are
named for one configuration, keep one of its `INVARIANTS` at a time):

| Configuration, module | What the code does | Where it is said otherwise |
|---|---|---|
| 2. `RingSharedLapped`, `MCShmRing` | A writer of a Shared lane that stalls between claim and commit while another claims the same slot one lap later mixes its stores with the other's; the slot ends even and stable over parts of both frames, and a walk delivers it. | `core/src/ring/shm.rs:44`: tearing is never silently merged |
| 3. `RingHead`, `MCShmRing` | `read_head` does not compare the counter of what it finds in the slot of `head - 1`, where a batch as long as the ring has already put a frame of its own. | the publication of batches at once |
| 4. `LockEvents`, `MCLockTable` | The transition is published before the slot is written; a failed wake or a death in between leaves the event of an acquisition that never was. | `lock/README.md:19`: successful transitions |
| 5. `PoolReuse`, `MCPoolTable` | `install` starts the fences again at 0, and a `reserve` overtaken between its check of the generation and its placing of the fence puts the number of the old tenant into the new one's pending set: a lease is accepted twice. | `pool/src/lib.rs:916`: one accept per reservation |
| 6. `PoolWait`, `MCPoolTable`, `NoSleepOverRoomOfPlan` | `acquire` finds nothing and then takes the version (`pool/src/lib.rs:991`); a unit that came back in between does not move it again, and the caller sleeps next to it. Taking the version first (`lib.rs:1128`) is enough, `PoolSleep`. | `Plan::Wait` |
| 7. `LinkWake`, `MCLinkInbox` | A writer swaps the receiver's interest away and dies before it rings; recovery finds the frame committed and no interest to ring for. | `link/README.md:87`: recovery "preserves committed frames and repeats their wake" |
| 8. `StreamReuse`, `MCStreamTable`, `HeldSlotStays` | `Handle::drop` empties the slot by a compare-exchange of its state alone; of two sides that drop at once, the slower one empties the next stream in the slot under its holders. | `stream/src/lib.rs:1446`: "The slot empties once no side holds it any more" |
| 9. `CacheLate`, `MCCache` | Revisions are taken before they are published, so a newer one may reach its lane before an older one; a process that connects between the two never sees the newer and keeps the older as its value. | `cache/README.md:47`: "fleet-wide last-write-wins ordering" |
| 10. `ClientClaims`, `MCClientPool`, `PhysicalWithinMaxLive` | `return_entry` gives up its place before it drops the client it does not keep, so one more exists than `max_live`. | `client-pool/README.md:63`: "Maximum number of physical clients" |
| 11. `ClientClaims`, `MCClientPool`, `FloorMaintained` | `run` looks for room and takes its `notified()` future afterwards; a creation that fails in between gives the room back unheard, and `run` sleeps below `min_idle`. | `client-pool/README.md:61`: "Idle floor maintained by run()" |
| 12. `StreamReuse`, `MCStreamTable`, `HeldOnce`, `HeldSideStays` | An open that finds the stream it wanted gone gives its claim back by a compare-exchange of `CLAIMED` alone (`stream/src/lib.rs:658`). By then the side may be another opener's, whose claim it frees: a third process opens the same side. A late claim, stamp or release takes a side of the next stream in the same way. | `stream/src/lib.rs:630`: "Each side can be held once per stream" |
| 13. `StreamReuse`, `MCStreamTable`, `ReportStays`, `NothingLeft` | The report of a death reads whose side it is and then swaps `CLAIMED` to `DEAD` (`stream/src/table.rs:507`) and sets the flags of both directions (521, 522); none of these carries a generation. A reporter that stops in between ends a side of the next stream, or leaves RESET or READER_GONE there; `set_flag` (`stream/src/lib.rs:1253`) does the same. | `stream/README.md:205`: "the generation separates reuses of a slot" |
| 14. `PoolWait`, `MCPoolTable`, `NeverOverAdmits` | `reconcile` writes the number of executions its caller counted before the call over the active count (`pool/src/lib.rs:695`); an `accept` in between is wiped out, and its unit is promised to somebody else while it runs. | `pool/ARCHITECTURE.md:63`: "the table may under-admit until the owner reconciles, never over-admit" |

## 7. What is left

1. Proofs of `StreamTable` (`HeldSafely`) and `Cache` (`NoResurrection`,
   `SnapshotHonest`; the batch of a poll would become a set from which the least
   revision is taken), of `NobodyStuck`, and of the part of `PoolTable` without sums
   (one accept per lease, one admission per permit).
2. `TextCell` over the lifetime of `CellTable`, and `PoolDoorbell`: interest and pending bits of the driver,
   `poll_capacity`, and the waiting list of `client-pool/src/fleet.rs` over it.

Open questions about the pool met while modelling, to be stated as properties:
`accept` of a lease with fence 0 (`register_active` hands out such) matches an
empty pending entry; `cancel_reservation` compares no generation; a late
give-back reaches the next tenant of a slot.
