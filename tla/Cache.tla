------------------------------- MODULE Cache -------------------------------
(***************************************************************************)
(* The fleet-coherent cache (cache/src).  Every process keeps, per logical *)
(* store, a bounded table of what it knows of each key: where its value is *)
(* in the arena, or that it is missing, and the revision that said so.  A  *)
(* mutation takes its revision from a counter the fleet shares, is         *)
(* published on the lane of its process, and is then installed by its own  *)
(* process; the others apply it when they poll.                            *)
(***************************************************************************)
EXTENDS Integers, FiniteSets, SequencesExt

CONSTANTS Threads,     \* who calls
          ProcOf(_),   \* the process of a thread, with one connection
          Stores, Keys,
          LaneFrames,  \* frames a lane of the mutation ring keeps
          Setup        \* who, early, stores, keys, kinds, ttls, the capacity of a
                       \* table, fails, observes; and the bounds muts, polls,
                       \* recovers, evicts, ticks

VARIABLES setup, used, now,
          version,     \* the last revision taken
          lane,        \* process -> every frame it has published
          arena,       \* addresses of the values that are still there
          cursor,      \* process -> lane -> frames taken; its mutex
          local,       \* process -> store -> the table, when it is open
          sound,       \* process -> store -> opened with no revision on its way and
                       \* outside of polls, or recovered since
          job,         \* thread -> the call it is in
          seen         \* what an observer has collected

vars == <<setup, used, now, version, lane, arena, cursor, local, sound, job, seen>>

Procs == {ProcOf(t) : t \in Threads}
NoTtl == 0
Absent == [kind |-> "absent", rev |-> 0, addr |-> 0, exp |-> NoTtl]
NewLocal == [slots |-> [k \in Keys |-> Absent], order |-> <<>>, floor |-> 0,
             coherent |-> TRUE, open |-> TRUE]
Shut == [NewLocal EXCEPT !.open = FALSE]
NoMut == [kind |-> "none", store |-> "", key |-> "", rev |-> 0, addr |-> 0, exp |-> NoTtl]
Idle == [pc |-> "idle", mut |-> NoMut, batch |-> <<>>, lost |-> FALSE,
         lanes |-> {}, fresh |-> FALSE]
NoScan == [pc |-> "off", version |-> 0, heads |-> [p \in Procs |-> 0], lanes |-> {},
           muts |-> {}, lost |-> FALSE]

Heads == [p \in Procs |-> Len(lane[p])]

\* The frame of a mutation: no expiry, no address and no key are written as
\* zeros; a frame whose zeros do not fit its kind is malformed.
Encoded(m) ==
    [kind |-> m.kind, ver |-> m.rev, store |-> m.store, key |-> m.key,
     exp |-> IF m.kind = "put" THEN m.exp ELSE 0,
     generation |-> IF m.kind = "put" THEN m.addr ELSE 0]
WellFormed(f) ==
    /\ f.store # ""
    /\ f.kind = "put" => f.key # "" /\ f.generation > 0
    /\ f.kind = "delete" => f.key # "" /\ f.exp = 0 /\ f.generation = 0
    /\ f.kind = "reset" => f.key = "" /\ f.exp = 0 /\ f.generation = 0
Decoded(f) == [kind |-> f.kind, store |-> f.store, key |-> f.key, rev |-> f.ver,
               addr |-> f.generation, exp |-> IF f.exp = 0 THEN NoTtl ELSE f.exp]
Mutations(frames) == {Decoded(f) : f \in {x \in Range(frames) : WellFormed(x)}}
Published == UNION {Mutations(lane[p]) : p \in Procs}
\* Revisions that are taken and not yet on a lane, and never may be.
OnItsWay == {job[t].mut.rev : t \in {u \in Threads : job[u].pc = "publish"}}

Init ==
    /\ setup \in Setup
    /\ used = [muts |-> 0, polls |-> 0, recovers |-> 0, evicts |-> 0]
    /\ now = 0 /\ version = 0
    /\ lane = [p \in Procs |-> <<>>]
    /\ arena = {}
    /\ cursor = [p \in Procs |-> [at |-> [q \in Procs |-> 0], holder |-> "nobody"]]
    /\ local = [p \in Procs |-> [s \in Stores |->
                   IF p \in setup.early THEN NewLocal ELSE Shut]]
    /\ sound = [p \in Procs |-> [s \in Stores |-> p \in setup.early]]
    /\ job = [t \in Threads |-> Idle]
    /\ seen = NoScan

P(t) == ProcOf(t)
At(t, pc) == job[t].pc = pc
Step(t, j) == job' = [job EXCEPT ![t] = j]
Use(what) == used[what] < setup[what] /\ used' = [used EXCEPT ![what] = @ + 1]
Table(t) == local[P(t)][job[t].mut.store]
SetTable(t, l) == local' = [local EXCEPT ![P(t)][job[t].mut.store] = l]

-----------------------------------------------------------------------------
(* The table of one store.                                                 *)

\* A revision at or below the floor says nothing any more.
Accepts(l, rev) == rev > l.floor

\* Every slot the new floor covers is forgotten.
AdvanceFloor(l, rev) ==
    LET floor == IF rev > l.floor THEN rev ELSE l.floor
        stale == {k \in Keys : l.slots[k].kind # "absent" /\ l.slots[k].rev <= floor} IN
    [l EXCEPT !.floor = floor,
              !.slots = [k \in Keys |-> IF k \in stale THEN Absent ELSE l.slots[k]],
              !.order = SelectSeq(l.order, LAMBDA k : k \notin stale)]

\* A key becomes the most recently used one.
Touched(l, k) == [l EXCEPT !.order = Append(SelectSeq(l.order, LAMBDA x : x # k), k)]

PutSlotNoFloor(l, k, slot) ==
    LET kept == Touched([l EXCEPT !.slots[k] = slot], k)
        old == Head(kept.order) IN
    IF l.slots[k].kind # "absent" /\ l.slots[k].rev >= slot.rev THEN l
    ELSE IF Len(kept.order) <= setup.capacity THEN kept
    ELSE [kept EXCEPT !.slots[old] = Absent, !.order = Tail(kept.order)]

\* The newer revision stays; what the table evicts for it raises the floor.
PutSlot(l, k, slot) ==
    LET kept == Touched([l EXCEPT !.slots[k] = slot], k)
        old == Head(kept.order) IN
    IF l.slots[k].kind # "absent" /\ l.slots[k].rev >= slot.rev THEN l
    ELSE IF Len(kept.order) <= setup.capacity THEN kept
    ELSE AdvanceFloor([kept EXCEPT !.slots[old] = Absent, !.order = Tail(kept.order)],
                      kept.slots[old].rev)

Present(m) == [kind |-> "present", rev |-> m.rev, addr |-> m.addr, exp |-> m.exp]
Missing(rev) == [kind |-> "missing", rev |-> rev, addr |-> 0, exp |-> NoTtl]

\* What a mutation does to a table; there says whether its value still is.
Applied(l, m, there) ==
    IF ~Accepts(l, m.rev) THEN l
    ELSE CASE m.kind = "put" -> PutSlot(l, m.key, IF there THEN Present(m) ELSE Missing(m.rev))
           [] m.kind = "delete" -> PutSlot(l, m.key, Missing(m.rev))
           [] m.kind = "reset" -> AdvanceFloor(l, m.rev)

\* Loss: what the table knew becomes its floor, and it answers nothing.
RequireResync(l) ==
    LET newest == {l.slots[k].rev : k \in Keys} IN
    [AdvanceFloor(l, CHOOSE r \in newest : \A x \in newest : x <= r) EXCEPT
        !.slots = [k \in Keys |-> Absent], !.order = <<>>, !.coherent = FALSE]

Recovered(l, floor) ==
    [l EXCEPT !.slots = [k \in Keys |-> Absent], !.order = <<>>, !.coherent = TRUE,
              !.floor = IF floor > @ THEN floor ELSE @]

\* read_at: a value that expired or left the arena becomes a tombstone.
Hit(l, k) ==
    /\ l.open /\ l.coherent /\ l.slots[k].kind = "present"
    /\ l.slots[k].exp = NoTtl \/ l.slots[k].exp > now
    /\ l.slots[k].addr \in arena

Read(t, s, k) ==
    LET l == local[P(t)][s] IN
    /\ At(t, "idle") /\ l.open /\ l.coherent /\ l.slots[k].kind # "absent"
    /\ local' = [local EXCEPT ![P(t)][s] =
           IF Hit(l, k) \/ l.slots[k].kind = "missing" THEN Touched(l, k)
           ELSE Touched([l EXCEPT !.slots[k] = Missing(l.slots[k].rev)], k)]
    /\ local' # local
    /\ UNCHANGED <<setup, used, now, version, lane, arena, cursor, sound, job, seen>>

-----------------------------------------------------------------------------
(* Mutations: the value, the revision, the frame, the own table.           *)

Call(t, s, m) ==
    /\ At(t, "idle") /\ local[P(t)][s].open /\ Use("muts")
    /\ Step(t, [Idle EXCEPT !.pc = "version", !.mut = [m EXCEPT !.store = s]])

\* The value is in the arena before any mutation names it.
Put(t, s, k, ttl) ==
    /\ Call(t, s, [NoMut EXCEPT !.kind = "put", !.key = k, !.addr = used.muts + 1,
                       !.exp = IF ttl = NoTtl THEN NoTtl ELSE now + ttl])
    /\ arena' = arena \cup {used.muts + 1}
    /\ UNCHANGED <<setup, now, version, lane, cursor, local, sound, seen>>

Delete(t, s, k) ==
    /\ Call(t, s, [NoMut EXCEPT !.kind = "delete", !.key = k])
    /\ UNCHANGED <<setup, now, version, lane, arena, cursor, local, sound, seen>>

Reset(t, s) ==
    /\ Call(t, s, [NoMut EXCEPT !.kind = "reset"])
    /\ UNCHANGED <<setup, now, version, lane, arena, cursor, local, sound, seen>>

\* next_ring_version: one atomic addition for the whole fleet.
TakeVersion(t) ==
    /\ At(t, "version")
    /\ version' = version + 1
    /\ Step(t, [job[t] EXCEPT !.pc = "publish", !.mut.rev = version + 1])
    /\ UNCHANGED <<setup, used, now, lane, arena, cursor, local, sound, seen>>

Publish(t) ==
    /\ At(t, "publish")
    /\ lane' = [lane EXCEPT ![P(t)] = Append(@, Encoded(job[t].mut))]
    /\ Step(t, [job[t] EXCEPT !.pc = "install"])
    /\ UNCHANGED <<setup, used, now, version, arena, cursor, local, sound, seen>>

\* The frame is written or not, the call fails, and a put forgets its value.
PublishFails(t) ==
    /\ At(t, "publish") /\ setup.fails
    /\ \/ UNCHANGED lane
       \/ lane' = [lane EXCEPT ![P(t)] = Append(@, Encoded(job[t].mut))]
    /\ arena' = arena \ {job[t].mut.addr}
    /\ Step(t, Idle)
    /\ UNCHANGED <<setup, used, now, version, cursor, local, sound, seen>>

\* install_local, install_missing, reset_local.
Install(t) ==
    /\ At(t, "install")
    /\ SetTable(t, Applied(Table(t), job[t].mut, TRUE))
    /\ Step(t, Idle)
    /\ UNCHANGED <<setup, used, now, version, lane, arena, cursor, sound, seen>>

-----------------------------------------------------------------------------
(* Polling: lane by lane under the cursor's mutex, then outside of it.     *)

Free(t) == cursor[P(t)].holder = "nobody"

Poll(t) ==
    /\ At(t, "idle") /\ Free(t) /\ Use("polls")
    /\ cursor' = [cursor EXCEPT ![P(t)].holder = t]
    /\ Step(t, [Idle EXCEPT !.pc = "drain", !.lanes = Procs])
    /\ UNCHANGED <<setup, now, version, lane, arena, local, sound, seen>>

Skipped(at, n) == n - at > LaneFrames
ByRevision(muts) == SetToSortSeq(muts, LAMBDA a, b : a.rev < b.rev)

\* One lane to its head; a frame that was overwritten or is malformed counts
\* as lost.
DrainLane(t, q) ==
    LET at == cursor[P(t)].at[q]
        n == Len(lane[q])
        frames == SubSeq(lane[q], (IF Skipped(at, n) THEN n - LaneFrames ELSE at) + 1, n) IN
    /\ At(t, "drain") /\ q \in job[t].lanes
    /\ cursor' = [cursor EXCEPT ![P(t)].at[q] = n,
                                ![P(t)].holder = IF job[t].lanes = {q} THEN "nobody" ELSE t]
    /\ Step(t, [job[t] EXCEPT !.lanes = @ \ {q},
                    !.lost = @ \/ Skipped(at, n) \/ \E f \in Range(frames) : ~WellFormed(f),
                    !.batch = ByRevision(Range(@) \cup Mutations(frames)),
                    !.pc = IF job[t].lanes = {q} THEN "lost" ELSE "drain"])
    /\ UNCHANGED <<setup, used, now, version, lane, arena, local, sound, seen>>

PollLostNot(t) ==
    /\ At(t, "lost")
    /\ Step(t, [job[t] EXCEPT !.pc = "apply", !.lost = FALSE])
    /\ UNCHANGED <<setup, used, now, version, lane, arena, cursor, local, sound, seen>>

\* Nobody can say which store the lost frame was for: every one is unsafe.
PollLost(t) ==
    /\ At(t, "lost")
    /\ Step(t, [job[t] EXCEPT !.pc = "apply", !.lost = FALSE])
    /\ IF job[t].lost
       THEN local' = [local EXCEPT ![P(t)] = [s \in Stores |->
                          IF @[s].open THEN RequireResync(@[s]) ELSE @[s]]]
       ELSE UNCHANGED local
    /\ UNCHANGED <<setup, used, now, version, lane, arena, cursor, sound, seen>>

\* apply looks for the value before it takes the table's lock. A mutation of
\* a store that is not open here is ignored.
ApplyLook(t) ==
    /\ At(t, "apply")
    /\ IF job[t].batch = <<>> THEN Step(t, Idle)
       ELSE LET m == Head(job[t].batch) IN
            Step(t, IF ~local[P(t)][m.store].open THEN [job[t] EXCEPT !.batch = Tail(@)]
                    ELSE [job[t] EXCEPT !.pc = "applying", !.mut = m, !.batch = Tail(@),
                                        !.fresh = m.addr \in arena])
    /\ UNCHANGED <<setup, used, now, version, lane, arena, cursor, local, sound, seen>>

Apply(t) ==
    /\ At(t, "applying")
    /\ SetTable(t, Applied(Table(t), job[t].mut, job[t].fresh))
    /\ Step(t, [job[t] EXCEPT !.pc = "apply", !.mut = NoMut, !.fresh = FALSE])
    /\ UNCHANGED <<setup, used, now, version, lane, arena, cursor, sound, seen>>

\* recover_from_backing, with the cursor's mutex held to its end: past every
\* frame first, and then the last revision taken as the floor.
RecoverCursor(t) ==
    /\ At(t, "idle") /\ Free(t) /\ Use("recovers")
    /\ cursor' = [cursor EXCEPT ![P(t)] = [at |-> Heads, holder |-> t]]
    /\ Step(t, [Idle EXCEPT !.pc = "floor"])
    /\ UNCHANGED <<setup, now, version, lane, arena, local, sound, seen>>

RecoverFloor(t) ==
    /\ At(t, "floor")
    /\ local' = [local EXCEPT ![P(t)] = [s \in Stores |->
                     IF @[s].open THEN Recovered(@[s], version) ELSE @[s]]]
    /\ sound' = [sound EXCEPT ![P(t)] = [s \in Stores |-> @[s] \/ local[P(t)][s].open]]
    /\ cursor' = [cursor EXCEPT ![P(t)].holder = "nobody"]
    /\ Step(t, Idle)
    /\ UNCHANGED <<setup, used, now, version, lane, arena, seen>>

\* A process connects with its cursor at the heads; a store is opened empty.
Connect(t) ==
    /\ At(t, "idle") /\ \A s \in Stores : ~local[P(t)][s].open
    /\ cursor[P(t)].at # Heads /\ Free(t)
    /\ \A u \in Threads : P(u) = P(t) => At(u, "idle")
    /\ cursor' = [cursor EXCEPT ![P(t)].at = Heads]
    /\ UNCHANGED <<setup, used, now, version, lane, arena, local, sound, job, seen>>

OpenStore(t, s) ==
    /\ At(t, "idle") /\ ~local[P(t)][s].open
    /\ local' = [local EXCEPT ![P(t)][s] = NewLocal]
    /\ sound' = [sound EXCEPT ![P(t)][s] =
           /\ OnItsWay = {} /\ cursor[P(t)].at \in {Heads, [q \in Procs |-> 0]}
           /\ \A u \in Threads :
                 P(u) = P(t) => job[u].pc \notin {"drain", "lost", "apply", "applying"}]
    /\ UNCHANGED <<setup, used, now, version, lane, arena, cursor, job, seen>>

-----------------------------------------------------------------------------
(* Around it: the arena makes room, the clock moves, an observer looks.    *)

Evict(a) ==
    /\ a \in arena /\ Use("evicts")
    /\ arena' = arena \ {a}
    /\ UNCHANGED <<setup, now, version, lane, cursor, local, sound, job, seen>>

Tick ==
    /\ now < setup.ticks
    /\ now' = now + 1
    /\ UNCHANGED <<setup, used, version, lane, arena, cursor, local, sound, job, seen>>

\* CacheObserver::snapshot: the counter and the heads, then lane by lane, then
\* both again.
ObserveHeads ==
    /\ setup.observes /\ seen.pc = "off"
    /\ seen' = [NoScan EXCEPT !.pc = "scan", !.version = version, !.heads = Heads,
                              !.lanes = Procs]
    /\ UNCHANGED <<setup, used, now, version, lane, arena, cursor, local, sound, job>>

ObserveLane(q) ==
    LET n == Len(lane[q])
        from == IF Skipped(0, n) THEN n - LaneFrames ELSE 0 IN
    /\ seen.pc = "scan" /\ q \in seen.lanes
    /\ seen' = [seen EXCEPT !.lanes = @ \ {q}, !.lost = @ \/ Skipped(0, n),
                    !.muts = @ \cup Mutations(SubSeq(lane[q], from + 1, n))]
    /\ UNCHANGED <<setup, used, now, version, lane, arena, cursor, local, sound, job>>

ChangedInVersion == version # seen.version
ChangedDuringScan == version # seen.version \/ Heads # seen.heads

ObserveAgain ==
    /\ seen.pc = "scan" /\ seen.lanes = {}
    /\ seen' = [seen EXCEPT !.pc = IF seen.lost \/ ChangedDuringScan THEN "doubt" ELSE "sure"]
    /\ UNCHANGED <<setup, used, now, version, lane, arena, cursor, local, sound, job>>

Next ==
    \/ \E t \in setup.who :
        \/ \E s \in setup.stores :
            \/ OpenStore(t, s) \/ ("reset" \in setup.kinds /\ Reset(t, s))
            \/ \E k \in setup.keys :
                \/ \E ttl \in setup.ttls : Put(t, s, k, ttl)
                \/ "delete" \in setup.kinds /\ Delete(t, s, k)
                \/ Read(t, s, k)
        \/ TakeVersion(t) \/ Publish(t) \/ PublishFails(t) \/ Install(t)
        \/ Poll(t) \/ (\E q \in Procs : DrainLane(t, q)) \/ PollLost(t)
        \/ ApplyLook(t) \/ Apply(t) \/ RecoverCursor(t) \/ RecoverFloor(t) \/ Connect(t)
    \/ \E a \in arena : Evict(a)
    \/ Tick \/ ObserveHeads \/ (\E q \in Procs : ObserveLane(q)) \/ ObserveAgain

Spec == Init /\ [][Next]_vars

-----------------------------------------------------------------------------
\* The revision that decides a key of a store: the newest one published for
\* the key or for the whole store.
About(m, s, k) == m.store = s /\ (m.kind = "reset" \/ m.key = k)
Newest(muts, s, k) ==
    LET revs == {m.rev : m \in {x \in muts : About(x, s, k)}} IN
    IF revs = {} THEN 0 ELSE CHOOSE r \in revs : \A x \in revs : x <= r

\* A process with nothing left to take from the lanes and no poll under way.
CaughtUp(p) ==
    /\ cursor[p].at = Heads
    /\ \A t \in Threads : ProcOf(t) = p =>
           job[t].pc \notin {"drain", "lost", "apply", "applying", "floor"}

\* A store that answers a hit answers the last write: once a process has
\* applied what is published, a value of its table is the one of the newest
\* revision of the fleet, across lanes, losses, evictions and recoveries
\* (cache/README.md, "fleet-wide last-write-wins ordering"). A store opened
\* while a revision was on its way to its lane, or with its process in a poll or
\* behind the lanes, is excepted until the process next recovers.
LastWriteWins ==
    \A p \in Procs, s \in Stores, k \in Keys :
        CaughtUp(p) /\ sound[p][s] /\ Hit(local[p][s], k) =>
            local[p][s].slots[k].rev >= Newest(Published, s, k)

\* The same of every store, whenever it was opened.
LastWriteWinsAlways ==
    \A p \in Procs, s \in Stores, k \in Keys :
        CaughtUp(p) /\ Hit(local[p][s], k) =>
            local[p][s].slots[k].rev >= Newest(Published, s, k)

\* What a table knows of a key: the revision of its slot, or the floor.
Known(l, k) == IF l.slots[k].rev > l.floor THEN l.slots[k].rev ELSE l.floor

\* What a table knows of a key is never replaced by something older, not by
\* a frame that comes late, not after the slot was evicted or the table was
\* cleared (local.rs, "still prevents a delayed older Put from resurrecting
\* it").
KnowsNoLess ==
    \A p \in Procs, s \in Stores, k \in Keys :
        local[p][s].open => Known(local'[p][s], k) >= Known(local[p][s], k)
NoResurrection == [][KnowsNoLess]_vars

\* A snapshot that reports no loss and no change is of all that was published
\* when it was taken: the entries it keeps are the last writes.
SureOfAll == seen.pc = "scan" /\ seen'.pc = "sure" => seen.muts = Published
SnapshotHonest == [][SureOfAll]_vars
=============================================================================
