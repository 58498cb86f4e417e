------------------------------ MODULE ShmRing ------------------------------
(***************************************************************************)
(* One lane of the shared-memory ring of orbit-core (core/src/ring/shm.rs) *)
(* and the readers that walk it (core/src/ring/cursor.rs).                 *)
(*                                                                         *)
(* The lane is a head (write_pos) and Capacity slots.  A slot carries a    *)
(* sequence word that is odd while a writer fills the slot and even once   *)
(* the frame is committed, and the frame itself.  A frame is abstracted to *)
(* two parts that are stored and loaded separately, its id (the counter in *)
(* NetId64) and its body (version, kind and payload); two parts are enough *)
(* to tell a whole frame from one merged out of two writes.  The content   *)
(* accesses are Relaxed and ordered only by the fences around them, so the *)
(* parts are written and read here in any order between the two accesses   *)
(* of the sequence word.                                                   *)
(*                                                                         *)
(* topology is the RingTopology of the lane:                               *)
(*   Shared         claim a counter with fetch_add on head, then fill;     *)
(*   PerNode        writers are threads of the lane's one process, a       *)
(*                  process-local mutex serialises them, head is stored    *)
(*                  after the slots are committed;                         *)
(*   SharedOrdered  as PerNode, with a kernel lock (flock) on the region   *)
(*                  taken inside the local mutex.                          *)
(* A process may die at any step; the kernel drops its lock and its        *)
(* replacement attaches to the memory as it was left.                      *)
(***************************************************************************)
EXTENDS Naturals, FiniteSets

CONSTANTS
    Writers,      \* publishing threads
    Procs,        \* processes
    ProcOf,       \* the process of each writer
    Readers,      \* readers of the lane, each with its own cursor
    Ops,          \* what readers call: "poll", "id" or "head"
    Capacity,     \* slots of the lane
    Topologies,   \* topologies the lane may have been created with
    Owner,        \* the process whose node the lane of a PerNode ring belongs to
    BatchSizes,   \* sizes a caller may pass to write_batch; write is size 1
    Lapping,      \* Shared: may a claim overtake an unfinished one by a lap?
    MaxCounter,   \* bound: counters ever claimed
    MaxCrashes,   \* bound: process deaths
    NoOne         \* holder of a free lock

ASSUME CapacityAssumption == Capacity \in Nat \ {0}
ASSUME BoundAssumption    == MaxCounter \in Nat /\ MaxCrashes \in Nat
ASSUME BatchAssumption    == BatchSizes \subseteq Nat
ASSUME LappingAssumption  == Lapping \in BOOLEAN
ASSUME ProcAssumption     == ProcOf \in [Writers -> Procs]
ASSUME NoOneAssumption    == NoOne \notin Writers
ASSUME OpsAssumption      == Ops \subseteq {"poll", "id", "head"}
ASSUME OwnerAssumption    == Owner \in Procs
ASSUME TopologyAssumption ==
    Topologies \subseteq {"Shared", "PerNode", "SharedOrdered"}

VARIABLES
    topology,  \* ShmRingHeader.topology, fixed when the segment is created
    head,      \* ShmLaneHeader.write_pos
    slot,      \* the slots: sequence word and the two parts of the frame
    local,     \* per process: the writer holding write_locks[lane]
    flock,     \* the writer holding the region's kernel lock
    wpc,       \* where each writer is inside write / write_batch
    start,     \* first counter of the writer's batch
    num,       \* its length
    ctr,       \* the counter being written
    unwritten, \* parts of the current slot not stored yet
    crashes,   \* deaths per process, which tells incarnations apart
    log,       \* history: the body each counter below head belongs to
    rpc,       \* where each reader is
    op,        \* what it calls: poll_ring, read or read_head
    at,        \* the counter the reader is looking for
    lim,       \* the head the walk loaded
    tries,     \* failed content reads of this counter
    pre,       \* seq_pre
    unread,    \* parts not loaded yet
    buf,       \* parts loaded
    cursor,    \* RingCursor.next_counter between polls
    origin,    \* history: where the cursor started
    got,       \* history: frames the walk delivered, with their counters
    over,      \* history: counters reported as overwritten
    lost,      \* history: counters reported as unavailable
    res        \* the frame the last direct read returned, if any

laneVars   == <<head, slot, log>>
lockVars   == <<local, flock, crashes>>
writerVars == <<wpc, start, num, ctr, unwritten>>
readerVars == <<rpc, op, at, lim, tries, pre, unread, buf, cursor, origin,
                got, over, lost, res>>
vars == <<topology, laneVars, lockVars, writerVars, readerVars>>

Parts == {"id", "body"}

\* Slot index of a counter.
SlotOf(c) == c % Capacity

\* Sequence word while counter c is being written, and once it is committed.
Writing(c)   == 2 * c + 1
Committed(c) == 2 * c + 2

\* The body writer w stores for counter c: no two writes share one, also not
\* the writes of a dead process and of its replacement.
Body(w, c) == <<w, c, crashes[ProcOf[w]]>>

NoBody == <<>>
NoBuf == [id |-> 0, body |-> NoBody]
NoFrame == [ok |-> FALSE]
FrameOf(c, b) == [ok |-> TRUE, id |-> c, body |-> b]
EmptySlot == [seq |-> 0, id |-> 0, body |-> NoBody]

Init ==
    /\ topology \in Topologies
    /\ head = 0
    /\ slot = [i \in 0 .. Capacity - 1 |-> EmptySlot]
    /\ log = [c \in {} |-> NoBody]
    /\ local = [p \in Procs |-> NoOne]
    /\ flock = NoOne
    /\ crashes = [p \in Procs |-> 0]
    /\ wpc = [w \in Writers |-> "idle"]
    /\ start = [w \in Writers |-> 0]
    /\ num = [w \in Writers |-> 0]
    /\ ctr = [w \in Writers |-> 0]
    /\ unwritten = [w \in Writers |-> {}]
    /\ rpc = [r \in Readers |-> "idle"]
    /\ op \in [Readers -> Ops]
    /\ at = [r \in Readers |-> 0]
    /\ lim = [r \in Readers |-> 0]
    /\ tries = [r \in Readers |-> 0]
    /\ pre = [r \in Readers |-> 0]
    /\ unread = [r \in Readers |-> {}]
    /\ buf = [r \in Readers |-> NoBuf]
    /\ cursor = [r \in Readers |-> 0]
    /\ origin = [r \in Readers |-> 0]
    /\ got = [r \in Readers |-> {}]
    /\ over = [r \in Readers |-> {}]
    /\ lost = [r \in Readers |-> {}]
    /\ res = [r \in Readers |-> NoFrame]

-----------------------------------------------------------------------------
(***************************************************************************)
(* Writers                                                                 *)
(***************************************************************************)

\* The checks write_batch makes before it touches the lane: an oversized
\* batch is an error and an empty one returns at once.
Admitted(n) == n > 0 /\ n <= Capacity

\* The history of the lane once the counters head .. head + n - 1 are w's.
Extended(w, n) ==
    [c \in 0 .. head + n - 1 |-> IF c < head THEN log[c] ELSE Body(w, c)]

\* The locals of a write go out of scope.
WriterReturns(w) ==
    /\ wpc' = [wpc EXCEPT ![w] = "idle"]
    /\ start' = [start EXCEPT ![w] = 0]
    /\ num' = [num EXCEPT ![w] = 0]
    /\ ctr' = [ctr EXCEPT ![w] = 0]
    /\ UNCHANGED unwritten

InFlight(w) == wpc[w] \in {"mark", "fill"}

\* The deployment assumption that Lapping = FALSE stands for: the ring is so
\* large that no claim comes within a lap of a write that is still under way.
RoomFor(n) ==
    Lapping \/ \A v \in Writers :
                  InFlight(v) => head + n <= ctr[v] + Capacity

\* Shared: head.fetch_add(n) claims the whole batch before anything is
\* written.
Claim(w) ==
    /\ topology = "Shared"
    /\ wpc[w] = "idle"
    /\ \E n \in BatchSizes :
          /\ Admitted(n)
          /\ head + n <= MaxCounter
          /\ RoomFor(n)
          /\ head' = head + n
          /\ log' = Extended(w, n)
          /\ num' = [num EXCEPT ![w] = n]
    /\ start' = [start EXCEPT ![w] = head]
    /\ ctr' = [ctr EXCEPT ![w] = head]
    /\ wpc' = [wpc EXCEPT ![w] = "mark"]
    /\ UNCHANGED <<slot, lockVars, unwritten, readerVars>>

\* Under the lock the counter is the head as it stands; nobody else moves it.
LoadHead(w, n) ==
    /\ head + n <= MaxCounter
    /\ start' = [start EXCEPT ![w] = head]
    /\ ctr' = [ctr EXCEPT ![w] = head]
    /\ wpc' = [wpc EXCEPT ![w] = "mark"]

\* PerNode: take the process-local mutex of the lane, which has one active
\* process, that of its node.
LockLane(w) ==
    /\ topology = "PerNode"
    /\ ProcOf[w] = Owner
    /\ wpc[w] = "idle"
    /\ local[ProcOf[w]] = NoOne
    /\ local' = [local EXCEPT ![ProcOf[w]] = w]
    /\ \E n \in BatchSizes :
          /\ Admitted(n)
          /\ num' = [num EXCEPT ![w] = n]
          /\ LoadHead(w, n)
    /\ UNCHANGED <<laneVars, flock, crashes, unwritten, readerVars>>

\* SharedOrdered: take the process-local mutex, then wait for the region.
LockLocal(w) ==
    /\ topology = "SharedOrdered"
    /\ wpc[w] = "idle"
    /\ local[ProcOf[w]] = NoOne
    /\ local' = [local EXCEPT ![ProcOf[w]] = w]
    /\ \E n \in BatchSizes :
          /\ Admitted(n)
          /\ num' = [num EXCEPT ![w] = n]
    /\ wpc' = [wpc EXCEPT ![w] = "flock"]
    /\ UNCHANGED <<laneVars, flock, crashes, start, ctr, unwritten,
                   readerVars>>

\* SharedOrdered without the kernel lock (a mutation of LockRegion).
LockRegionUnchecked(w) ==
    /\ wpc[w] = "flock"
    /\ flock' = w
    /\ LoadHead(w, num[w])
    /\ UNCHANGED <<laneVars, local, crashes, num, unwritten, readerVars>>

\* SharedOrdered: lock_exclusive on the region.
LockRegion(w) ==
    /\ wpc[w] = "flock"
    /\ flock = NoOne
    /\ flock' = w
    /\ LoadHead(w, num[w])
    /\ UNCHANGED <<laneVars, local, crashes, num, unwritten, readerVars>>

\* lock_exclusive fails; the error is returned and the mutex guard dropped.
LockRegionFails(w) ==
    /\ wpc[w] = "flock"
    /\ local' = [local EXCEPT ![ProcOf[w]] = NoOne]
    /\ WriterReturns(w)
    /\ UNCHANGED <<laneVars, flock, crashes, readerVars>>

\* write_slot: the odd marker, fenced ahead of every content store.
MarkWriting(w) ==
    /\ wpc[w] = "mark"
    /\ slot' = [slot EXCEPT ![SlotOf(ctr[w])].seq = Writing(ctr[w])]
    /\ unwritten' = [unwritten EXCEPT ![w] = Parts]
    /\ wpc' = [wpc EXCEPT ![w] = "fill"]
    /\ UNCHANGED <<head, log, lockVars, start, num, ctr, readerVars>>

\* write_slot: one of the Relaxed content stores.
StorePart(w) ==
    /\ wpc[w] = "fill"
    /\ \E p \in unwritten[w] :
          /\ slot' = [slot EXCEPT ![SlotOf(ctr[w])] =
                        IF p = "id" THEN [@ EXCEPT !.id = ctr[w]]
                        ELSE [@ EXCEPT !.body = Body(w, ctr[w])]]
          /\ unwritten' = [unwritten EXCEPT ![w] = @ \ {p}]
    /\ UNCHANGED <<head, log, lockVars, wpc, start, num, ctr, readerVars>>

\* write_slot: the committed sequence is released, then the next slot of the
\* batch is begun; after the last one an ordered lane still has to publish.
Commit(w) ==
    /\ wpc[w] = "fill"
    /\ unwritten[w] = {}
    /\ slot' = [slot EXCEPT ![SlotOf(ctr[w])].seq = Committed(ctr[w])]
    /\ IF topology = "Shared" /\ ctr[w] + 1 = start[w] + num[w]
       THEN WriterReturns(w)
       ELSE /\ ctr' = [ctr EXCEPT ![w] = @ + 1]
            /\ wpc' = [wpc EXCEPT ![w] =
                          IF ctr[w] + 1 < start[w] + num[w] THEN "mark"
                          ELSE "publish"]
            /\ UNCHANGED <<start, num, unwritten>>
    /\ UNCHANGED <<head, log, lockVars, readerVars>>

\* The head store of an ordered lane, after which the guards are dropped.
Publish(w) ==
    /\ wpc[w] = "publish"
    /\ head' = start[w] + num[w]
    /\ log' = Extended(w, num[w])
    /\ local' = [local EXCEPT ![ProcOf[w]] = NoOne]
    /\ flock' = IF flock = w THEN NoOne ELSE flock
    /\ WriterReturns(w)
    /\ UNCHANGED <<slot, crashes, readerVars>>

\* A process dies.  Its memory stays as it is, the kernel releases its lock
\* and its replacement starts with nothing held and nothing under way.
Crash(p) ==
    /\ Cardinality(UNION {{q} \X (1 .. crashes[q]) : q \in Procs}) < MaxCrashes
    /\ \E w \in Writers : ProcOf[w] = p /\ wpc[w] # "idle"
    /\ crashes' = [crashes EXCEPT ![p] = @ + 1]
    /\ local' = [local EXCEPT ![p] = NoOne]
    /\ flock' = IF flock # NoOne /\ ProcOf[flock] = p THEN NoOne ELSE flock
    /\ wpc' = [w \in Writers |-> IF ProcOf[w] = p THEN "idle" ELSE wpc[w]]
    /\ start' = [w \in Writers |-> IF ProcOf[w] = p THEN 0 ELSE start[w]]
    /\ num' = [w \in Writers |-> IF ProcOf[w] = p THEN 0 ELSE num[w]]
    /\ ctr' = [w \in Writers |-> IF ProcOf[w] = p THEN 0 ELSE ctr[w]]
    /\ unwritten' =
          [w \in Writers |-> IF ProcOf[w] = p THEN {} ELSE unwritten[w]]
    /\ UNCHANGED <<laneVars, readerVars>>

-----------------------------------------------------------------------------
(***************************************************************************)
(* Readers.  A walk (poll_ring) loads the head, skips what has left the    *)
(* window and classifies every remaining counter with read_state_at, which *)
(* probes the sequence word before each of at most three content reads.    *)
(* A direct read (read, read_head) makes the content reads without a probe.*)
(***************************************************************************)

\* Content reads before a reader gives up.
Retries == 3

\* cursor_at_head: a subscriber that only wants what is written from now on.
SubscribeAtHead(r) ==
    /\ op[r] = "poll" /\ rpc[r] = "idle" /\ cursor[r] = 0 /\ head > 0
    /\ cursor' = [cursor EXCEPT ![r] = head]
    /\ origin' = [origin EXCEPT ![r] = head]
    /\ UNCHANGED <<laneVars, lockVars, writerVars, rpc, op, at, lim, tries,
                   pre, unread, buf, got, over, lost, res>>

\* A window that is one slot short (a mutation of Floor).
FloorHigh(h) == IF h > Capacity THEN h - Capacity + 1 ELSE 0

\* The oldest counter of the window below head h.
Floor(h) == IF h > Capacity THEN h - Capacity ELSE 0

\* An overrun walk that resumes at the window and reports nothing (a mutation
\* of Skipped).
SkippedUnreported(from, h) == {}

\* The counters a walk from that cursor skips because they left the window.
Skipped(from, h) == {c \in 0 .. h : from <= c /\ c < Floor(h)}

\* poll_ring with nothing new: the cursor is left at the head.
PollNothing(r) ==
    /\ op[r] = "poll" /\ rpc[r] = "idle" /\ cursor[r] >= head
    /\ cursor' = [cursor EXCEPT ![r] = head]
    /\ UNCHANGED <<laneVars, lockVars, writerVars, rpc, op, at, lim, tries,
                   pre, unread, buf, origin, got, over, lost, res>>

\* poll_ring up to its loop: the walk starts at the cursor or at the floor of
\* the window.
PollStart(r) ==
    /\ op[r] = "poll" /\ rpc[r] = "idle" /\ cursor[r] < head
    /\ rpc' = [rpc EXCEPT ![r] = "probe"]
    /\ lim' = [lim EXCEPT ![r] = head]
    /\ tries' = [tries EXCEPT ![r] = 0]
    /\ at' = [at EXCEPT ![r] = IF cursor[r] < Floor(head) THEN Floor(head)
                               ELSE cursor[r]]
    /\ over' = [over EXCEPT ![r] = @ \cup Skipped(cursor[r], head)]
    /\ UNCHANGED <<laneVars, lockVars, writerVars, op, pre, unread, buf,
                   cursor, origin, got, lost, res>>

\* The locals of read_committed_frame go out of scope.
DropCopy(r) ==
    /\ pre' = [pre EXCEPT ![r] = 0]
    /\ unread' = [unread EXCEPT ![r] = {}]
    /\ buf' = [buf EXCEPT ![r] = NoBuf]

\* The locals of the walk or of the direct read go out of scope.
ReaderReturns(r) ==
    /\ rpc' = [rpc EXCEPT ![r] = "idle"]
    /\ at' = [at EXCEPT ![r] = 0]
    /\ lim' = [lim EXCEPT ![r] = 0]
    /\ tries' = [tries EXCEPT ![r] = 0]

\* The walk is done with counter at[r]: go on with the next one, or return
\* and leave the cursor at the head the walk loaded.
Advance(r) ==
    IF at[r] + 1 < lim[r]
    THEN /\ rpc' = [rpc EXCEPT ![r] = "probe"]
         /\ at' = [at EXCEPT ![r] = @ + 1]
         /\ tries' = [tries EXCEPT ![r] = 0]
         /\ UNCHANGED <<lim, cursor>>
    ELSE /\ ReaderReturns(r)
         /\ cursor' = [cursor EXCEPT ![r] = at[r] + 1]

SeqAt(r) == slot[SlotOf(at[r])].seq

\* A walk that steps over a claimed counter (a mutation of ProbePending).
ProbePendingSkips(r) ==
    /\ rpc[r] = "probe"
    /\ topology = "Shared" /\ SeqAt(r) < Committed(at[r])
    /\ ReaderReturns(r)
    /\ cursor' = [cursor EXCEPT ![r] = at[r] + 1]
    /\ UNCHANGED <<laneVars, lockVars, writerVars, op, pre, unread, buf,
                   origin, got, over, lost, res>>

\* read_state_at answers Pending: the counter is claimed and not committed.
\* The walk stops in front of it.
ProbePending(r) ==
    /\ rpc[r] = "probe"
    /\ topology = "Shared" /\ SeqAt(r) < Committed(at[r])
    /\ ReaderReturns(r)
    /\ cursor' = [cursor EXCEPT ![r] = at[r]]
    /\ UNCHANGED <<laneVars, lockVars, writerVars, op, pre, unread, buf,
                   origin, got, over, lost, res>>

\* It answers Unavailable: the slot has moved on, or the content reads are
\* used up.  (An ordered lane also gives up an older sequence.)
ProbeUnavailable(r) ==
    /\ rpc[r] = "probe"
    /\ \/ SeqAt(r) > Committed(at[r])
       \/ SeqAt(r) < Committed(at[r]) /\ topology # "Shared"
       \/ SeqAt(r) = Committed(at[r]) /\ tries[r] = Retries
    /\ lost' = [lost EXCEPT ![r] = @ \cup {at[r]}]
    /\ Advance(r)
    /\ UNCHANGED <<laneVars, lockVars, writerVars, op, pre, unread, buf,
                   origin, got, over, res>>

\* It goes on to read the content.
ProbeCommitted(r) ==
    /\ rpc[r] = "probe"
    /\ SeqAt(r) = Committed(at[r]) /\ tries[r] < Retries
    /\ rpc' = [rpc EXCEPT ![r] = "pre"]
    /\ UNCHANGED <<laneVars, lockVars, writerVars, op, at, lim, tries, pre,
                   unread, buf, cursor, origin, got, over, lost, res>>

\* read(id) for an id that was published, and read_head.
DirectStart(r) ==
    /\ op[r] # "poll" /\ rpc[r] = "idle" /\ head > 0
    /\ \E c \in 0 .. head - 1 :
          /\ op[r] = "head" => c = head - 1
          /\ at' = [at EXCEPT ![r] = c]
    /\ rpc' = [rpc EXCEPT ![r] = "pre"]
    /\ tries' = [tries EXCEPT ![r] = 0]
    /\ res' = [res EXCEPT ![r] = NoFrame]
    /\ UNCHANGED <<laneVars, lockVars, writerVars, op, lim, pre, unread, buf,
                   cursor, origin, got, over, lost>>

\* A content read failed.  The walk probes again; a direct read is repeated
\* until its attempts are used up and then answers None.
Retry(r) ==
    IF op[r] # "poll" /\ tries[r] + 1 = Retries
    THEN ReaderReturns(r)
    ELSE /\ tries' = [tries EXCEPT ![r] = @ + 1]
         /\ rpc' = [rpc EXCEPT ![r] = IF op[r] = "poll" THEN "probe"
                                      ELSE "pre"]
         /\ UNCHANGED <<at, lim>>

\* read_committed_frame: load seq_pre; a slot never written or being written
\* has no frame.
ReadPre(r) ==
    /\ rpc[r] = "pre"
    /\ IF SeqAt(r) = 0 \/ SeqAt(r) % 2 = 1
       THEN /\ Retry(r)
            /\ UNCHANGED <<pre, unread>>
       ELSE /\ pre' = [pre EXCEPT ![r] = SeqAt(r)]
            /\ unread' = [unread EXCEPT ![r] = Parts]
            /\ rpc' = [rpc EXCEPT ![r] = "load"]
            /\ UNCHANGED <<tries, at, lim>>
    /\ UNCHANGED <<laneVars, lockVars, writerVars, op, buf, cursor,
                   origin, got, over, lost, res>>

\* read_committed_frame: one of the Relaxed content loads.
LoadPart(r) ==
    /\ rpc[r] = "load"
    /\ \E p \in unread[r] :
          /\ buf' = [buf EXCEPT ![r] =
                       IF p = "id" THEN [@ EXCEPT !.id = slot[SlotOf(at[r])].id]
                       ELSE [@ EXCEPT !.body = slot[SlotOf(at[r])].body]]
          /\ unread' = [unread EXCEPT ![r] = @ \ {p}]
    /\ UNCHANGED <<laneVars, lockVars, writerVars, rpc, op, at, lim, tries,
                   pre, cursor, origin, got, over, lost, res>>

\* A content read that trusts what it copied (a mutation of Undisturbed).
UndisturbedAssumed(r) == TRUE

\* seq_post, loaded behind the fence, equals seq_pre.
Undisturbed(r) == SeqAt(r) = pre[r]

\* The sequence word moved under the copy: a torn read.
ReadTorn(r) ==
    /\ rpc[r] = "load" /\ unread[r] = {}
    /\ ~Undisturbed(r)
    /\ Retry(r)
    /\ DropCopy(r)
    /\ UNCHANGED <<laneVars, lockVars, writerVars, op, cursor, origin, got,
                   over, lost, res>>

\* The walk has a frame: it is delivered if it carries the counter asked for
\* and counts as unavailable otherwise.
WalkReady(r) ==
    /\ rpc[r] = "load" /\ unread[r] = {} /\ op[r] = "poll"
    /\ Undisturbed(r)
    /\ IF buf[r].id = at[r]
       THEN /\ got' = [got EXCEPT ![r] =
                         @ \cup {FrameOf(buf[r].id, buf[r].body)}]
            /\ UNCHANGED lost
       ELSE /\ lost' = [lost EXCEPT ![r] = @ \cup {at[r]}]
            /\ UNCHANGED got
    /\ Advance(r)
    /\ DropCopy(r)
    /\ UNCHANGED <<laneVars, lockVars, writerVars, op, origin, over, res>>

\* A direct read has a frame.  read answers None when the slot holds another
\* counter; read_head returns whatever the slot holds.
DirectReady(r) ==
    /\ rpc[r] = "load" /\ unread[r] = {} /\ op[r] # "poll"
    /\ Undisturbed(r)
    /\ res' = [res EXCEPT ![r] =
                  IF op[r] = "head" \/ buf[r].id = at[r]
                  THEN FrameOf(buf[r].id, buf[r].body) ELSE NoFrame]
    /\ ReaderReturns(r)
    /\ DropCopy(r)
    /\ UNCHANGED <<laneVars, lockVars, writerVars, op, cursor, origin, got,
                   over, lost>>

-----------------------------------------------------------------------------
WriterStep(w) ==
    /\ UNCHANGED topology
    /\ \/ Claim(w) \/ LockLane(w) \/ LockLocal(w) \/ LockRegion(w)
       \/ LockRegionFails(w) \/ MarkWriting(w) \/ StorePart(w) \/ Commit(w)
       \/ Publish(w)

ReaderStep(r) ==
    /\ UNCHANGED topology
    /\ \/ SubscribeAtHead(r) \/ PollNothing(r) \/ PollStart(r)
       \/ ProbePending(r) \/ ProbeUnavailable(r) \/ ProbeCommitted(r)
       \/ DirectStart(r) \/ ReadPre(r) \/ LoadPart(r) \/ ReadTorn(r)
       \/ WalkReady(r) \/ DirectReady(r)

Next ==
    \/ \E w \in Writers : WriterStep(w)
    \/ \E p \in Procs : Crash(p) /\ UNCHANGED topology
    \/ \E r \in Readers : ReaderStep(r)

Spec == Init /\ [][Next]_vars

-----------------------------------------------------------------------------
(***************************************************************************)
(* Properties                                                              *)
(***************************************************************************)

Bodies == (Writers \X Nat \X Nat) \cup {NoBody}
Frames == [ok : {TRUE}, id : Nat, body : Bodies]

LaneType ==
    /\ topology \in Topologies
    /\ head \in Nat
    /\ slot \in [0 .. Capacity - 1 -> [seq : Nat, id : Nat, body : Bodies]]
    /\ log \in [0 .. head - 1 -> Bodies]

WriterType ==
    /\ local \in [Procs -> Writers \cup {NoOne}]
    /\ flock \in Writers \cup {NoOne}
    /\ crashes \in [Procs -> Nat]
    /\ wpc \in [Writers -> {"idle", "flock", "mark", "fill", "publish"}]
    /\ start \in [Writers -> Nat]
    /\ num \in [Writers -> Nat]
    /\ ctr \in [Writers -> Nat]
    /\ unwritten \in [Writers -> SUBSET Parts]

WalkType ==
    /\ rpc \in [Readers -> {"idle", "probe", "pre", "load"}]
    /\ op \in [Readers -> Ops]
    /\ at \in [Readers -> Nat]
    /\ lim \in [Readers -> Nat]
    /\ tries \in [Readers -> 0 .. Retries]
    /\ cursor \in [Readers -> Nat]
    /\ origin \in [Readers -> Nat]

CopyType ==
    /\ pre \in [Readers -> Nat]
    /\ unread \in [Readers -> SUBSET Parts]
    /\ buf \in [Readers -> [id : Nat, body : Bodies]]

FoundType ==
    /\ got \in [Readers -> SUBSET Frames]
    /\ over \in [Readers -> SUBSET Nat]
    /\ lost \in [Readers -> SUBSET Nat]
    /\ res \in [Readers -> Frames \cup {NoFrame}]

\* Every variable of the lane, its writers and its readers stays in the range
\* the fields of shm.rs and cursor.rs have, and a published counter always has
\* a frame in the history.
TypeOK == LaneType /\ WriterType /\ WalkType /\ CopyType /\ FoundType

\* "Tearing is detected, never silently merged" (shm.rs, read protocol): a
\* frame the walk delivers is the one frame its writer published under that
\* counter, never a mix of two writes or a frame of a write that died.
FramesAreWhole ==
    \A r \in Readers : \A f \in got[r] : f.id < head /\ f.body = log[f.id]

\* The same for read(id), which checks the counter but not the head.
IdReadIsWhole ==
    \A r \in Readers :
        op[r] = "id" /\ res[r].ok =>
            res[r].id < head /\ res[r].body = log[res[r].id]

\* "Read the most recent frame (head - 1)" (read_head): what it returns has
\* been published.
HeadReadIsPublished ==
    \A r \in Readers : op[r] = "head" /\ res[r].ok => res[r].id < head

\* A dead or slow writer "leaves no visible hole": every counter below the
\* head of an ordered lane was committed before the head passed it, and its
\* slot holds that frame or is in the hands of a later write.
NoVisibleHole ==
    \A c \in 0 .. head - 1 : slot[SlotOf(c)].seq >= Committed(c)

\* How far the walk of a reader has come.
Position(r) == IF op[r] = "poll" /\ rpc[r] # "idle" THEN at[r] ELSE cursor[r]

\* The lane as the append-only log its readers are promised: the log is the
\* published frames, and a reader has come as far as its walk.
Log == INSTANCE RingLog WITH
          Readers <- Readers,
          MaxBatch <- Capacity,
          frames <- log,
          size <- head,
          next <- [r \in Readers |-> Position(r)],
          seen <- [r \in Readers |-> got[r]],
          missed <- [r \in Readers |-> over[r] \cup lost[r]]

\* A walked lane is an append-only log: batches become visible whole, every
\* frame is handed over in order and at most once, and every counter a reader
\* passes was handed over or reported lost (poll_ring, write_batch).
IsAppendOnlyLog == Log!LogSpec

\* A walk reports a frame lost only when a newer write has taken its slot: no
\* committed frame is given up because of a retry, a race or a dead writer.
LossIsReal ==
    \A r \in Readers :
        /\ \A c \in lost[r] : slot[SlotOf(c)].seq > Committed(c)
        /\ \A c \in over[r] : c + Capacity < head

\* The head of a lane only moves forward, also across the death of a writer
\* and the write of its replacement.
HeadNeverRetreats == [][head' >= head]_vars

\* What a reader gets can be relied on, from either kind of read: whole frames,
\* published under their counter, and no loss that did not happen (poll_ring,
\* read).
ReadsAreSound == TypeOK /\ FramesAreWhole /\ IdReadIsWhole /\ LossIsReal
=============================================================================
