------------------------------ MODULE Exchange ------------------------------
(***************************************************************************)
(* Exchanges over one lane of a payload arena (stream/src/exchange):       *)
(* producers of a node reserve extents of its lane, fill them and send     *)
(* their descriptors over the control stream; receivers borrow the chunks  *)
(* and return them; a producer without room waits for credit; a process    *)
(* that died is reported and what it owned is reclaimed.                   *)
(*                                                                         *)
(* An action is one access, or one loop over an extent that its owner has  *)
(* alone.  The control stream is the queue that StreamRing delivers.  The  *)
(* bytes of an extent are the generation of the publication that wrote     *)
(* them.                                                                   *)
(***************************************************************************)
EXTENDS Integers, FiniteSets, SequencesExt, FiniteSetsExt

CONSTANTS
    LaneSlots,      \* slots_per_node
    SlotBytes,      \* slot_size
    Frames,         \* control frames that the control ring holds
    Instances       \* what the flows carry, who runs, how a producer waits

Slots == 1..LaneSlots
Producers == {"p1", "p2"}           \* two incarnations of the lane's node
Receiver(p) == IF p = "p1" THEN "r1" ELSE "r2"
Receivers == {"r1", "r2"}           \* two receivers of the process "R"
Actors == Producers \cup Receivers \cup {"m"}      \* m reports deaths

VARIABLES
    lane,       \* SlotMeta of every slot
    mem,        \* the bytes of every slot
    nextGen,    \* Header.next_generation
    waiters,    \* CreditWord.waiters
    prod,       \* the producers
    cons,       \* the receivers
    queue,      \* the control ring of each exchange
    rel,        \* a release under way, for each actor
    driver,     \* the driver of a process that waits as a task
    report,     \* where the report of a death is
    dead,       \* processes that died
    gaps,       \* history: what no later step of the code makes good
    inst        \* the instance

vars == <<lane, mem, nextGen, waiters, prod, cons, queue, rel, driver, report,
          dead, gaps, inst>>

NoExtent == [first |-> 0, count |-> 0, gen |-> 0]
Extent(e) == e.first..(e.first + e.count - 1)
FreeSlot == [state |-> "free", first |-> 0, gen |-> 0, prod |-> "none",
             reader |-> "none"]

Init ==
    /\ inst \in Instances
    /\ lane = [s \in Slots |-> FreeSlot]
    /\ mem = [s \in Slots |-> 0]
    /\ nextGen = 1 /\ waiters = 0
    /\ prod = [p \in Producers |->
                  [pc |-> IF p = "p1" THEN "idle" ELSE "down", state |-> "new",
                   next |-> 1, hint |-> 1, pub |-> NoExtent, same |-> FALSE,
                   waker |-> FALSE]]
    /\ cons = [r \in Receivers |->
                  [pc |-> "idle", state |-> "new", next |-> 1, held |-> {},
                   chunk |-> NoExtent, bytes |-> 0, end |-> "none"]]
    /\ queue = [p \in Producers |-> <<>>]
    /\ rel = [a \in Actors |-> [pc |-> "none", extent |-> NoExtent]]
    /\ driver = [p \in Producers |-> [pc |-> "off", same |-> FALSE]]
    /\ report = [who |-> "none", pc |-> "idle", slot |-> 1, seen |-> "free",
                 done |-> {}]
    /\ dead = {} /\ gaps = {}

-----------------------------------------------------------------------------
(***************************************************************************)
(* ChunkPlan: how a known payload is split                                 *)
(***************************************************************************)

CeilDiv(a, b) == (a + b - 1) \div b

\* ChunkGeometry::chunk_bytes, for a slot count that the lane admits.
ChunkBytes(slots) == SlotBytes * slots

\* ChunkPlan::for_limit.
Plan(data, limit) ==
    LET target == IF limit < SlotBytes THEN SlotBytes ELSE limit
        chunk == (target \div SlotBytes) * SlotBytes
        rest == data % chunk
    IN  [chunk |-> chunk, count |-> CeilDiv(data, chunk),
         tail |-> IF data = 0 THEN 0 ELSE IF rest = 0 THEN chunk ELSE rest]

ChunkLen(plan, i) == IF i = plan.count THEN plan.tail ELSE plan.chunk

ThePlan == Plan(inst.body, ChunkBytes(inst.slots))

-----------------------------------------------------------------------------
(***************************************************************************)
(* Helpers                                                                 *)
(***************************************************************************)

Process(a) == IF a \in Receivers THEN "R" ELSE a
Alive(a) == Process(a) \notin dead /\ (a \in Producers => prod[a].pc # "down")
Free(a) == Alive(a) /\ rel[a].pc = "none"

\* Arena::required_slots
RequiredSlots(len) == CeilDiv(len, SlotBytes)

RunAt(first, count) ==
    /\ first + count - 1 <= LaneSlots
    /\ \A s \in first..(first + count - 1) : lane[s].state = "free"
\* Arena::has_run
HasRun(count) == \E s \in Slots : RunAt(s, count)

\* The candidate of reserve: the first run at or after the hint, then from 1.
From(hint, o) == ((hint - 1 + o) % LaneSlots) + 1
Candidate(hint, count) ==
    From(hint, Min({o \in 0..(LaneSlots - 1) : RunAt(From(hint, o), count)}))

\* The index of the flow's next payload: the metadata of its start is the first.
NextLen(p) ==
    IF prod[p].state = "new" THEN inst.meta
    ELSE ChunkLen(ThePlan, prod[p].next - IF inst.meta > 0 THEN 1 ELSE 0)
\* What is reserved for it: a data chunk is read straight into a whole chunk.
Reserved(p) == IF prod[p].state = "new" THEN inst.meta ELSE ThePlan.chunk
DataLeft(p) ==
    prod[p].next - (IF inst.meta > 0 THEN 1 ELSE 0) <= ThePlan.count

\* A credit word that moved: whoever looked at it before must look again.
Bumped(f) == [x \in DOMAIN f |-> [f[x] EXCEPT !.same = FALSE]]

-----------------------------------------------------------------------------
(***************************************************************************)
(* Arena::reserve                                                          *)
(***************************************************************************)

Pays(p) == IF prod[p].state = "new" THEN inst.meta > 0
           ELSE prod[p].state = "open" /\ DataLeft(p)

\* The states are marked under the process's own lock of the lane.
Reserve(p) ==
    LET count == RequiredSlots(Reserved(p))
        first == Candidate(prod[p].hint, count)
    IN  /\ Free(p) /\ prod[p].pc = "idle" /\ Pays(p)
        /\ IF HasRun(count)
           THEN /\ lane' = [s \in Slots |->
                               IF s \in first..(first + count - 1)
                               THEN [lane[s] EXCEPT !.state = "reserved"]
                               ELSE lane[s]]
                /\ prod' = [prod EXCEPT ![p].pc = "stamp",
                               ![p].hint = From(first, count),
                               ![p].pub = [first |-> first, count |-> count,
                                           gen |-> 0]]
           ELSE prod' = [prod EXCEPT ![p].pc = "full"] /\ UNCHANGED lane
        /\ UNCHANGED <<mem, nextGen, waiters, cons, queue, rel, driver, report,
                       dead, gaps, inst>>

\* The stamps follow.  A reservation that a report of the incarnation before
\* has taken for that incarnation's is lost (history).
Stamp(p) ==
    /\ Free(p) /\ prod[p].pc = "stamp"
    /\ lane' = [s \in Slots |->
                   IF s \in Extent(prod[p].pub)
                   THEN [lane[s] EXCEPT !.first = prod[p].pub.first,
                            !.gen = nextGen, !.prod = p, !.reader = "none"]
                   ELSE lane[s]]
    /\ nextGen' = nextGen + 1
    /\ prod' = [prod EXCEPT ![p].pc = "fill", ![p].pub.gen = nextGen]
    /\ gaps' = gaps \cup
          IF \E s \in Extent(prod[p].pub) :
                \/ lane[s].state # "reserved"
                \/ report.pc = "claim" /\ report.slot = s
                \/ rel["m"].pc # "none" /\ s \in Extent(rel["m"].extent)
          THEN {"reserve"} ELSE {}
    /\ UNCHANGED <<mem, waiters, cons, queue, rel, driver, report, dead, inst>>

-----------------------------------------------------------------------------
(***************************************************************************)
(* Publication: fill, truncate, make live, send; or drop                   *)
(***************************************************************************)

Fill(p) ==
    /\ Free(p) /\ prod[p].pc = "fill"
    /\ mem' = [s \in Slots |-> IF s \in Extent(prod[p].pub)
                               THEN prod[p].pub.gen ELSE mem[s]]
    /\ prod' = [prod EXCEPT ![p].pc = "commit"]
    /\ UNCHANGED <<lane, nextGen, waiters, cons, queue, rel, driver, report,
                   dead, gaps, inst>>

\* Publication::drop of a guard that was never committed.
Abandon(p) ==
    /\ Free(p) /\ prod[p].pc = "commit" /\ nextGen <= inst.abandons
    /\ prod' = [prod EXCEPT ![p].pc = "idle"]
    /\ rel' = [rel EXCEPT ![p] = [pc |-> "check", extent |-> prod[p].pub]]
    /\ UNCHANGED <<lane, mem, nextGen, waiters, cons, queue, driver, report,
                   dead, gaps, inst>>

\* Publication::truncate of commit_len: whole slots that the prefix does not
\* need go back before the descriptor is sent.
Truncate(p) ==
    LET need == RequiredSlots(NextLen(p)) IN
    /\ Free(p) /\ prod[p].pc = "commit"
    /\ IF need < prod[p].pub.count
       THEN /\ lane' = [s \in Slots |->
                           IF /\ s \in Extent(prod[p].pub)
                              /\ s >= prod[p].pub.first + need
                           THEN [lane[s] EXCEPT !.state = "free"] ELSE lane[s]]
            /\ rel' = [rel EXCEPT ![p] = [pc |-> "bump", extent |-> NoExtent]]
       ELSE UNCHANGED <<lane, rel>>
    /\ prod' = [prod EXCEPT ![p].pc = "live", ![p].pub.count = need]
    /\ UNCHANGED <<mem, nextGen, waiters, cons, queue, driver, report, dead,
                   gaps, inst>>

MakeLive(p) ==
    /\ Free(p) /\ prod[p].pc = "live"
    /\ lane' = [lane EXCEPT ![prod[p].pub.first].state = "live"]
    /\ prod' = [prod EXCEPT ![p].pc = "send"]
    /\ UNCHANGED <<mem, nextGen, waiters, cons, queue, rel, driver, report,
                   dead, gaps, inst>>

Descriptor(p, kind) ==
    [kind |-> kind, id |-> prod[p].next, extent |-> prod[p].pub,
     len |-> NextLen(p)]

\* The control ring takes a frame whole or not at all, and none after its
\* reader left (StreamRing).
Accepts(p) == Len(queue[p]) < Frames
Refuses(p) == cons[Receiver(p)].end # "none" \/ "R" \in report.done

Publish(p) ==
    /\ queue' = [queue EXCEPT ![p] = Append(@,
                    Descriptor(p, IF prod[p].state = "new" THEN "start"
                                  ELSE "data"))]
    /\ prod' = [prod EXCEPT ![p].pc = "idle", ![p].next = @ + 1,
                            ![p].state = "open", ![p].pub = NoExtent]
    /\ UNCHANGED rel

\* A commit that fails drops the publication; the flow is tried again when the
\* control ring is writable, and ends when its reader is gone.
Send(p) ==
    /\ Free(p) /\ prod[p].pc = "send"
    /\ \/ Accepts(p) /\ ~Refuses(p) /\ Publish(p)
       \/ /\ ~Accepts(p) \/ Refuses(p)
          /\ prod' = [prod EXCEPT ![p].pc = "busy",
                         ![p].state = IF Refuses(p) THEN "terminal" ELSE @]
          /\ rel' = [rel EXCEPT ![p] =
                        [pc |-> "check", extent |-> prod[p].pub]]
          /\ UNCHANGED queue
    /\ UNCHANGED <<lane, mem, nextGen, waiters, cons, driver, report, dead,
                   gaps, inst>>

\* Sender::wait_writable
WaitWritable(p) ==
    /\ Free(p) /\ prod[p].pc = "busy" /\ (Accepts(p) \/ Refuses(p))
    /\ prod' = [prod EXCEPT ![p].pc = "idle"]
    /\ UNCHANGED <<lane, mem, nextGen, waiters, cons, queue, rel, driver,
                   report, dead, gaps, inst>>

Event(kind) == [kind |-> kind, id |-> 0, extent |-> NoExtent, len |-> 0]

\* A start without metadata, the end of the flow, a reset: one frame.
SendEvent(p, kind, to) ==
    /\ Free(p) /\ prod[p].pc = "idle" /\ Accepts(p)
    /\ queue' = IF Refuses(p) THEN queue
                ELSE [queue EXCEPT ![p] = Append(@, Event(kind))]
    /\ prod' = [prod EXCEPT ![p].state = IF Refuses(p) THEN "terminal" ELSE to]
    /\ UNCHANGED <<lane, mem, nextGen, waiters, cons, rel, driver, report, dead,
                   gaps, inst>>

Start(p) ==
    prod[p].state = "new" /\ inst.meta = 0 /\ SendEvent(p, "start", "open")
Finish(p) ==
    /\ prod[p].state = "open" /\ ~DataLeft(p)
    /\ SendEvent(p, "fin", "terminal")
Reset(p) ==
    /\ inst.fickle /\ prod[p].state # "terminal"
    /\ SendEvent(p, "reset", "terminal")

-----------------------------------------------------------------------------
(***************************************************************************)
(* Arena::release, by whoever drops a publication or a chunk               *)
(***************************************************************************)

OfGeneration(e) == \A s \in Extent(e) : lane[s].gen = e.gen

ReleaseCheck(a) ==
    /\ Alive(a) /\ rel[a].pc = "check"
    /\ rel' = [rel EXCEPT ![a].pc = IF OfGeneration(rel[a].extent) THEN "tail"
                                    ELSE "none"]
    /\ UNCHANGED <<lane, mem, nextGen, waiters, prod, cons, queue, driver,
                   report, dead, gaps, inst>>

FreeAt(S) == lane' = [s \in Slots |-> IF s \in S
                                      THEN [lane[s] EXCEPT !.state = "free"]
                                      ELSE lane[s]]

\* The slots after the first go back first.
ReleaseTail(a) ==
    /\ Alive(a) /\ rel[a].pc = "tail"
    /\ FreeAt(Extent(rel[a].extent) \ {rel[a].extent.first})
    /\ rel' = [rel EXCEPT ![a].pc = "first"]
    /\ UNCHANGED <<mem, nextGen, waiters, prod, cons, queue, driver, report,
                   dead, gaps, inst>>

ReleaseFirst(a) ==
    /\ Alive(a) /\ rel[a].pc = "first"
    /\ FreeAt({rel[a].extent.first})
    /\ rel' = [rel EXCEPT ![a].pc = "bump"]
    /\ UNCHANGED <<mem, nextGen, waiters, prod, cons, queue, driver, report,
                   dead, gaps, inst>>

\* The credit generation moves before the waiters are read.
ReleaseBump(a) ==
    /\ Alive(a) /\ rel[a].pc = "bump"
    /\ prod' = Bumped(prod) /\ driver' = Bumped(driver)
    /\ rel' = [rel EXCEPT ![a].pc = "wake"]
    /\ UNCHANGED <<lane, mem, nextGen, waiters, cons, queue, report, dead, gaps,
                   inst>>

\* wake_on wakes every sleeper of the word.
Rings ==
    /\ prod' = [p \in Producers |-> IF prod[p].pc = "asleep"
                                    THEN [prod[p] EXCEPT !.pc = "woken"]
                                    ELSE prod[p]]
    /\ driver' = [p \in Producers |-> IF driver[p].pc = "asleep"
                                      THEN [driver[p] EXCEPT !.pc = "drain"]
                                      ELSE driver[p]]

ReleaseWake(a) ==
    /\ Alive(a) /\ rel[a].pc = "wake"
    /\ IF waiters > 0 THEN Rings ELSE UNCHANGED <<prod, driver>>
    /\ rel' = [rel EXCEPT ![a] = [pc |-> "none", extent |-> NoExtent]]
    /\ UNCHANGED <<lane, mem, nextGen, waiters, cons, queue, report, dead, gaps,
                   inst>>

-----------------------------------------------------------------------------
(***************************************************************************)
(* A producer without room: Sender::wait_ready of a thread, poll_ready of  *)
(* a task                                                                  *)
(***************************************************************************)

Wants(p) == RequiredSlots(Reserved(p))

ProdStep(p, a, b) ==
    /\ Free(p) /\ prod[p].pc = a
    /\ prod' = [prod EXCEPT ![p].pc = b]
Waits == UNCHANGED <<lane, mem, nextGen, cons, queue, rel, report, dead, gaps,
                     inst>>

WaitLook(p) ==
    /\ ProdStep(p, "full", IF HasRun(Wants(p)) THEN "idle"
                           ELSE IF inst.task THEN "register" ELSE "count")
    /\ UNCHANGED <<waiters, driver>> /\ Waits

WaitCount(p) ==
    /\ ProdStep(p, "count", "see")
    /\ waiters' = waiters + 1 /\ UNCHANGED driver /\ Waits

WaitSee(p) ==
    /\ Free(p) /\ prod[p].pc = "see"
    /\ prod' = [prod EXCEPT ![p].pc = "again", ![p].same = TRUE]
    /\ UNCHANGED <<waiters, driver>> /\ Waits

WaitAgainNever(p) ==
    /\ ProdStep(p, "again", "sleep")
    /\ UNCHANGED <<waiters, driver>> /\ Waits

WaitAgain(p) ==
    /\ ProdStep(p, "again", IF HasRun(Wants(p)) THEN "woken" ELSE "sleep")
    /\ UNCHANGED <<waiters, driver>> /\ Waits

WaitSleep(p) ==
    /\ ProdStep(p, "sleep", IF prod[p].same THEN "asleep" ELSE "woken")
    /\ UNCHANGED <<waiters, driver>> /\ Waits

WaitUncount(p) ==
    /\ ProdStep(p, "woken", "full")
    /\ waiters' = waiters - 1 /\ UNCHANGED driver /\ Waits

\* The waker is left and the driver is started before the second look.
PollRegister(p) ==
    /\ Free(p) /\ prod[p].pc = "register"
    /\ prod' = [prod EXCEPT ![p].pc = "poll", ![p].waker = TRUE]
    /\ driver' = [driver EXCEPT ![p].pc = IF @ = "off" THEN "listen" ELSE @]
    /\ UNCHANGED waiters /\ Waits

PollAgain(p) ==
    /\ ProdStep(p, "poll", IF HasRun(Wants(p)) THEN "idle" ELSE "pending")
    /\ UNCHANGED <<waiters, driver>> /\ Waits

DriverListen(p) ==
    /\ Alive(p) /\ driver[p].pc = "listen"
    /\ waiters' = waiters + 1
    /\ driver' = [driver EXCEPT ![p].pc = "see"]
    /\ UNCHANGED prod /\ Waits

DriverSee(p) ==
    /\ Alive(p) /\ driver[p].pc = "see"
    /\ driver' = [driver EXCEPT ![p] = [pc |-> "drain", same |-> TRUE]]
    /\ UNCHANGED <<waiters, prod>> /\ Waits

\* A task whose waker is taken polls again.
DriverDrain(p) ==
    /\ Alive(p) /\ driver[p].pc = "drain"
    /\ driver' = [driver EXCEPT ![p].pc = "look"]
    /\ prod' = [prod EXCEPT ![p].waker = FALSE,
                   ![p].pc = IF prod[p].waker /\ @ \in {"poll", "pending"}
                             THEN "full" ELSE @]
    /\ UNCHANGED waiters /\ Waits

DriverLook(p) ==
    /\ Alive(p) /\ driver[p].pc = "look"
    /\ driver' = [driver EXCEPT
                     ![p] = IF driver[p].same THEN [@ EXCEPT !.pc = "park"]
                            ELSE [pc |-> "drain", same |-> TRUE]]
    /\ UNCHANGED <<waiters, prod>> /\ Waits

DriverPark(p) ==
    /\ Alive(p) /\ driver[p].pc = "park"
    /\ driver' = [driver EXCEPT ![p].pc = IF driver[p].same THEN "asleep"
                                          ELSE "drain"]
    /\ UNCHANGED <<waiters, prod>> /\ Waits

-----------------------------------------------------------------------------
(***************************************************************************)
(* Consumer::next, PayloadArena::read, and the drop of a chunk             *)
(***************************************************************************)

Flow(r) == IF r = "r1" THEN "p1" ELSE "p2"
ConsStep(r, c) ==
    /\ cons' = [cons EXCEPT ![r] = c]
    /\ UNCHANGED <<mem, nextGen, waiters, prod, driver, report, dead, inst>>

\* try_read_exact takes one frame; what the lifecycle or the chunk number does
\* not admit is malformed.
Next1(r) ==
    LET c == cons[r]
        e == Head(queue[Flow(r)])
        lawful == \/ e.kind = "start" /\ c.state = "new"
                  \/ e.kind \in {"data", "fin"} /\ c.state = "open"
                  \/ e.kind = "reset"
    IN  /\ Free(r) /\ c.pc = "idle" /\ c.end = "none" /\ queue[Flow(r)] # <<>>
        /\ queue' = [queue EXCEPT ![Flow(r)] = Tail(@)]
        /\ ConsStep(r,
              IF \/ ~lawful
                 \/ e.extent # NoExtent /\ e.id # c.next
              THEN [c EXCEPT !.end = "malformed"]
              ELSE IF e.kind \in {"fin", "reset"}
              THEN [c EXCEPT !.state = "terminal", !.end = e.kind]
              ELSE IF e.extent = NoExtent
              THEN [c EXCEPT !.state = "open"]
              ELSE [c EXCEPT !.pc = "gens", !.chunk = e])
        /\ UNCHANGED <<lane, rel, gaps>>

\* read: the generations first, then the states of the slots after the first.
ReadGens(r) ==
    LET c == cons[r] IN
    /\ Free(r) /\ c.pc = "gens"
    /\ ConsStep(r, IF OfGeneration(c.chunk.extent) THEN [c EXCEPT !.pc = "tail"]
                   ELSE [c EXCEPT !.pc = "idle", !.end = "malformed"])
    /\ UNCHANGED <<lane, queue, rel, gaps>>

ReadTail(r) ==
    LET c == cons[r]
        e == c.chunk.extent
    IN  /\ Free(r) /\ c.pc = "tail"
        /\ ConsStep(r, IF \A s \in Extent(e) \ {e.first} :
                             lane[s].state = "reserved"
                       THEN [c EXCEPT !.pc = "take"]
                       ELSE [c EXCEPT !.pc = "idle", !.end = "malformed"])
        /\ UNCHANGED <<lane, queue, rel, gaps>>

\* The first slot moves from live to reading, whatever allocation it is by now:
\* one that was reclaimed and used again since the look is taken for another
\* (history).
ReadTake(r) ==
    LET c == cons[r]
        e == c.chunk.extent
    IN  /\ Free(r) /\ c.pc = "take"
        /\ IF lane[e.first].state = "live"
           THEN /\ lane' = [lane EXCEPT ![e.first].state = "reading"]
                /\ ConsStep(r, [c EXCEPT !.pc = "mark"])
                /\ gaps' = gaps \cup IF OfGeneration(e) THEN {} ELSE {"read"}
           ELSE /\ ConsStep(r, [c EXCEPT !.pc = "idle", !.end = "malformed"])
                /\ UNCHANGED <<lane, gaps>>
        /\ UNCHANGED <<queue, rel>>

\* The reader's incarnation and node.
ReadMark(r) ==
    LET c == cons[r] IN
    /\ Free(r) /\ c.pc = "mark"
    /\ lane' = [lane EXCEPT ![c.chunk.extent.first].reader = "R"]
    /\ ConsStep(r, [c EXCEPT !.pc = "idle", !.state = "open", !.next = @ + 1,
                             !.held = @ \cup {c.chunk.extent},
                             !.bytes = @ + IF c.chunk.kind = "data"
                                           THEN c.chunk.len ELSE 0])
    /\ UNCHANGED <<queue, rel, gaps>>

\* PayloadChunk::drop is the credit return.
DropChunk(r) ==
    \E e \in cons[r].held :
       /\ Free(r) /\ cons[r].pc = "idle"
       /\ rel' = [rel EXCEPT ![r] = [pc |-> "check", extent |-> e]]
       /\ ConsStep(r, [cons[r] EXCEPT !.held = @ \ {e}])
       /\ UNCHANGED <<lane, queue, gaps>>

\* A receiver that leaves the flow: what was published and not read stays with
\* the producer's incarnation (history).
Leave(r) ==
    /\ Free(r) /\ cons[r].pc = "idle" /\ cons[r].end = "none" /\ inst.fickle
    /\ ConsStep(r, [cons[r] EXCEPT !.end = "left"])
    /\ gaps' = gaps \cup {"unread"}
    /\ UNCHANGED <<lane, queue, rel>>

-----------------------------------------------------------------------------
(***************************************************************************)
(* Deaths, the replacement, and Exchanges::node_dead                       *)
(***************************************************************************)

\* A reader that dies with a frame read and its chunk not yet marked as its own,
\* and whoever dies in a release, leaves slots that no report of it finds
\* (history).
Die(x) ==
    /\ x \in inst.mortal \ dead
    /\ dead' = dead \cup {x}
    /\ gaps' = gaps \cup
          IF \/ x = "R" /\ \E r \in Receivers : cons[r].pc # "idle"
             \/ \E a \in Actors : Process(a) = x /\ rel[a].pc # "none"
             \/ x \in Producers /\ prod[x].pc = "stamp"
          THEN {"orphan"} ELSE {}
    /\ UNCHANGED <<lane, mem, nextGen, waiters, prod, cons, queue, rel, driver,
                   report, inst>>

\* A replacement of the node opens an exchange of its own; its attach resets
\* nothing.
Replace ==
    /\ "p1" \in dead /\ prod["p2"].pc = "down" /\ inst.replaced
    /\ prod' = [prod EXCEPT !["p2"].pc = "idle"]
    /\ UNCHANGED <<lane, mem, nextGen, waiters, cons, queue, rel, driver,
                   report, dead, gaps, inst>>

Reports(r) ==
    /\ report' = r
    /\ UNCHANGED <<mem, nextGen, waiters, prod, cons, queue, driver, dead, gaps,
                   inst>>

\* The control stream ends first: a receiver reads what was sent and then the
\* end, a producer's write fails (Refuses).
NodeDead(x) ==
    /\ x \in dead \ report.done /\ report.pc = "idle" /\ rel["m"].pc = "none"
    /\ Reports([report EXCEPT !.who = x, !.pc = "look", !.slot = 1])
    /\ UNCHANGED <<lane, rel>>

AbandonedOfNode(s, x) ==
    \/ /\ lane[s].first = s /\ lane[s].state \in {"reserved", "live", "reading"}
       /\ lane[s].prod = x
    \/ lane[s].state = "reading" /\ lane[s].reader = x

Abandoned(s, x) ==
    \/ lane[s].first = s /\ lane[s].state \in {"reserved", "live"} /\ lane[s].prod = x
    \/ lane[s].state = "reading" /\ lane[s].reader = x

Advance ==
    IF report.slot < LaneSlots
    THEN [report EXCEPT !.slot = @ + 1, !.pc = "look"]
    ELSE [report EXCEPT !.pc = "idle", !.slot = 1, !.seen = "free",
                        !.who = "none", !.done = @ \cup {report.who}]

DeadLook ==
    /\ report.pc = "look" /\ rel["m"].pc = "none"
    /\ Reports(IF Abandoned(report.slot, report.who)
               THEN [report EXCEPT !.pc = "claim", !.seen = lane[report.slot].state]
               ELSE Advance)
    /\ UNCHANGED <<lane, rel>>

\* extent_count: the slots that carry the same stamps, to the end of the lane.
Stamped(s) ==
    {t \in s..LaneSlots : \A u \in s..t : /\ lane[u].first = s
                                          /\ lane[u].gen = lane[s].gen}

DeadClaim ==
    LET s == report.slot IN
    /\ report.pc = "claim"
    /\ IF lane[s].state = report.seen
       THEN /\ lane' = [lane EXCEPT ![s].state = "reclaiming"]
            /\ rel' = IF Stamped(s) = {} THEN rel
                      ELSE [rel EXCEPT !["m"] =
                              [pc |-> "check",
                               extent |-> [first |-> s, gen |-> lane[s].gen,
                                           count |-> Cardinality(Stamped(s))]]]
       ELSE UNCHANGED <<lane, rel>>
    /\ Reports(Advance)

-----------------------------------------------------------------------------
Produce(p) ==
    \/ Reserve(p) \/ Stamp(p) \/ Fill(p) \/ Truncate(p) \/ MakeLive(p)
    \/ Send(p) \/ WaitWritable(p) \/ Start(p) \/ Finish(p)
    \/ WaitLook(p) \/ WaitCount(p) \/ WaitSee(p) \/ WaitAgain(p)
    \/ WaitSleep(p) \/ WaitUncount(p) \/ PollRegister(p) \/ PollAgain(p)
    \/ DriverListen(p) \/ DriverSee(p) \/ DriverDrain(p) \/ DriverLook(p)
    \/ DriverPark(p)

Consume(r) ==
    \/ Next1(r) \/ ReadGens(r) \/ ReadTail(r) \/ ReadTake(r) \/ ReadMark(r)
    \/ DropChunk(r)

Release(a) ==
    \/ ReleaseCheck(a) \/ ReleaseTail(a) \/ ReleaseFirst(a)
    \/ ReleaseBump(a) \/ ReleaseWake(a)

Next ==
    \/ \E p \in Producers : Produce(p) \/ Abandon(p) \/ Reset(p)
    \/ \E r \in Receivers : Consume(r) \/ Leave(r)
    \/ \E a \in Actors : Release(a)
    \/ \E x \in inst.mortal : Die(x) \/ NodeDead(x)
    \/ Replace \/ DeadLook \/ DeadClaim

Spec == Init /\ [][Next]_vars

-----------------------------------------------------------------------------
(***************************************************************************)
(* Properties                                                              *)
(***************************************************************************)

\* A receiver that holds a chunk sees the bytes of the publication its
\* descriptor names, in an extent nobody else has, until it drops it; no flow
\* is malformed; and a flow that ended with FIN brought its whole body, split
\* as planned.  (Unless a chunk was reclaimed and used again between the
\* reader's look and its take, or under the stamps of a reservation.)
DeliveredIntact ==
    gaps \cap {"read", "reserve"} = {} =>
       /\ \A r \in Receivers : \A e \in cons[r].held :
             "R" \notin dead =>
                /\ lane[e.first].state = "reading" /\ OfGeneration(e)
                /\ \A s \in Extent(e) : mem[s] = e.gen
       /\ \A r \in Receivers :
             /\ cons[r].end = "malformed" => Flow(r) \in dead
             /\ cons[r].end = "fin" => cons[r].bytes = inst.body

\* Nobody is between two steps, apart from producers that wait for room.
Quiet ==
    /\ \A p \in Producers :
          prod[p].pc \in {"idle", "down", "busy", "asleep", "pending"} \/ p \in dead
    /\ \A r \in Receivers : cons[r].pc = "idle" \/ "R" \in dead
    /\ \A a \in Actors : rel[a].pc = "none" \/ Process(a) \in dead
    /\ \A p \in Producers : driver[p].pc \in {"off", "asleep"} \/ p \in dead
    /\ report.pc = "idle" /\ dead \subseteq report.done

\* When nothing is under way, a slot that is not free belongs to a chunk that
\* a frame in a control ring names or a live receiver holds, and a producer asleep for
\* room has none: every extent that was dropped, refused, cut short, read or
\* reclaimed has come back, and its credit reached whoever waits.
CreditReturns ==
    gaps = {} /\ Quiet =>
       /\ \A s \in Slots : lane[s].state # "free" =>
             \/ "R" \notin dead /\ \E r \in Receivers :
                   \E e \in cons[r].held : s \in Extent(e)
             \/ \E p \in Producers \ dead :
                   \E i \in DOMAIN queue[p] : s \in Extent(queue[p][i].extent)
       /\ \A p \in Producers \ dead :
             prod[p].pc \in {"asleep", "pending"} => ~HasRun(Wants(p))
=============================================================================
