-------------------------------- MODULE Arena --------------------------------
(***************************************************************************)
(* The fleet's byte store (arena/src): an index of slots over a ring of    *)
(* bytes in shared memory.  A writer, under the region's process lock,     *)
(* takes bytes at the cursor, evicting the records it lands on and         *)
(* skipping those a reader pins, and publishes the record in a slot.       *)
(* Readers take no lock: they pin in their own row, then look again.  A    *)
(* row belongs to the process that holds its kernel hold; the pins a dead  *)
(* process left behind are cleared by whoever takes that hold.             *)
(*                                                                         *)
(* A record is its generation: `ring` tells whose bytes lie at a position. *)
(* The encoded body follows the identity body in the same span, so one     *)
(* length stands for both.                                                 *)
(***************************************************************************)
EXTENDS Naturals, FiniteSets, FiniteSetsExt

CONSTANTS
  Writers, Readers,  \* the processes, by what they are seen to do
  NRows,       \* reader rows of the segment
  NSlots,      \* ARENA_SLOTS
  Bytes,       \* ARENA_BYTES
  RecordMax,   \* ARENA_RECORD_MAX, a quarter of Bytes in the code
  Lens,        \* Lens[n]: the lengths tried for the n-th record, 0 is an empty body
  Keys,        \* caller digests: key % NSlots is where its chain starts
  MaxRecords,  \* bound on the records written
  MaxDeaths    \* bound on the processes killed

Procs == Writers \cup Readers
Slots == 0..(NSlots - 1)
Rows == 1..NRows
NoKey == 99
NoRow == 0

VARIABLES
  slot,        \* Slot -> state, key, generation, span
  ring,        \* position -> generation of the record whose byte lies there
  cursor, recordGeneration,   \* the Header's counters
  active, pins,               \* per row: owner marker, per-slot pin counters
  kind, row,   \* process -> how it opened the arena, and the row it holds
  rd,          \* process -> its reading thread
  w,           \* the holder of the write lock
  since,       \* history: key -> least generation a lookup may now find
  deaths

vars == <<slot, ring, cursor, recordGeneration, active, pins, kind, row, rd, w,
          since, deaths>>
index == <<slot, ring, cursor, recordGeneration, since>>
owners == <<active, pins, kind, row, deaths>>

NoReader == [pc |-> "idle", key |-> NoKey, at |-> 0, gen |-> 0, off |-> 0, len |-> 0,
             floor |-> 0]
NoWriter == [pc |-> "idle", p |-> "none", key |-> NoKey, len |-> 0, at |-> 0, i |-> 0,
             past |-> 0, tries |-> 0, again |-> FALSE, gen |-> 0, alone |-> FALSE]

Init ==
  /\ slot = [s \in Slots |-> [state |-> "EMPTY", key |-> NoKey, gen |-> 0,
                              off |-> 0, len |-> 0]]
  /\ ring = [b \in 0..(Bytes - 1) |-> 0]
  /\ cursor = 0
  /\ recordGeneration = 0
  /\ active = [r \in Rows |-> FALSE]
  /\ pins = [r \in Rows |-> [s \in Slots |-> 0]]
  /\ kind = [p \in Procs |-> "closed"]
  /\ row = [p \in Procs |-> NoRow]
  /\ rd = [p \in Procs |-> NoReader]
  /\ w = NoWriter
  /\ since = [k \in Keys |-> 1]
  /\ deaths = 0

Unlocked == w.pc = "idle"
Pinned(s) == \E r \in Rows : active[r] /\ pins[r][s] > 0
Evicted(sl) == IF sl.state = "EMPTY" THEN sl ELSE [sl EXCEPT !.state = "RETIRED"]

-----------------------------------------------------------------------------
(* Owner rows *)

(* The first row whose hold can be taken, its stale pins cleared first. *)
ClaimRow(p, k) ==
  /\ kind[p] = "closed"
  /\ LET free == {r \in Rows : \A q \in Procs : row[q] # r}
     IN  /\ free # {}
         /\ row' = [row EXCEPT ![p] = Min(free)]
         /\ pins' = [pins EXCEPT ![Min(free)] = [s \in Slots |-> 0]]
         /\ active' = [active EXCEPT ![Min(free)] = TRUE]
  /\ kind' = [kind EXCEPT ![p] = k]
  /\ UNCHANGED <<index, rd, w, deaths>>

(* Arena::new claims under the write lock, attach_existing without it. *)
Open(p) == Unlocked /\ ClaimRow(p, "arena")
AttachExisting(p) == ClaimRow(p, "reader")

(* Drop of the last handle: no entry is left. *)
Close(p) ==
  /\ kind[p] # "closed"
  /\ rd[p].pc = "idle" /\ w.p # p
  /\ active' = [active EXCEPT ![row[p]] = FALSE]
  /\ row' = [row EXCEPT ![p] = NoRow]
  /\ kind' = [kind EXCEPT ![p] = "closed"]
  /\ UNCHANGED <<index, pins, rd, w, deaths>>

(* SIGKILL: the kernel lets go of its holds and locks, its pins stay. *)
Die(p) ==
  /\ kind[p] # "closed"
  /\ deaths < MaxDeaths
  /\ deaths' = deaths + 1
  /\ row' = [row EXCEPT ![p] = NoRow]
  /\ kind' = [kind EXCEPT ![p] = "closed"]
  /\ rd' = [rd EXCEPT ![p] = NoReader]
  /\ w' = IF w.p = p THEN NoWriter ELSE w
  /\ UNCHANGED <<index, active, pins>>

(* A mutant: the owner marker is tested the wrong way round. *)
ReclaimableInactive == {r \in Rows : ~active[r] /\ \A p \in Procs : row[p] # r}

(* The rows whose hold reclaim_locked can take. *)
Reclaimable == {r \in Rows : active[r] /\ \A p \in Procs : row[p] # r}

ClearRows(dead) ==
  /\ pins' = [r \in Rows |-> IF r \in dead THEN [s \in Slots |-> 0] ELSE pins[r]]
  /\ active' = [r \in Rows |-> active[r] /\ r \notin dead]

ReclaimDeadPins(p) ==
  /\ Unlocked /\ kind[p] = "arena"
  /\ Reclaimable # {}
  /\ ClearRows(Reclaimable)
  /\ UNCHANGED <<index, kind, row, rd, w, deaths>>

-----------------------------------------------------------------------------
(* Readers *)

Chain(k, probe) == (k + probe) % NSlots

GetStarts(p, k) ==
  /\ kind[p] = "arena" /\ rd[p].pc = "idle"
  /\ rd' = [rd EXCEPT ![p] = [NoReader EXCEPT !.pc = "probe", !.key = k, !.floor = since[k]]]
  /\ UNCHANGED <<index, owners, w>>

(* at counts the probes *)
GetProbes(p) ==
  /\ rd[p].pc = "probe"
  /\ LET s == Chain(rd[p].key, rd[p].at)
     IN  rd' = [rd EXCEPT ![p] =
           IF slot[s].state = "LIVE" /\ slot[s].key = rd[p].key
           THEN [@ EXCEPT !.pc = "generation", !.at = s]
           ELSE IF slot[s].state = "EMPTY" \/ rd[p].at + 1 = NSlots
           THEN NoReader
           ELSE [@ EXCEPT !.at = @ + 1]]
  /\ UNCHANGED <<index, owners, w>>

GetReadsGeneration(p) ==
  /\ rd[p].pc = "generation"
  /\ rd' = [rd EXCEPT ![p].pc = "pin", ![p].gen = slot[rd[p].at].gen]
  /\ UNCHANGED <<index, owners, w>>

(* An address may have travelled to any process. *)
GetAddress(p, s, g) ==
  /\ kind[p] # "closed" /\ rd[p].pc = "idle"
  /\ rd' = [rd EXCEPT ![p] = [NoReader EXCEPT !.pc = "pin", !.at = s, !.gen = g]]
  /\ UNCHANGED <<index, owners, w>>

PinEntry(p) ==
  /\ rd[p].pc = "pin"
  /\ pins' = [pins EXCEPT ![row[p]][rd[p].at] = @ + 1]
  /\ rd' = [rd EXCEPT ![p].pc = "verify"]
  /\ w' = [w EXCEPT !.alone = FALSE]
  /\ UNCHANGED <<index, active, kind, row, deaths>>

Confirmed(r, sl) ==
  /\ sl.gen = r.gen
  /\ IF r.key = NoKey THEN sl.state = "ADDRESSED"
                      ELSE sl.state = "LIVE" /\ sl.key = r.key

Verify(p) ==
  /\ rd[p].pc = "verify"
  /\ LET sl == slot[rd[p].at]
     IN  IF Confirmed(rd[p], sl)
         THEN /\ rd' = [rd EXCEPT ![p] = [@ EXCEPT !.pc = "held", !.off = sl.off, !.len = sl.len]]
              /\ UNCHANGED pins
         ELSE /\ rd' = [rd EXCEPT ![p] = NoReader]
              /\ pins' = [pins EXCEPT ![row[p]][rd[p].at] = @ - 1]
  /\ UNCHANGED <<index, active, kind, row, w, deaths>>

DropEntry(p) ==
  /\ rd[p].pc = "held"
  /\ rd' = [rd EXCEPT ![p] = NoReader]
  /\ pins' = [pins EXCEPT ![row[p]][rd[p].at] = @ - 1]
  /\ UNCHANGED <<index, active, kind, row, w, deaths>>

-----------------------------------------------------------------------------
(* write_record, under the lock *)

(* find_locked: the first live slot of k before an empty one *)
Find(k) ==
  LET reached(n) == \A m \in 0..(n - 1) : slot[Chain(k, m)].state # "EMPTY"
  IN  {Chain(k, n) : n \in {n \in Slots : /\ reached(n)
                                          /\ slot[Chain(k, n)].state = "LIVE"
                                          /\ slot[Chain(k, n)].key = k}}

EvictAll(those) == [s \in Slots |-> IF s \in those THEN Evicted(slot[s]) ELSE slot[s]]

(* Past the end of the ring a record starts again at 0. *)
Start(at, len) == IF (at % Bytes) + len > Bytes THEN at + Bytes - (at % Bytes) ELSE at

PutStarts(p, k, len) ==
  /\ Unlocked /\ kind[p] = "arena"
  /\ recordGeneration < MaxRecords
  /\ len \in Lens[recordGeneration + 1] /\ len <= RecordMax
  /\ slot' = IF k = NoKey THEN slot ELSE EvictAll(Find(k))
  /\ w' = [NoWriter EXCEPT !.pc = "scan", !.p = p, !.key = k, !.len = len,
             !.at = Start(cursor, len), !.tries = 1,
             !.alone = \A q \in Procs : rd[q].pc \notin {"verify", "held"}]
  /\ UNCHANGED <<ring, cursor, recordGeneration, since, owners, rd>>

Overlaps(sl, pos, len) == sl.off + sl.len > pos /\ sl.off < pos + len
Later(past, sl) == IF sl.off + sl.len > past THEN sl.off + sl.len ELSE past

(* allocate_locked looks at slot i: skip, step over a pinned one, or evict. *)
AllocateScans ==
  /\ w.pc = "scan" /\ w.i < NSlots
  /\ LET sl == slot[w.i] IN
       w' = IF sl.state = "EMPTY" \/ ~Overlaps(sl, w.at % Bytes, w.len)
            THEN [w EXCEPT !.i = @ + 1]
            ELSE IF Pinned(w.i)
            THEN [w EXCEPT !.i = @ + 1, !.past = Later(@, sl)]
            ELSE [w EXCEPT !.pc = "evict"]
  /\ UNCHANGED <<index, owners, rd>>

(* evict: a reader may have pinned since the writer looked. *)
Evicts ==
  /\ w.pc \in {"evict", "evict slot"}
  /\ slot' = EvictAll({w.i})
  /\ w' = [w EXCEPT !.pc = IF @ = "evict" THEN "rescan" ELSE "recheck"]
  /\ UNCHANGED <<ring, cursor, recordGeneration, since, owners, rd>>

(* A mutant: the pins are not looked at again after the eviction. *)
RescansBlindly ==
  /\ w.pc = "rescan"
  /\ w' = [w EXCEPT !.pc = "scan", !.i = @ + 1]
  /\ UNCHANGED <<index, owners, rd>>

(* A reader that pinned before the eviction keeps its bytes. *)
AllocateRescans ==
  /\ w.pc = "rescan"
  /\ w' = [w EXCEPT !.pc = "scan", !.i = @ + 1,
                    !.past = IF Pinned(w.i) THEN Later(@, slot[w.i]) ELSE @]
  /\ UNCHANGED <<index, owners, rd>>

(* Error::Pinned: once, reclaim and start over; then the put is refused. *)
PinnedOut(place) == [w EXCEPT !.pc = IF w.again THEN "refused" ELSE "reclaim",
                              !.again = TRUE, !.gen = place]

AllocateEnds ==
  /\ w.pc = "scan" /\ w.i = NSlots
  /\ IF w.past = 0
     THEN /\ cursor' = w.at + w.len
          /\ w' = [w EXCEPT !.pc = "slot", !.again = FALSE, !.tries = 0]
     ELSE /\ w' = IF w.tries = NSlots + 2
                  THEN PinnedOut(0)
                  ELSE [w EXCEPT !.at = Start(@ + w.past - (@ % Bytes), w.len),
                                 !.i = 0, !.past = 0, !.tries = @ + 1]
          /\ UNCHANGED cursor
  /\ UNCHANGED <<slot, ring, recordGeneration, since, owners, rd>>

(* reclaim_locked, then the allocation or the slot search again (gen tells) *)
Reclaims ==
  /\ w.pc = "reclaim"
  /\ ClearRows(Reclaimable)
  /\ w' = IF w.gen = 0
          THEN [w EXCEPT !.pc = "scan", !.at = Start(cursor, w.len), !.i = 0,
                         !.past = 0, !.tries = 1]
          ELSE [w EXCEPT !.pc = "slot", !.gen = 0, !.tries = 0]
  /\ UNCHANGED <<index, kind, row, rd, deaths>>

Position == (w.at % Bytes)
Free(s) == slot[s].state = "EMPTY" \/ (slot[s].state = "RETIRED" /\ ~Pinned(s))
ChainStart == IF w.key = NoKey THEN Position ELSE w.key

(* free_slot_locked: the first free slot of the chain. *)
FreeSlot ==
  /\ w.pc = "slot"
  /\ LET free == {n \in Slots : Free(Chain(ChainStart, n))}
     IN  w' = IF free # {}
              THEN [w EXCEPT !.pc = "copy", !.i = Chain(ChainStart, Min(free))]
              ELSE [w EXCEPT !.pc = "oldest"]
  /\ UNCHANGED <<index, owners, rd>>

(* Or else the oldest unpinned record, which is then evicted. *)
FreeSlotOldest ==
  /\ w.pc = "oldest"
  /\ LET unpinned == {s \in Slots : ~Pinned(s)}
         oldest == CHOOSE s \in unpinned : \A t \in unpinned : slot[s].gen <= slot[t].gen
     IN  w' = IF unpinned = {} \/ w.tries = NSlots
              THEN PinnedOut(1)
              ELSE [w EXCEPT !.pc = "evict slot", !.i = oldest, !.tries = @ + 1]
  /\ UNCHANGED <<index, owners, rd>>

FreeSlotRechecks ==
  /\ w.pc = "recheck"
  /\ w' = [w EXCEPT !.pc = IF Pinned(w.i) THEN "oldest" ELSE "copy"]
  /\ UNCHANGED <<index, owners, rd>>

Copies ==
  /\ w.pc = "copy"
  /\ recordGeneration' = recordGeneration + 1
  /\ ring' = [b \in DOMAIN ring |-> IF b \in Position..(Position + w.len - 1)
                                    THEN recordGeneration' ELSE ring[b]]
  /\ w' = [w EXCEPT !.pc = "fields", !.gen = recordGeneration']
  /\ UNCHANGED <<slot, cursor, since, owners, rd>>

StoresFields ==
  /\ w.pc = "fields"
  /\ slot' = [slot EXCEPT ![w.i] = [@ EXCEPT !.key = w.key, !.gen = w.gen,
                                             !.off = Position, !.len = w.len]]
  /\ w' = [w EXCEPT !.pc = "publish"]
  /\ UNCHANGED <<ring, cursor, recordGeneration, since, owners, rd>>

(* The state is stored last; the lock is let go. *)
Publishes ==
  /\ w.pc = "publish"
  /\ slot' = [slot EXCEPT ![w.i].state = IF w.key = NoKey THEN "ADDRESSED" ELSE "LIVE"]
  /\ since' = IF w.key = NoKey THEN since ELSE [since EXCEPT ![w.key] = w.gen]
  /\ w' = NoWriter
  /\ UNCHANGED <<ring, cursor, recordGeneration, owners, rd>>

Refused ==
  /\ w.pc = "refused"
  /\ w' = NoWriter
  /\ UNCHANGED <<index, owners, rd>>

-----------------------------------------------------------------------------
(* forget, forget_address and reset: one pass under the lock *)

Withdraw(p, those, keys) ==
  /\ Unlocked /\ kind[p] = "arena"
  /\ those # {}
  /\ slot' = EvictAll(those)
  /\ since' = [k \in Keys |-> IF k \in keys THEN recordGeneration + 1 ELSE since[k]]
  /\ UNCHANGED <<ring, cursor, recordGeneration, owners, rd, w>>

Forget(p, k) == Withdraw(p, Find(k), {k})

ForgetAddress(p, s) == Withdraw(p, {s} \cap {t \in Slots : slot[t].state = "ADDRESSED"}, {})

Reset(p) == Withdraw(p, {s \in Slots : slot[s].state # "EMPTY"}, Keys)

-----------------------------------------------------------------------------
Next ==
  \/ \E p \in Procs : Open(p) \/ Die(p)
  \/ \E p \in Readers :
       \/ AttachExisting(p) \/ Close(p)
       \/ \E k \in Keys : GetStarts(p, k)
       \/ GetProbes(p) \/ GetReadsGeneration(p)
       \/ \E s \in Slots, g \in 1..MaxRecords :
            slot[s].state = "ADDRESSED" /\ g <= recordGeneration /\ GetAddress(p, s, g)
       \/ PinEntry(p) \/ Verify(p) \/ DropEntry(p)
  \/ \E p \in Writers :
       \/ ReclaimDeadPins(p) \/ Reset(p)
       \/ \E k \in Keys : Forget(p, k)
       \/ \E k \in Keys \cup {NoKey}, len \in 0..RecordMax : PutStarts(p, k, len)
       \/ \E s \in Slots : ForgetAddress(p, s)
  \/ AllocateScans \/ Evicts \/ AllocateRescans \/ AllocateEnds \/ Reclaims
  \/ FreeSlot \/ FreeSlotOldest \/ FreeSlotRechecks \/ Copies \/ StoresFields \/ Publishes \/ Refused

Spec == Init /\ [][Next]_vars

-----------------------------------------------------------------------------
(* Properties *)

(* An Entry borrows the bytes where they are: as long as it is held they   *)
(* are the bytes of the record it was handed out for, whatever puts,       *)
(* evictions, resets and deaths happen meanwhile; and a lookup that began  *)
(* after a put, a forget or a reset of its key returned never hands out    *)
(* what that call replaced (pin_entry, allocate_locked, evict).            *)
EntryStays ==
  \A p \in Procs : rd[p].pc = "held" =>
    /\ \A b \in rd[p].off..(rd[p].off + rd[p].len - 1) : ring[b] = rd[p].gen
    /\ rd[p].gen >= rd[p].floor

(* A put is refused as Pinned only if some living process pinned a record  *)
(* while it ran: the pins of the dead never take room away for good        *)
(* (reclaim_locked), and no row's counters outlive their owner's entries.  *)
RoomReturns ==
  /\ w.pc = "refused" => ~w.alone
  /\ \A p \in Procs : row[p] # NoRow => \A s \in Slots :
       pins[row[p]][s] = IF rd[p].pc \in {"verify", "held"} /\ rd[p].at = s THEN 1 ELSE 0
===============================================================================
