----------------------------- MODULE LockTable -----------------------------
(***************************************************************************)
(* The keyed leases of orbit-lock (lock/src/state.rs, lib.rs, fence.rs).   *)
(*                                                                         *)
(* A fixed table of slots, probed linearly from a key's hash, holds the    *)
(* current tenure of each key; one lock (a process-local mutex around a    *)
(* kernel lock on the region) serialises the operations of all processes.  *)
(* An operation reads the clock BEFORE it waits for that lock, publishes   *)
(* its transition on the event ring, and only then changes the slot; a     *)
(* slot is rewritten through a tombstone.  A process may die anywhere, and *)
(* the kernel then frees the lock on a table left as it was.               *)
(*                                                                         *)
(* A client is one process with one owner identity.  The contents of a     *)
(* slot that is not occupied are never read and not kept here.  The event  *)
(* ring is reduced to the last transition published for each key.          *)
(***************************************************************************)
EXTENDS Naturals, FiniteSets

CONSTANTS
    Clients,
    Keys,
    Capacity,     \* LOCK_STATE_CAPACITY
    Home,         \* lock_hash(key) reduced to a slot
    Ttls,         \* lease durations callers ask for
    CounterMax,   \* LOCK_COUNTER_MAX, the last lock id
    MaxRevision,  \* bound: no call starts beyond this revision
    MaxTime,      \* bound: the clock
    MaxFaults,    \* bound: deaths and failed publishes
    NoOne         \* holder of the free lock

ASSUME CapacityAssumption == Capacity \in Nat \ {0}
ASSUME HomeAssumption     == Home \in [Keys -> 0 .. Capacity - 1]
ASSUME TtlAssumption      == Ttls \subseteq Nat \ {0}
ASSUME BoundAssumption ==
    {CounterMax, MaxRevision, MaxTime, MaxFaults} \subseteq Nat
ASSUME NoOneAssumption    == NoOne \notin Clients

VARIABLES
    clock,      \* CLOCK_MONOTONIC, in milliseconds
    table,      \* the slots
    nextLock,   \* LockStateHeader.next_lock
    nextRev,    \* LockStateHeader.next_revision
    lock,       \* the client inside with_table
    pc,         \* where each client is
    now,        \* the time it read at the start of its call
    work,       \* the transition it is carrying out
    last,       \* the last transition published for each key
    handle,     \* the lease each client was last given for each key
    high,       \* Fence.high_water of the resource behind each key
    served,     \* history: the tenure the resource served last
    tenures,    \* history: tenures ever installed for each key
    revoked,    \* history: ids released by their owner or by force
    faults      \* history: deaths and failed publishes

tableVars == <<table, nextLock, nextRev>>
callVars  == <<lock, pc, now, work>>
histVars  == <<tenures, revoked, faults>>
fenceVars == <<high, served>>
vars == <<clock, tableVars, callVars, last, handle, fenceVars, histVars>>

IdOps    == {"renew", "release"}
OwnerOps == {"renewOwned", "releaseOwned", "restore"}
Renewing  == {"renew", "renewOwned"}
Releasing == {"release", "releaseOwned", "force"}
LookupOps == Renewing \cup Releasing \cup {"restore"}

NoLease == [id |-> 0]
NoWork == [kind |-> "none"]
NoEvent == [kind |-> "none", rev |-> 0]
Empty == [state |-> "empty"]
Tombstone == [state |-> "tombstone"]
Occupied(lease) == [state |-> "occupied", lease |-> lease]

Init ==
    /\ clock = 0
    /\ table = [s \in 0 .. Capacity - 1 |-> Empty]
    /\ nextLock = 0 /\ nextRev = 0
    /\ lock = NoOne
    /\ pc = [c \in Clients |-> "idle"]
    /\ now = [c \in Clients |-> 0]
    /\ work = [c \in Clients |-> NoWork]
    /\ last = [k \in Keys |-> NoEvent]
    /\ handle = [c \in Clients |-> [k \in Keys |-> NoLease]]
    /\ high = [k \in Keys |-> 0]
    /\ served = [k \in Keys |-> 0]
    /\ tenures = [k \in Keys |-> 0]
    /\ revoked = {}
    /\ faults = 0

-----------------------------------------------------------------------------
(***************************************************************************)
(* The table                                                               *)
(***************************************************************************)

Least(S) == CHOOSE o \in S : \A p \in S : o <= p

\* probe_index.
ProbeIndex(k, o) == (Home[k] + o) % Capacity

Offsets == 0 .. Capacity - 1

IsEmpty(s) == table[s].state = "empty"

\* LockStateSlot::matches.
Matches(s, k) == table[s].state = "occupied" /\ table[s].lease.key = k

Expired(s, t) == table[s].state = "occupied" /\ table[s].lease.exp <= t

\* find_slot: the first match ahead of any empty slot, as a set of at most
\* one slot.
FindSlot(k) ==
    LET found == {o \in Offsets :
                    /\ Matches(ProbeIndex(k, o), k)
                    /\ \A p \in 0 .. o - 1 : ~IsEmpty(ProbeIndex(k, p))}
    IN  {ProbeIndex(k, o) : o \in {p \in found : \A q \in found : p <= q}}

\* Where the scan of acquire ends: an empty slot, or the key's live tenure.
ScanEnds(k, t, o) ==
    \/ IsEmpty(ProbeIndex(k, o))
    \/ Matches(ProbeIndex(k, o), k) /\ ~Expired(ProbeIndex(k, o), t)

\* The offsets the scan of acquire visits.
Scanned(k, t) ==
    {o \in Offsets : \A p \in 0 .. o - 1 : ~ScanEnds(k, t, p)}

\* The live tenure the scan comes upon, as a set of at most one slot.
HolderSlot(k, t) ==
    {ProbeIndex(k, o) : o \in {p \in Scanned(k, t) :
        /\ Matches(ProbeIndex(k, p), k)
        /\ ~Expired(ProbeIndex(k, p), t)}}

\* The visited slots a new tenure may be written to; the first is taken.
Insertable(k, t) ==
    {o \in Scanned(k, t) :
        \/ table[ProbeIndex(k, o)].state # "occupied"
        \/ Expired(ProbeIndex(k, o), t)}

\* The table after the scan: every expired entry it visited is a tombstone.
Swept(k, t) ==
    [s \in DOMAIN table |->
        IF \E o \in Scanned(k, t) :
              s = ProbeIndex(k, o) /\ Expired(s, t)
        THEN Tombstone ELSE table[s]]

-----------------------------------------------------------------------------
(***************************************************************************)
(* Calls                                                                   *)
(***************************************************************************)

\* The public method up to the table lock: only the clock is read.  What is
\* called, and with which deadline, is chosen where it first matters.
Call(c) ==
    /\ pc[c] = "idle" /\ nextRev < MaxRevision
    /\ now' = [now EXCEPT ![c] = clock]
    /\ pc' = [pc EXCEPT ![c] = "table"]
    /\ UNCHANGED <<clock, tableVars, lock, work, last, handle, fenceVars,
                   histVars>>

\* with_table is entered by one client at a time.
InTable(c) == pc[c] = "table" /\ lock = NoOne

\* The call returns and the guards are dropped.
Returns(c) ==
    /\ pc' = [pc EXCEPT ![c] = "idle"]
    /\ now' = [now EXCEPT ![c] = 0]
    /\ work' = [work EXCEPT ![c] = NoWork]
    /\ lock' = NoOne

\* acquire comes upon a live tenure and answers Occupied.
AcquireOccupied(c, k) ==
    /\ InTable(c)
    /\ HolderSlot(k, now[c]) # {}
    /\ table' = Swept(k, now[c])
    /\ Returns(c)
    /\ UNCHANGED <<clock, nextLock, nextRev, last, handle, fenceVars,
                   histVars>>

\* mint_lock_id refuses to pass LOCK_COUNTER_MAX.
IdExhausted == nextLock + 1 > CounterMax

\* acquire fails: no slot is left, or no lock id.
AcquireFails(c, k) ==
    /\ InTable(c)
    /\ HolderSlot(k, now[c]) = {}
    /\ Insertable(k, now[c]) = {} \/ IdExhausted
    /\ table' = Swept(k, now[c])
    /\ Returns(c)
    /\ UNCHANGED <<clock, nextLock, nextRev, last, handle, fenceVars,
                   histVars>>

\* mint_revision, and the transition the call is about to publish and apply.
Mint(c, s, kind, lease) ==
    /\ nextRev' = nextRev + 1
    /\ lock' = c
    /\ pc' = [pc EXCEPT ![c] = "publish"]
    /\ work' = [work EXCEPT ![c] =
                   [kind |-> kind, slot |-> s,
                    lease |-> [lease EXCEPT !.rev = nextRev + 1]]]
    /\ now' = [now EXCEPT ![c] = 0]

\* A lock id that is given out again (a mutation of MintLockId).
MintLockIdReused == nextLock' = IF nextLock = 0 THEN 1 ELSE nextLock

\* mint_lock_id.
MintLockId == nextLock' = nextLock + 1

\* acquire has a slot for a new tenure.
AcquireMints(c, k) ==
    /\ InTable(c)
    /\ HolderSlot(k, now[c]) = {}
    /\ Insertable(k, now[c]) # {} /\ ~IdExhausted
    /\ table' = Swept(k, now[c])
    /\ MintLockId
    /\ \E ttl \in Ttls :
          Mint(c, ProbeIndex(k, Least(Insertable(k, now[c]))), "acquired",
               [id |-> nextLock', key |-> k, owner |-> c,
                exp |-> now[c] + ttl, rev |-> 0, ord |-> tenures[k] + 1])
    /\ UNCHANGED <<clock, last, handle, fenceVars, histVars>>

\* live_slot and force_release: the entry has not expired by the time the
\* caller read.
Live(c, s) == ~Expired(s, now[c])

\* The identity an operation asks for: the exact tenure of the lease the
\* caller passes, its owner, or nothing.
Entitled(c, o, s) ==
    /\ o \in IdOps => table[s].lease.id = handle[c][table[s].lease.key].id
    /\ o \in OwnerOps => table[s].lease.owner = c

\* The live tenure of k, if the operation may act on it.
Target(c, o, k) == {s \in FindSlot(k) : Live(c, s) /\ Entitled(c, o, s)}

\* A renewal, release or lookup finds nothing, or something expired, which it
\* turns into a tombstone, or the tenure of somebody else.
FindsNothing(c, k) ==
    /\ InTable(c)
    /\ \E o \in LookupOps :
          /\ o \in IdOps => handle[c][k] # NoLease
          /\ Target(c, o, k) = {}
    /\ table' = [s \in DOMAIN table |->
                    IF s \in FindSlot(k) /\ ~Live(c, s) THEN Tombstone
                    ELSE table[s]]
    /\ Returns(c)
    /\ UNCHANGED <<clock, nextLock, nextRev, last, handle, fenceVars,
                   histVars>>

\* current and restore: the tenure is handed to its owner again.
Restore(c, k) ==
    /\ InTable(c)
    /\ \E s \in Target(c, "restore", k) :
          handle' = [handle EXCEPT ![c][k] = table[s].lease]
    /\ Returns(c)
    /\ UNCHANGED <<clock, tableVars, last, fenceVars, histVars>>

Later(a, b) == IF a >= b THEN a ELSE b

\* renew_slot up to the publish: the deadline is never shortened.
RenewMints(c, k) ==
    /\ InTable(c)
    /\ \E o \in Renewing, ttl \in Ttls : \E s \in Target(c, o, k) :
          Mint(c, s, "renewed",
               [table[s].lease EXCEPT !.exp = Later(@, now[c] + ttl)])
    /\ UNCHANGED <<clock, table, nextLock, last, handle, fenceVars, histVars>>

\* release_slot up to the publish.
ReleaseMints(c, k) ==
    /\ InTable(c)
    /\ \E o \in Releasing : \E s \in Target(c, o, k) :
          Mint(c, s, "released", table[s].lease)
    /\ UNCHANGED <<clock, table, nextLock, last, handle, fenceVars, histVars>>

-----------------------------------------------------------------------------
(***************************************************************************)
(* A transition: publish, then apply                                       *)
(***************************************************************************)

\* The frame of the transition is on the ring.
FrameWritten(c) ==
    last' = [last EXCEPT ![work[c].lease.key] =
                [kind |-> work[c].kind, id |-> work[c].lease.id,
                 exp |-> work[c].lease.exp, rev |-> work[c].lease.rev]]

\* publish.
Publish(c) ==
    /\ pc[c] = "publish"
    /\ FrameWritten(c)
    /\ pc' = [pc EXCEPT ![c] = "apply"]
    /\ UNCHANGED <<clock, tableVars, lock, now, work, handle, fenceVars,
                   histVars>>

\* publish fails: the ring refuses the frame, or takes it and the wake fails.
\* The error is returned and the slot stays as it is.
PublishFails(c) ==
    /\ pc[c] = "publish" /\ faults < MaxFaults
    /\ FrameWritten(c) \/ UNCHANGED last
    /\ faults' = faults + 1
    /\ Returns(c)
    /\ UNCHANGED <<clock, tableVars, handle, fenceVars, tenures, revoked>>

\* LockStateSlot::write: the slot is a tombstone while it is filled.
StoreBegins(c) ==
    /\ pc[c] = "apply" /\ work[c].kind # "released"
    /\ table' = [table EXCEPT ![work[c].slot] = Tombstone]
    /\ pc' = [pc EXCEPT ![c] = "fill"]
    /\ UNCHANGED <<clock, nextLock, nextRev, lock, now, work, last, handle,
                   fenceVars, histVars>>

\* LockStateSlot::write: the entry becomes visible, and the caller has its
\* lease.
StoreEnds(c) ==
    LET lease == work[c].lease IN
    /\ pc[c] = "fill"
    /\ table' = [table EXCEPT ![work[c].slot] = Occupied(lease)]
    /\ handle' = [handle EXCEPT ![c][lease.key] = lease]
    /\ tenures' = [tenures EXCEPT ![lease.key] = lease.ord]
    /\ Returns(c)
    /\ UNCHANGED <<clock, nextLock, nextRev, last, fenceVars, revoked, faults>>

\* A release that clears its slot for good (a mutation of Frees).
FreesToEmpty == Empty

\* What a released entry becomes.
Frees == Tombstone

\* release_slot: the entry is given up.
Release(c) ==
    /\ pc[c] = "apply" /\ work[c].kind = "released"
    /\ table' = [table EXCEPT ![work[c].slot] = Frees]
    /\ revoked' = revoked \cup {work[c].lease.id}
    /\ Returns(c)
    /\ UNCHANGED <<clock, nextLock, nextRev, last, handle, fenceVars, tenures,
                   faults>>

-----------------------------------------------------------------------------
(***************************************************************************)
(* Deaths, time and the fenced resource                                    *)
(***************************************************************************)

\* A client dies inside a call.  Its leases die with it; the kernel frees the
\* lock and the table stays as it is.
Crash(c) ==
    /\ pc[c] # "idle" /\ faults < MaxFaults
    /\ pc' = [pc EXCEPT ![c] = "idle"]
    /\ now' = [now EXCEPT ![c] = 0]
    /\ work' = [work EXCEPT ![c] = NoWork]
    /\ lock' = IF lock = c THEN NoOne ELSE lock
    /\ handle' = [handle EXCEPT ![c] = [k \in Keys |-> NoLease]]
    /\ faults' = faults + 1
    /\ UNCHANGED <<clock, tableVars, last, fenceVars, tenures, revoked>>

Tick ==
    /\ clock < MaxTime
    /\ clock' = clock + 1
    /\ UNCHANGED <<tableVars, callVars, last, handle, fenceVars, histVars>>

\* Fence::admit: no newer tenure has been observed.
Admits(k, token) == token >= high[k]

\* A holder, whether its lease still stands or not, uses the resource behind
\* the key, which admits it by its fencing token.
Use(c, k) ==
    /\ handle[c][k] # NoLease
    /\ Admits(k, handle[c][k].id)
    /\ high' = [high EXCEPT ![k] = Later(@, handle[c][k].id)]
    /\ served' = [served EXCEPT ![k] = handle[c][k].ord]
    /\ UNCHANGED <<clock, tableVars, callVars, last, handle, histVars>>

ClientStep(c) ==
    \/ Call(c)
    \/ \E k \in Keys :
          \/ AcquireOccupied(c, k) \/ AcquireFails(c, k) \/ AcquireMints(c, k)
          \/ FindsNothing(c, k) \/ Restore(c, k) \/ RenewMints(c, k)
          \/ ReleaseMints(c, k) \/ Use(c, k)
    \/ Publish(c) \/ PublishFails(c) \/ StoreBegins(c) \/ StoreEnds(c)
    \/ Release(c) \/ Crash(c)

Next == Tick \/ \E c \in Clients : ClientStep(c)

Spec == Init /\ [][Next]_vars

-----------------------------------------------------------------------------
(***************************************************************************)
(* Properties                                                              *)
(***************************************************************************)

Leases == [id : Nat, key : Keys, owner : Clients, exp : Nat, rev : Nat,
           ord : Nat]

\* Every variable stays in the range its fields have, and exactly the client
\* inside with_table has a transition in hand.
TypeOK ==
    /\ clock \in Nat /\ nextRev \in Nat
    /\ nextLock \in 0 .. CounterMax
    /\ table \in [0 .. Capacity - 1 ->
                    {Empty, Tombstone} \cup [state : {"occupied"}, lease : Leases]]
    /\ lock \in Clients \cup {NoOne}
    /\ pc \in [Clients -> {"idle", "table", "publish", "apply", "fill"}]
    /\ \A c \in Clients :
          /\ (pc[c] \in {"publish", "apply", "fill"}) <=> (lock = c)
          /\ \A k \in Keys : handle[c][k] \in Leases \cup {NoLease}

\* A lease its holder may still rely on.
Standing(l) == l # NoLease /\ l.exp > clock /\ l.id \notin revoked

\* Acquisition is atomic across sibling processes: no two processes hold
\* standing leases on one key, however late they read the clock, wait for the
\* table or die inside it.
OneHolder ==
    \A k \in Keys : \A c, d \in Clients :
        Standing(handle[c][k]) /\ Standing(handle[d][k]) => c = d

\* "The table never evicts a live lock to admit another key": a standing lease
\* is in the table, or its own holder is rewriting it there.
NeverEvicted ==
    \A k \in Keys : \A c \in Clients :
        Standing(handle[c][k]) =>
            \/ \E s \in FindSlot(k) :
                  /\ table[s].lease.id = handle[c][k].id
                  /\ table[s].lease.exp >= handle[c][k].exp
            \/ pc[c] = "fill" /\ work[c].lease.id = handle[c][k].id

\* find_slot reaches every entry: a key has one entry at most, and no empty
\* slot ever opens in front of it.
EntriesReachable ==
    \A s \in DOMAIN table :
        table[s].state = "occupied" => FindSlot(table[s].lease.key) = {s}

\* The fencing token lets a resource reject stale holders: once it has served
\* a tenure it never serves an earlier one of that key.
TenuresServedInOrder == [][\A k \in Keys : served'[k] >= served[k]]_vars

\* The transitions published for a key carry increasing revisions and, as long
\* as nothing has failed, the latest one tells what the table holds.
EventsFollowTable ==
    lock = NoOne /\ faults = 0 =>
        \A k \in Keys :
            /\ \A s \in FindSlot(k) :
                  LET l == table[s].lease IN
                  last[k].kind # "released" /\ last[k].rev = l.rev
                      /\ last[k].id = l.id /\ last[k].exp = l.exp
            /\ last[k].kind \in {"acquired", "renewed"}
                  /\ last[k].exp > clock => FindSlot(k) # {}

\* "A separate bounded ring records successful transitions": whoever reads of
\* an acquisition finds it in the table while it lasts, unless it is released.
EventsAreSuccessful ==
    lock = NoOne =>
        \A k \in Keys :
            last[k].kind = "acquired" /\ last[k].exp > clock =>
                \E s \in FindSlot(k) : table[s].lease.id = last[k].id

\* The table and its events: one holder for each key, no live lease evicted,
\* every entry reachable by its probe, and the events a history of the table
\* (acquire, renew and release of state.rs).
TableSound ==
    TypeOK /\ OneHolder /\ NeverEvicted /\ EntriesReachable /\ EventsFollowTable
=============================================================================
