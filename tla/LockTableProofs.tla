-------------------------- MODULE LockTableProofs --------------------------
(***************************************************************************)
(* The lock table keeps its promises for any clients, keys, capacity and   *)
(* hash: Spec => []TableSound and Spec => TenuresServedInOrder.            *)
(*                                                                         *)
(* The argument.  Slots never become empty again, so a probe path that was *)
(* clear of empty slots when an entry was written stays clear, and the     *)
(* linear search of find_slot finds exactly the entries of a key           *)
(* (FindsEntries).  The scan of acquire therefore meets the key's entry,   *)
(* if there is one: it stops at a live one, and an expired one is gone     *)
(* before the new tenure is written (ScanClears).  A standing lease has its*)
(* entry in the table, or its holder is rewriting it (HeldInv): the time a *)
(* caller read is never ahead of the clock, so what it finds expired is    *)
(* expired.  Ids order the tenures of a key as they were installed         *)
(* (KnownInv), which is why the fence, which compares ids, serves them in  *)
(* order (ServedInv).                                                      *)
(***************************************************************************)
EXTENDS LockTable, WellFoundedInduction, TLAPS

-----------------------------------------------------------------------------
(***************************************************************************)
(* The inductive invariant                                                 *)
(***************************************************************************)

Slots == 0 .. Capacity - 1
Busy == {"publish", "apply", "fill"}

Entries(k) == {s \in Slots : Matches(s, k)}

Cells == {Empty, Tombstone} \cup [state : {"occupied"}, lease : Leases]
Works == {NoWork} \cup [kind : {"acquired", "renewed", "released"},
                        slot : Slots, lease : Leases]
Events == {NoEvent} \cup [kind : {"acquired", "renewed", "released"},
                          id : Nat, exp : Nat, rev : Nat]

TableTypes ==
    /\ clock \in Nat /\ nextRev \in Nat
    /\ nextLock \in 0 .. CounterMax
    /\ table \in [Slots -> Cells]

CallTypes ==
    /\ lock \in Clients \cup {NoOne}
    /\ pc \in [Clients -> {"idle", "table", "publish", "apply", "fill"}]
    /\ now \in [Clients -> Nat]
    /\ work \in [Clients -> Works]

HistTypes ==
    /\ last \in [Keys -> Events]
    /\ handle \in [Clients -> [Keys -> Leases \cup {NoLease}]]
    /\ high \in [Keys -> Nat] /\ served \in [Keys -> Nat]
    /\ tenures \in [Keys -> Nat]
    /\ faults \in Nat

Types == TableTypes /\ CallTypes /\ HistTypes

\* The client inside with_table has a transition in hand, and no time a
\* caller has read is ahead of the clock.
CallInv ==
    \A c \in Clients :
        /\ pc[c] \in Busy <=> lock = c
        /\ pc[c] \in Busy => work[c] # NoWork
        /\ pc[c] = "fill" => work[c].kind # "released"
        /\ now[c] <= clock

\* No slot is empty on the way from the home of k to s.
PathClear(k, s) ==
    \A o \in Offsets : ProbeIndex(k, o) = s =>
        \A p \in 0 .. o - 1 : ~IsEmpty(ProbeIndex(k, p))

\* A key has one entry at most, and the way to it is clear.
TableInv ==
    /\ \A s, u \in Slots : \A k \in Keys :
          Matches(s, k) /\ Matches(u, k) => s = u
    /\ \A s \in Slots : \A k \in Keys : Matches(s, k) => PathClear(k, s)

SameTenure(a, b) ==
    a.id = b.id /\ a.key = b.key /\ a.owner = b.owner /\ a.ord = b.ord

\* What the client inside the table is about to write fits the table.
Fits(c, w) ==
    LET l == w.lease  s == w.slot IN
    /\ PathClear(l.key, s)
    /\ w.kind = "acquired" =>
          /\ Entries(l.key) = {} /\ table[s].state # "occupied"
          /\ l.owner = c /\ l.id = nextLock /\ l.ord = tenures[l.key] + 1
    /\ w.kind = "renewed" =>
          /\ l.owner = c /\ l.ord = tenures[l.key]
          /\ pc[c] # "fill" => /\ Matches(s, l.key)
                               /\ SameTenure(l, table[s].lease)
                               /\ table[s].lease.exp <= l.exp
          /\ pc[c] = "fill" => /\ Entries(l.key) = {}
                               /\ table[s].state # "occupied"
    /\ w.kind = "released" =>
          Matches(s, l.key) /\ SameTenure(l, table[s].lease)

WorkInv == \A c \in Clients : pc[c] \in Busy => Fits(c, work[c])

\* The leases somebody can see: in the table, in a handle, in a transition.
Known ==
    {table[s].lease : s \in {u \in Slots : table[u].state = "occupied"}}
      \cup ({handle[c][k] : c \in Clients, k \in Keys} \ {NoLease})
      \cup {work[c].lease : c \in {d \in Clients : pc[d] \in Busy}}

\* An id names one tenure, and ids order the tenures of a key.
KnownInv ==
    /\ \A a \in Known : a.id \in 1 .. nextLock
    /\ \A a, b \in Known :
          /\ a.id = b.id => SameTenure(a, b)
          /\ a.key = b.key /\ a.id < b.id => a.ord < b.ord

\* The entry of a key is its latest tenure; a handle is of its client.
OrdInv ==
    /\ \A s \in Slots : table[s].state = "occupied" =>
          table[s].lease.ord = tenures[table[s].lease.key]
    /\ \A c \in Clients, k \in Keys : handle[c][k] # NoLease =>
          /\ handle[c][k].key = k /\ handle[c][k].owner = c
          /\ handle[c][k].ord <= tenures[k]

\* The entry that backs lease l in the table.
Backs(s, k, l) ==
    /\ Matches(s, k)
    /\ table[s].lease.id = l.id
    /\ table[s].lease.exp >= l.exp

\* A standing lease is in the table, or its holder is rewriting it.
HeldInv ==
    \A k \in Keys : \A c \in Clients :
        Standing(handle[c][k]) =>
            \/ \E s \in Slots : Backs(s, k, handle[c][k])
            \/ pc[c] = "fill" /\ work[c].lease.id = handle[c][k].id

\* What the fence admits is not older than what it has served.
ServedInv ==
    \A k \in Keys :
        /\ high[k] <= nextLock /\ served[k] <= tenures[k]
        /\ \A a \in Known :
              a.key = k /\ a.id >= high[k] => a.ord >= served[k]

\* The last event of k tells what the table holds for it.
Told(k) ==
    /\ \A s \in Slots : Matches(s, k) =>
          /\ last[k].kind \in {"acquired", "renewed"}
          /\ last[k].rev = table[s].lease.rev
          /\ last[k].id = table[s].lease.id
          /\ last[k].exp = table[s].lease.exp
    /\ last[k].kind \in {"acquired", "renewed"} /\ last[k].exp > clock =>
          \E s \in Slots : Matches(s, k)

\* A transition of k is published and not applied yet.
InHand(k) ==
    \E c \in Clients : pc[c] \in {"apply", "fill"} /\ work[c].lease.key = k

EventInv ==
    faults = 0 =>
        /\ \A k \in Keys : ~InHand(k) => Told(k)
        /\ \A c \in Clients : pc[c] \in {"apply", "fill"} =>
              LET l == work[c].lease IN
              last[l.key] = [kind |-> work[c].kind, id |-> l.id,
                             exp |-> l.exp, rev |-> l.rev]

IInv ==
    /\ Types
    /\ CallInv
    /\ TableInv
    /\ WorkInv
    /\ KnownInv
    /\ OrdInv
    /\ HeldInv
    /\ ServedInv
    /\ EventInv

-----------------------------------------------------------------------------
(***************************************************************************)
(* Probing                                                                 *)
(***************************************************************************)

\* The least member of a set of numbers is one of it and below the others.
LEMMA LeastIs ==
    ASSUME NEW S, S \subseteq Nat, S # {}
    PROVE  Least(S) \in S /\ \A p \in S : Least(S) <= p
<1> DEFINE R == OpToRel(<, Nat)
<1>1. IsWellFoundedOn(R, Nat) BY NatLessThanWellFounded, Zenon
<1>2. \A x, y \in Nat : y < x => <<y, x>> \in R BY DEF OpToRel
<1> HIDE DEF R
<1>3. PICK x \in S : \A y \in S : ~(<<y, x>> \in R) BY <1>1, WFMin
<1>4. \A y \in S : x <= y
  <2> TAKE y \in S
  <2>1. x \in Nat /\ y \in Nat /\ ~(<<y, x>> \in R) BY <1>3
  <2>2. ~(y < x) BY <1>2, <2>1
  <2> QED BY <2>1, <2>2
<1> QED BY <1>4 DEF Least

\* A remainder on fewer than two rounds of the table.
LEMMA OneRound ==
    ASSUME NEW x \in Nat, x < 2 * Capacity
    PROVE  x % Capacity = IF x < Capacity THEN x ELSE x - Capacity
  BY CapacityAssumption

\* probe_index walks from the home slot and goes round once.
LEMMA ProbeSlot ==
    ASSUME NEW k \in Keys, NEW o \in Offsets
    PROVE  /\ ProbeIndex(k, o) \in Slots
           /\ ProbeIndex(k, o) = IF Home[k] + o < Capacity
                                 THEN Home[k] + o
                                 ELSE Home[k] + o - Capacity
<1>1. /\ Home[k] \in 0 .. Capacity - 1 /\ o \in 0 .. Capacity - 1
      /\ Capacity \in Nat \ {0}
  BY HomeAssumption, CapacityAssumption DEF Offsets
<1>2. Home[k] + o \in Nat /\ Home[k] + o < 2 * Capacity BY <1>1
<1> QED BY <1>1, <1>2, OneRound DEF ProbeIndex, Slots

\* It comes upon a slot once ...
LEMMA ProbeOnce ==
    ASSUME NEW k \in Keys, NEW o \in Offsets, NEW p \in Offsets,
           ProbeIndex(k, o) = ProbeIndex(k, p)
    PROVE  o = p
<1>1. /\ Home[k] \in 0 .. Capacity - 1 /\ Capacity \in Nat \ {0}
      /\ o \in 0 .. Capacity - 1 /\ p \in 0 .. Capacity - 1
  BY HomeAssumption, CapacityAssumption DEF Offsets
<1> QED BY <1>1, ProbeSlot

\* ... and upon every slot.
LEMMA ProbeCovers ==
    ASSUME NEW k \in Keys, NEW s \in Slots
    PROVE  \E o \in Offsets : ProbeIndex(k, o) = s
<1>1. /\ Home[k] \in 0 .. Capacity - 1 /\ Capacity \in Nat \ {0}
      /\ s \in 0 .. Capacity - 1
  BY HomeAssumption, CapacityAssumption DEF Slots
<1> DEFINE o == IF Home[k] <= s THEN s - Home[k] ELSE s - Home[k] + Capacity
<1>2. o \in Offsets BY <1>1 DEF Offsets
<1>3. ProbeIndex(k, o) = s BY <1>1, <1>2, ProbeSlot
<1> QED BY <1>2, <1>3

\* find_slot finds the entries of a key.
LEMMA FindsEntries ==
    ASSUME TableInv, NEW k \in Keys
    PROVE  FindSlot(k) = Entries(k)
<1> DEFINE found == {o \in Offsets :
                       /\ Matches(ProbeIndex(k, o), k)
                       /\ \A p \in 0 .. o - 1 : ~IsEmpty(ProbeIndex(k, p))}
           firsts == {p \in found : \A q \in found : p <= q}
<1>1. FindSlot(k) = {ProbeIndex(k, o) : o \in firsts}
  BY DEF FindSlot
<1>2. \A p, q \in found : p = q
  <2> TAKE p, q \in found
  <2>1. /\ ProbeIndex(k, p) \in Slots /\ ProbeIndex(k, q) \in Slots
        /\ Matches(ProbeIndex(k, p), k) /\ Matches(ProbeIndex(k, q), k)
    BY ProbeSlot
  <2>2. ProbeIndex(k, p) = ProbeIndex(k, q) BY <2>1 DEF TableInv
  <2> QED BY <2>2, ProbeOnce
<1>3. firsts = found
  <2>1. found \subseteq Nat BY DEF Offsets
  <2>2. \A p, q \in found : p <= q BY <1>2, <2>1
  <2> QED BY <2>2
<1>4. \A s \in Slots : Matches(s, k) =>
         \E o \in found : s = ProbeIndex(k, o)
  <2> TAKE s \in Slots
  <2> HAVE Matches(s, k)
  <2>1. PICK o \in Offsets : ProbeIndex(k, o) = s BY ProbeCovers
  <2>2. PathClear(k, s) BY DEF TableInv
  <2>3. o \in found BY <2>1, <2>2 DEF PathClear
  <2> QED BY <2>1, <2>3
<1>5. \A o \in found : ProbeIndex(k, o) \in Entries(k)
  BY ProbeSlot DEF Entries
<1> HIDE DEF found, firsts
<1>6. Entries(k) \subseteq FindSlot(k)
  BY <1>1, <1>3, <1>4 DEF Entries
<1>7. FindSlot(k) \subseteq Entries(k)
  BY <1>1, <1>3, <1>5
<1> QED BY <1>6, <1>7

\* The scan of acquire turns into tombstones only what has expired.
LEMMA SweepsExpired ==
    ASSUME NEW k \in Keys, NEW t, table \in [Slots -> Cells], NEW s \in Slots
    PROVE  \/ Swept(k, t)[s] = table[s]
           \/ Swept(k, t)[s] = Tombstone /\ Expired(s, t)
  BY DEF Swept

\* It visits a slot when nothing it has passed ends it.
LEMMA ScanReaches ==
    ASSUME TableInv, NEW k \in Keys, NEW t, NEW o \in Offsets,
           Matches(ProbeIndex(k, o), k)
    PROVE  o \in Scanned(k, t)
<1> SUFFICES ASSUME NEW p \in 0 .. o - 1 PROVE ~ScanEnds(k, t, p)
  BY DEF Scanned
<1>1. p \in Offsets /\ p # o
  BY CapacityAssumption DEF Offsets
<1>2. ProbeIndex(k, p) # ProbeIndex(k, o) BY <1>1, ProbeOnce
<1>3. ProbeIndex(k, p) \in Slots /\ ProbeIndex(k, o) \in Slots
  BY <1>1, ProbeSlot
<1>4. ~Matches(ProbeIndex(k, p), k) BY <1>2, <1>3 DEF TableInv
<1>5. ~IsEmpty(ProbeIndex(k, p)) BY <1>3 DEF TableInv, PathClear
<1> QED BY <1>4, <1>5 DEF ScanEnds

\* A scan that meets no live tenure of its key leaves no entry of it.
LEMMA ScanClears ==
    ASSUME TableInv, NEW k \in Keys, NEW t, table \in [Slots -> Cells],
           HolderSlot(k, t) = {}, NEW s \in Slots, Matches(s, k)
    PROVE  Swept(k, t)[s] = Tombstone
<1>1. PICK o \in Offsets : ProbeIndex(k, o) = s BY ProbeCovers
<1>2. o \in Scanned(k, t) BY <1>1, ScanReaches
<1>3. Expired(s, t)
  <2> SUFFICES ASSUME ~Expired(s, t) PROVE FALSE
    OBVIOUS
  <2>1. s \in HolderSlot(k, t) BY <1>1, <1>2 DEF HolderSlot
  <2> QED BY <2>1
<1> QED BY <1>1, <1>2, <1>3 DEF Swept

\* The slot acquire inserts into is free after the scan, and the way to it is
\* clear.
LEMMA InsertsInPath ==
    ASSUME NEW k \in Keys, NEW t, table \in [Slots -> Cells],
           Insertable(k, t) # {}
    PROVE  LET s == ProbeIndex(k, Least(Insertable(k, t))) IN
           /\ s \in Slots /\ PathClear(k, s)
           /\ Swept(k, t)[s].state # "occupied"
<1> DEFINE m == Least(Insertable(k, t))
           s == ProbeIndex(k, m)
<1>1. Insertable(k, t) \subseteq Offsets BY DEF Insertable, Scanned
<1>2. Offsets \subseteq Nat BY DEF Offsets
<1>3. m \in Insertable(k, t) /\ \A p \in Insertable(k, t) : m <= p
  BY <1>1, <1>2, LeastIs
<1> HIDE DEF m
<1>4. m \in Offsets /\ m \in Scanned(k, t) BY <1>1, <1>3 DEF Insertable
<1>5. s \in Slots BY <1>4, ProbeSlot
<1>6. PathClear(k, s)
  <2> SUFFICES ASSUME NEW o \in Offsets, ProbeIndex(k, o) = s,
                      NEW p \in 0 .. o - 1
               PROVE  ~IsEmpty(ProbeIndex(k, p))
    BY DEF PathClear
  <2>1. o = m BY <1>4, ProbeOnce
  <2>2. p \in Offsets /\ p < m
    BY <1>4, <2>1, CapacityAssumption DEF Offsets
  <2>3. p \in Scanned(k, t)
    <3>1. \A q \in 0 .. p - 1 : q \in 0 .. m - 1
      BY <1>4, <2>2 DEF Offsets
    <3> QED BY <1>4, <2>2, <3>1 DEF Scanned
  <2>4. p \notin Insertable(k, t) BY <1>2, <1>3, <1>4, <2>2
  <2>5. table[ProbeIndex(k, p)].state = "occupied"
    BY <2>3, <2>4 DEF Insertable
  <2> QED BY <2>5 DEF IsEmpty
<1>7. Swept(k, t)[s].state # "occupied"
  <2>1. table[s].state # "occupied" \/ Expired(s, t)
    BY <1>3 DEF Insertable
  <2>2. CASE Expired(s, t)
    <3>1. Swept(k, t)[s] = Tombstone BY <1>4, <1>5, <2>2 DEF Swept
    <3> QED BY <3>1 DEF Tombstone
  <2>3. CASE table[s].state # "occupied"
    <3>1. Swept(k, t)[s] = table[s]
      BY <1>5, <2>3 DEF Swept, Expired
    <3> QED BY <2>3, <3>1
  <2> QED BY <2>1, <2>2, <2>3
<1> QED BY <1>5, <1>6, <1>7 DEF m

-----------------------------------------------------------------------------
(***************************************************************************)
(* What the operations do inside the table                                 *)
(***************************************************************************)

\* A step leaves the table as it is, but for expired entries.
Sweeps(t) ==
    /\ table' \in [Slots -> Cells]
    /\ \A s \in Slots : \/ table'[s] = table[s]
                        \/ table'[s] = Tombstone /\ Expired(s, t)

\* The calls that only look, and sweep on their way.
SweepsAndReturns(c) ==
    /\ pc[c] = "table" /\ lock = NoOne /\ lock' = NoOne
    /\ pc' = [pc EXCEPT ![c] = "idle"] /\ now' = [now EXCEPT ![c] = 0]
    /\ work' = [work EXCEPT ![c] = NoWork]
    /\ Sweeps(now[c])
    /\ UNCHANGED <<clock, nextLock, nextRev, last, handle, high, served,
                   tenures, revoked, faults>>

\* The transition w is minted under the table lock.
Mints(c, w) ==
    /\ pc[c] = "table" /\ lock = NoOne /\ lock' = c
    /\ pc' = [pc EXCEPT ![c] = "publish"] /\ now' = [now EXCEPT ![c] = 0]
    /\ work' = [work EXCEPT ![c] = w]
    /\ nextRev' = nextRev + 1
    /\ UNCHANGED <<clock, last, handle, high, served, tenures, revoked,
                   faults>>

\* acquire mints the tenure l of k for slot s: the id is new, the key can be
\* found in s, and no entry of the key is left.
Acquires(c, k, s, l) ==
    /\ Mints(c, [kind |-> "acquired", slot |-> s, lease |-> l])
    /\ Sweeps(now[c])
    /\ \A u \in Slots : ~(table'[u].state = "occupied"
                            /\ table'[u].lease.key = k)
    /\ PathClear(k, s) /\ table'[s].state # "occupied"
    /\ l.id = nextLock + 1 /\ l.key = k /\ l.owner = c
    /\ l.ord = tenures[k] + 1
    /\ nextLock' = nextLock + 1 /\ nextLock' \in 0 .. CounterMax

\* A renewal mints the entry of its own client with a deadline not earlier.
Renews(c, k, s, l) ==
    /\ Mints(c, [kind |-> "renewed", slot |-> s, lease |-> l])
    /\ UNCHANGED <<table, nextLock>>
    /\ Matches(s, k) /\ SameTenure(l, table[s].lease)
    /\ table[s].lease.exp <= l.exp
    /\ l.key = k /\ l.owner = c

\* A release mints the entry as it is.
GivesUp(c, k, s, l) ==
    /\ Mints(c, [kind |-> "released", slot |-> s, lease |-> l])
    /\ UNCHANGED <<table, nextLock>>
    /\ Matches(s, k) /\ SameTenure(l, table[s].lease)
    /\ l.key = k

\* A client is handed its entry again.
Restores(c, k, s) ==
    /\ pc[c] = "table" /\ lock = NoOne /\ lock' = NoOne
    /\ pc' = [pc EXCEPT ![c] = "idle"] /\ now' = [now EXCEPT ![c] = 0]
    /\ work' = [work EXCEPT ![c] = NoWork]
    /\ Matches(s, k) /\ table[s].lease \in Leases
    /\ table[s].lease.owner = c
    /\ handle' = [handle EXCEPT ![c][k] = table[s].lease]
    /\ UNCHANGED <<clock, table, nextLock, nextRev, last, high, served,
                   tenures, revoked, faults>>

\* The table acquire leaves behind has its types.
LEMMA SweptSweeps ==
    ASSUME Types, NEW k \in Keys, NEW t, table' = Swept(k, t)
    PROVE  Sweeps(t)
<1>1. table \in [Slots -> Cells] BY DEF Types, TableTypes
<1>2. DOMAIN table = Slots BY <1>1
<1>3. Tombstone \in Cells BY DEF Cells
<1>4. Swept(k, t) \in [Slots -> Cells] BY <1>1, <1>2, <1>3 DEF Swept
<1> QED BY <1>1, <1>4, SweepsExpired DEF Sweeps

\* acquire that finds a holder or no room, and every lookup that fails.
LEMMA SweepStep ==
    ASSUME IInv, NEW c \in Clients, NEW k \in Keys,
           \/ AcquireOccupied(c, k)
           \/ AcquireFails(c, k)
           \/ FindsNothing(c, k)
    PROVE  SweepsAndReturns(c)
<1>1. Types BY DEF IInv
<1>2. Sweeps(now[c])
  <2>1. CASE AcquireOccupied(c, k)
    BY <1>1, <2>1, SweptSweeps DEF AcquireOccupied
  <2>2. CASE AcquireFails(c, k)
    BY <1>1, <2>2, SweptSweeps DEF AcquireFails
  <2>3. CASE FindsNothing(c, k)
    <3>1. table \in [Slots -> Cells] /\ Tombstone \in Cells
      BY DEF IInv, Types, TableTypes, Cells
    <3>2. DOMAIN table = Slots BY <3>1
    <3>3. table' = [s \in Slots |->
                      IF s \in FindSlot(k) /\ ~Live(c, s) THEN Tombstone
                      ELSE table[s]]
      BY <2>3, <3>2 DEF FindsNothing
    <3> QED BY <3>1, <3>3 DEF Sweeps, Live
  <2> QED BY <2>1, <2>2, <2>3
<1> QED
  BY <1>2 DEF SweepsAndReturns, AcquireOccupied, AcquireFails, FindsNothing,
     InTable, Returns, histVars, fenceVars

\* Leases and slots have the fields the operations read.
LEMMA EntryTypes ==
    ASSUME Types, NEW s \in Slots, table[s].state = "occupied"
    PROVE  table[s].lease \in Leases
<1>1. table[s] \in Cells BY DEF Types, TableTypes
<1> QED BY <1>1 DEF Cells, Empty, Tombstone

\* acquire mints a tenure with a new id, in a slot its key can be found in,
\* once no entry of the key is left.
LEMMA AcquireStep ==
    ASSUME IInv, NEW c \in Clients, NEW k \in Keys, AcquireMints(c, k)
    PROVE  \E s \in Slots, l \in Leases : Acquires(c, k, s, l)
<1> DEFINE s == ProbeIndex(k, Least(Insertable(k, now[c])))
<1>1. Types /\ TableInv /\ table \in [Slots -> Cells]
  BY DEF IInv, Types, TableTypes
<1>2. table' = Swept(k, now[c]) BY DEF AcquireMints
<1>3. Sweeps(now[c]) BY <1>1, <1>2, SweptSweeps
<1>4. s \in Slots /\ PathClear(k, s) /\ table'[s].state # "occupied"
  BY <1>1, <1>2, InsertsInPath DEF AcquireMints
<1>5. ASSUME NEW u \in Slots
      PROVE  ~(table'[u].state = "occupied" /\ table'[u].lease.key = k)
  <2>1. CASE Matches(u, k)
    <3>1. table'[u] = Tombstone
      BY <1>1, <1>2, <2>1, ScanClears DEF AcquireMints
    <3> QED BY <3>1 DEF Tombstone
  <2>2. CASE ~Matches(u, k)
    BY <1>3, <2>2 DEF Sweeps, Matches, Tombstone
  <2> QED BY <2>1, <2>2
<1> HIDE DEF s
<1>6. PICK ttl \in Ttls :
         Mint(c, s, "acquired",
              [id |-> nextLock', key |-> k, owner |-> c,
               exp |-> now[c] + ttl, rev |-> 0, ord |-> tenures[k] + 1])
  BY DEF AcquireMints, s
<1>7. /\ nextLock' = nextLock + 1 /\ nextLock' \in 0 .. CounterMax
      /\ nextRev \in Nat /\ now[c] + ttl \in Nat /\ tenures[k] + 1 \in Nat
  <2>1. nextLock \in 0 .. CounterMax /\ CounterMax \in Nat /\ nextRev \in Nat
    BY BoundAssumption DEF IInv, Types, TableTypes
  <2>2. nextLock' = nextLock + 1 /\ ~(nextLock + 1 > CounterMax)
    BY DEF AcquireMints, MintLockId, IdExhausted
  <2>3. now[c] \in Nat /\ ttl \in Nat /\ tenures[k] \in Nat
    BY TtlAssumption DEF IInv, Types, CallTypes, HistTypes
  <2> QED BY <2>1, <2>2, <2>3
<1> DEFINE l == [id |-> nextLock', key |-> k, owner |-> c,
                 exp |-> now[c] + ttl, rev |-> nextRev + 1,
                 ord |-> tenures[k] + 1]
<1>8. /\ l \in Leases /\ l.id = nextLock + 1 /\ l.key = k /\ l.owner = c
      /\ l.ord = tenures[k] + 1
  BY <1>7 DEF Leases
<1>9. Mints(c, [kind |-> "acquired", slot |-> s, lease |-> l])
  <2>1. [[id |-> nextLock', key |-> k, owner |-> c, exp |-> now[c] + ttl,
          rev |-> 0, ord |-> tenures[k] + 1] EXCEPT !.rev = nextRev + 1] = l
    OBVIOUS
  <2>2. work' = [work EXCEPT ![c] = [kind |-> "acquired", slot |-> s,
                                     lease |-> l]]
    BY <1>6, <2>1 DEF Mint
  <2> QED BY <1>6, <2>2 DEF Mints, Mint, AcquireMints, InTable, histVars,
     fenceVars
<1> HIDE DEF l
<1> QED BY <1>3, <1>4, <1>5, <1>7, <1>8, <1>9 DEF Acquires


\* The entry an operation may act on.
LEMMA TargetStep ==
    ASSUME IInv, NEW c \in Clients, NEW k \in Keys, NEW o,
           NEW s \in Target(c, o, k)
    PROVE  /\ s \in Slots /\ Matches(s, k) /\ table[s].lease \in Leases
           /\ table[s].lease.key = k /\ Entitled(c, o, s)
<1>1. s \in Entries(k) /\ Entitled(c, o, s)
  BY FindsEntries DEF Target, IInv
<1> QED BY <1>1, EntryTypes DEF Entries, Matches, IInv

\* A renewal mints the entry of its own client with a deadline not earlier.
LEMMA RenewStep ==
    ASSUME IInv, NEW c \in Clients, NEW k \in Keys, RenewMints(c, k)
    PROVE  \E s \in Slots, l \in Leases : Renews(c, k, s, l)
<1>1. PICK o \in Renewing, ttl \in Ttls : \E s \in Target(c, o, k) :
         Mint(c, s, "renewed",
              [table[s].lease EXCEPT !.exp = Later(@, now[c] + ttl)])
  BY DEF RenewMints
<1>2. PICK s \in Target(c, o, k) :
         Mint(c, s, "renewed",
              [table[s].lease EXCEPT !.exp = Later(@, now[c] + ttl)])
  BY <1>1
<1> DEFINE e == table[s].lease
           x == Later(e.exp, now[c] + ttl)
           l == [[e EXCEPT !.exp = x] EXCEPT !.rev = nextRev + 1]
<1>3. /\ s \in Slots /\ Matches(s, k) /\ e \in Leases /\ e.key = k
      /\ Entitled(c, o, s)
  BY TargetStep
<1>4. now[c] + ttl \in Nat /\ nextRev + 1 \in Nat /\ e.exp \in Nat
  BY <1>3, TtlAssumption
  DEF IInv, Types, TableTypes, CallTypes, Leases
<1>5. x \in Nat /\ e.exp <= x BY <1>4 DEF Later
<1>6. l \in Leases /\ SameTenure(l, e) /\ l.exp = x
  <2> HIDE DEF e, x
  <2> QED BY <1>3, <1>4, <1>5 DEF Leases, SameTenure
<1>7. e.owner = c
  <2>1. CASE o = "renewOwned"
    BY <1>3, <2>1 DEF Entitled, OwnerOps
  <2>2. CASE o = "renew"
    <3>1. e.id = handle[c][k].id BY <1>3, <2>2 DEF Entitled, IdOps
    <3>2. e \in Known BY <1>3 DEF Known, Matches
    <3>3. e.id # 0 BY <3>2 DEF IInv, KnownInv
    <3>4. handle[c][k] # NoLease BY <3>1, <3>3 DEF NoLease
    <3>5. handle[c][k] \in Known BY <3>4 DEF Known
    <3>6. SameTenure(e, handle[c][k])
      BY <3>1, <3>2, <3>5 DEF IInv, KnownInv
    <3> QED BY <3>4, <3>6 DEF SameTenure, IInv, OrdInv
  <2> QED BY <2>1, <2>2 DEF Renewing
<1>8. Mints(c, [kind |-> "renewed", slot |-> s, lease |-> l])
  BY <1>2 DEF Mints, Mint, RenewMints, InTable, histVars, fenceVars
<1>9. UNCHANGED <<table, nextLock>> BY DEF RenewMints
<1>10. l.key = k /\ l.owner = c BY <1>3, <1>6, <1>7 DEF SameTenure
<1> HIDE DEF e, l, x
<1> QED BY <1>3, <1>5, <1>6, <1>8, <1>9, <1>10 DEF e, Renews


\* A release mints the entry as it is.
LEMMA ReleaseStep ==
    ASSUME IInv, NEW c \in Clients, NEW k \in Keys, ReleaseMints(c, k)
    PROVE  \E s \in Slots, l \in Leases : GivesUp(c, k, s, l)
<1>1. PICK o \in Releasing : \E s \in Target(c, o, k) :
         Mint(c, s, "released", table[s].lease)
  BY DEF ReleaseMints
<1>2. PICK s \in Target(c, o, k) : Mint(c, s, "released", table[s].lease)
  BY <1>1
<1> DEFINE e == table[s].lease
           l == [e EXCEPT !.rev = nextRev + 1]
<1>3. s \in Slots /\ Matches(s, k) /\ e \in Leases /\ e.key = k
  BY TargetStep
<1>4. nextRev + 1 \in Nat /\ 0 \in Nat BY DEF IInv, Types, TableTypes
<1>5. l \in Leases /\ SameTenure(l, e)
  <2> HIDE DEF e
  <2> QED BY <1>3, <1>4 DEF Leases, SameTenure
<1>6. Mints(c, [kind |-> "released", slot |-> s, lease |-> l])
  BY <1>2 DEF Mints, Mint, ReleaseMints, InTable, histVars, fenceVars
<1>7. UNCHANGED <<table, nextLock>> BY DEF ReleaseMints
<1>8. l.key = k BY <1>3, <1>5 DEF SameTenure
<1> HIDE DEF e, l
<1> QED BY <1>3, <1>5, <1>6, <1>7, <1>8 DEF e, GivesUp

\* current and restore.
LEMMA RestoreStep ==
    ASSUME IInv, NEW c \in Clients, NEW k \in Keys, Restore(c, k)
    PROVE  \E s \in Slots : Restores(c, k, s)
<1>1. PICK s \in Target(c, "restore", k) :
         handle' = [handle EXCEPT ![c][k] = table[s].lease]
  BY DEF Restore
<1>2. /\ s \in Slots /\ Matches(s, k) /\ table[s].lease \in Leases
      /\ Entitled(c, "restore", s)
  BY TargetStep
<1>3. table[s].lease.owner = c BY <1>2 DEF Entitled, OwnerOps
<1>4. Restores(c, k, s)
  BY <1>1, <1>2, <1>3
  DEF Restores, Restore, InTable, Returns, tableVars, fenceVars, histVars
<1> QED BY <1>2, <1>4

\* The step of a client, in these terms.
Steps(c) ==
    \/ Call(c) \/ SweepsAndReturns(c)
    \/ \E k \in Keys, s \in Slots, l \in Leases : Acquires(c, k, s, l)
    \/ \E k \in Keys, s \in Slots, l \in Leases : Renews(c, k, s, l)
    \/ \E k \in Keys, s \in Slots, l \in Leases : GivesUp(c, k, s, l)
    \/ \E k \in Keys, s \in Slots : Restores(c, k, s)
    \/ Publish(c) \/ PublishFails(c) \/ StoreBegins(c) \/ StoreEnds(c)
    \/ Release(c) \/ Crash(c)
    \/ \E k \in Keys : Use(c, k)

\* Every action of a client has one of the effects above.
LEMMA ClientSteps ==
    ASSUME IInv, NEW c \in Clients, ClientStep(c)
    PROVE  Steps(c)
<1>1. ASSUME NEW k \in Keys,
             \/ AcquireOccupied(c, k) \/ AcquireFails(c, k)
             \/ FindsNothing(c, k)
      PROVE  Steps(c)
  BY <1>1, SweepStep DEF Steps
<1>2. ASSUME NEW k \in Keys, AcquireMints(c, k) PROVE Steps(c)
  BY <1>2, AcquireStep DEF Steps
<1>3. ASSUME NEW k \in Keys, RenewMints(c, k) PROVE Steps(c)
  BY <1>3, RenewStep DEF Steps
<1>4. ASSUME NEW k \in Keys, ReleaseMints(c, k) PROVE Steps(c)
  BY <1>4, ReleaseStep DEF Steps
<1>5. ASSUME NEW k \in Keys, Restore(c, k) PROVE Steps(c)
  BY <1>5, RestoreStep DEF Steps
<1> QED BY <1>1, <1>2, <1>3, <1>4, <1>5 DEF Steps, ClientStep

\* The transition a client inside the table has in hand.
LEMMA WorkTypes ==
    ASSUME IInv, NEW c \in Clients, pc[c] \in Busy
    PROVE  /\ work[c].kind \in {"acquired", "renewed", "released"}
           /\ work[c].slot \in Slots /\ work[c].lease \in Leases
           /\ work[c].lease.key \in Keys
           /\ work[c] # NoWork
           /\ lock = c /\ lock # NoOne
           /\ Fits(c, work[c])
           /\ \A d \in Clients : pc[d] \in Busy => d = c
<1>1. work[c] \in Works /\ work[c] # NoWork /\ lock = c
  BY DEF IInv, Types, CallTypes, CallInv
<1>2. work[c] \in [kind : {"acquired", "renewed", "released"},
                   slot : Slots, lease : Leases]
  BY <1>1 DEF Works
<1>3. \A d \in Clients : pc[d] \in Busy => d = c
  BY <1>1 DEF IInv, CallInv
<1>4. work[c].lease \in Leases BY <1>2
<1>5. work[c].lease.key \in Keys BY <1>4 DEF Leases
<1> QED BY <1>1, <1>2, <1>3, <1>5, NoOneAssumption DEF IInv, WorkInv

\* Nobody has one when the table is free.
LEMMA NobodyBusy ==
    ASSUME IInv, lock = NoOne, NEW c \in Clients
    PROVE  pc[c] \notin Busy
  BY NoOneAssumption DEF IInv, CallInv

-----------------------------------------------------------------------------
(***************************************************************************)
(* Types, and who is inside the table                                      *)
(***************************************************************************)

\* A record of the ring for the transition in hand.
LEMMA FrameTypes ==
    ASSUME IInv, NEW c \in Clients, pc[c] \in Busy
    PROVE  [kind |-> work[c].kind, id |-> work[c].lease.id,
            exp |-> work[c].lease.exp, rev |-> work[c].lease.rev] \in Events
<1>1. /\ work[c].kind \in {"acquired", "renewed", "released"}
      /\ work[c].lease \in Leases
  BY WorkTypes
<1>2. /\ work[c].lease.id \in Nat /\ work[c].lease.exp \in Nat
      /\ work[c].lease.rev \in Nat
  BY <1>1 DEF Leases
<1> QED BY <1>1, <1>2 DEF Events

\* A step keeps the types of the table, its counters and the clock.
LEMMA TableTypesStep ==
    ASSUME IInv, NEW c \in Clients, Steps(c)
    PROVE  TableTypes'
<1>1. /\ clock \in Nat /\ nextRev \in Nat /\ nextRev + 1 \in Nat
      /\ nextLock \in 0 .. CounterMax /\ table \in [Slots -> Cells]
      /\ Tombstone \in Cells
  BY DEF IInv, Types, TableTypes, Cells
<1>2. CASE Call(c)
  BY <1>1, <1>2 DEF TableTypes, Call, tableVars
<1>3. CASE SweepsAndReturns(c)
  BY <1>1, <1>3 DEF TableTypes, SweepsAndReturns, Sweeps
<1>4. ASSUME NEW k \in Keys, NEW s \in Slots, NEW l \in Leases,
             Acquires(c, k, s, l)
      PROVE  TableTypes'
  BY <1>1, <1>4 DEF TableTypes, Acquires, Sweeps, Mints
<1>5. ASSUME NEW k \in Keys, NEW s \in Slots, NEW l \in Leases,
             Renews(c, k, s, l) \/ GivesUp(c, k, s, l)
      PROVE  TableTypes'
  BY <1>1, <1>5 DEF TableTypes, Renews, GivesUp, Mints
<1>6. ASSUME NEW k \in Keys, NEW s \in Slots, Restores(c, k, s)
      PROVE  TableTypes'
  BY <1>1, <1>6 DEF TableTypes, Restores
<1>7. CASE Publish(c) \/ PublishFails(c) \/ Crash(c)
  BY <1>1, <1>7 DEF TableTypes, Publish, PublishFails, Crash, tableVars
<1>8. CASE StoreBegins(c)
  BY <1>1, <1>8 DEF TableTypes, StoreBegins
<1>9. CASE StoreEnds(c)
  <2>1. work[c].lease \in Leases BY <1>9, WorkTypes DEF StoreEnds, Busy
  <2>2. Occupied(work[c].lease) \in Cells BY <2>1 DEF Occupied, Cells
  <2> QED BY <1>1, <1>9, <2>2 DEF TableTypes, StoreEnds
<1>10. CASE Release(c)
  BY <1>1, <1>10 DEF TableTypes, Release, Frees
<1>11. ASSUME NEW k \in Keys, Use(c, k) PROVE TableTypes'
  BY <1>1, <1>11 DEF TableTypes, Use, tableVars
<1> QED
  BY <1>2, <1>3, <1>4, <1>5, <1>6, <1>7, <1>8, <1>9, <1>10, <1>11 DEF Steps

\* A step keeps the types of the calls in progress.
LEMMA CallTypesStep ==
    ASSUME IInv, NEW c \in Clients, Steps(c)
    PROVE  CallTypes'
<1>1. /\ lock \in Clients \cup {NoOne} /\ clock \in Nat /\ 0 \in Nat
      /\ pc \in [Clients -> {"idle", "table", "publish", "apply", "fill"}]
      /\ now \in [Clients -> Nat] /\ work \in [Clients -> Works]
      /\ NoWork \in Works
  BY DEF IInv, Types, CallTypes, TableTypes, Works
<1>2. CASE Call(c)
  BY <1>1, <1>2 DEF CallTypes, Call
<1>3. CASE SweepsAndReturns(c)
  BY <1>1, <1>3 DEF CallTypes, SweepsAndReturns
<1>4. ASSUME NEW w \in Works, Mints(c, w)
      PROVE  CallTypes'
  BY <1>1, <1>4 DEF CallTypes, Mints
<1>5. \A s \in Slots, l \in Leases :
         /\ [kind |-> "acquired", slot |-> s, lease |-> l] \in Works
         /\ [kind |-> "renewed", slot |-> s, lease |-> l] \in Works
         /\ [kind |-> "released", slot |-> s, lease |-> l] \in Works
  BY DEF Works
<1>6. ASSUME NEW k \in Keys, NEW s \in Slots, NEW l \in Leases,
             \/ Acquires(c, k, s, l)
             \/ Renews(c, k, s, l) \/ GivesUp(c, k, s, l)
      PROVE  CallTypes'
  <2> DEFINE W(kind) == [kind |-> kind, slot |-> s, lease |-> l]
  <2>1. W("acquired") \in Works /\ W("renewed") \in Works
          /\ W("released") \in Works
    BY <1>5
  <2>2. Mints(c, W("acquired")) \/ Mints(c, W("renewed"))
          \/ Mints(c, W("released"))
    BY <1>6 DEF Acquires, Renews, GivesUp
  <2> HIDE DEF W
  <2> QED BY <1>4, <2>1, <2>2
<1>7. ASSUME NEW k \in Keys, NEW s \in Slots, Restores(c, k, s)
      PROVE  CallTypes'
  BY <1>1, <1>7 DEF CallTypes, Restores
<1>8. CASE Publish(c)
  BY <1>1, <1>8 DEF CallTypes, Publish
<1>9. CASE PublishFails(c) \/ StoreEnds(c) \/ Release(c)
  <2>1. Returns(c) BY <1>9 DEF PublishFails, StoreEnds, Release
  <2> QED BY <1>1, <2>1 DEF CallTypes, Returns
<1>10. CASE StoreBegins(c)
  BY <1>1, <1>10 DEF CallTypes, StoreBegins
<1>11. CASE Crash(c)
  BY <1>1, <1>11 DEF CallTypes, Crash
<1>12. ASSUME NEW k \in Keys, Use(c, k) PROVE CallTypes'
  BY <1>1, <1>12 DEF CallTypes, Use, callVars
<1> QED
  BY <1>2, <1>3, <1>6, <1>7, <1>8, <1>9, <1>10, <1>11, <1>12 DEF Steps

\* A step keeps the types of the handles, the events and the fence.
LEMMA HistTypesStep ==
    ASSUME IInv, NEW c \in Clients, Steps(c)
    PROVE  HistTypes'
<1>1. /\ last \in [Keys -> Events]
      /\ handle \in [Clients -> [Keys -> Leases \cup {NoLease}]]
      /\ high \in [Keys -> Nat] /\ served \in [Keys -> Nat]
      /\ tenures \in [Keys -> Nat]
      /\ faults \in Nat /\ faults + 1 \in Nat
  BY DEF IInv, Types, HistTypes
<1>2. CASE Call(c)
  BY <1>1, <1>2 DEF HistTypes, Call, histVars, fenceVars
<1>3. CASE SweepsAndReturns(c)
  BY <1>1, <1>3 DEF HistTypes, SweepsAndReturns
<1>4. ASSUME NEW w, Mints(c, w)
      PROVE  HistTypes'
  BY <1>1, <1>4 DEF HistTypes, Mints
<1>5. ASSUME NEW k \in Keys, NEW s \in Slots, NEW l \in Leases,
             \/ Acquires(c, k, s, l)
             \/ Renews(c, k, s, l) \/ GivesUp(c, k, s, l)
      PROVE  HistTypes'
  BY <1>4, <1>5 DEF Acquires, Renews, GivesUp
<1>6. ASSUME NEW k \in Keys, NEW s \in Slots, Restores(c, k, s)
      PROVE  HistTypes'
  BY <1>1, <1>6 DEF HistTypes, Restores
<1>7. ASSUME pc[c] \in Busy, FrameWritten(c)
      PROVE  last' \in [Keys -> Events]
  BY <1>1, <1>7, FrameTypes DEF FrameWritten
<1>8. CASE Publish(c)
  <2>1. pc[c] \in Busy /\ FrameWritten(c) BY <1>8 DEF Publish, Busy
  <2> QED BY <1>1, <1>7, <1>8, <2>1 DEF HistTypes, Publish, histVars, fenceVars
<1>9. CASE PublishFails(c)
  <2>1. pc[c] \in Busy BY <1>9 DEF PublishFails, Busy
  <2>2. last' \in [Keys -> Events]
    BY <1>1, <1>7, <1>9, <2>1 DEF PublishFails
  <2> QED BY <1>1, <1>9, <2>2 DEF HistTypes, PublishFails, fenceVars
<1>10. CASE StoreBegins(c) \/ Release(c)
  BY <1>1, <1>10 DEF HistTypes, StoreBegins, Release, histVars, fenceVars
<1>11. CASE StoreEnds(c)
  <2>1. work[c].lease \in Leases /\ work[c].lease.key \in Keys
    BY <1>11, WorkTypes DEF StoreEnds, Busy
  <2>2. work[c].lease.ord \in Nat BY <2>1 DEF Leases
  <2>3. handle' \in [Clients -> [Keys -> Leases \cup {NoLease}]]
    BY <1>1, <1>11, <2>1 DEF StoreEnds
  <2>4. tenures' \in [Keys -> Nat]
    BY <1>1, <1>11, <2>1, <2>2 DEF StoreEnds
  <2> QED BY <1>1, <1>11, <2>3, <2>4 DEF HistTypes, StoreEnds, fenceVars
<1>12. CASE Crash(c)
  BY <1>1, <1>12 DEF HistTypes, Crash, fenceVars
<1>13. ASSUME NEW k \in Keys, Use(c, k) PROVE HistTypes'
  <2>1. handle[c][k] \in Leases BY <1>1, <1>13 DEF Use
  <2>2. handle[c][k].id \in Nat /\ handle[c][k].ord \in Nat
    BY <2>1 DEF Leases
  <2>3. Later(high[k], handle[c][k].id) \in Nat BY <1>1, <2>2 DEF Later
  <2> QED BY <1>1, <1>13, <2>2, <2>3 DEF HistTypes, Use, histVars
<1> QED
  BY <1>2, <1>3, <1>5, <1>6, <1>8, <1>9, <1>10, <1>11, <1>12, <1>13 DEF Steps

\* A step leaves the table with the client that holds its lock, and no
\* client with a time of its own that is ahead of the clock.
LEMMA CallInvStep ==
    ASSUME IInv, NEW c \in Clients, Steps(c)
    PROVE  CallInv'
<1>1. /\ pc \in [Clients -> {"idle", "table", "publish", "apply", "fill"}]
      /\ now \in [Clients -> Nat] /\ work \in [Clients -> Works]
      /\ clock \in Nat /\ NoOne \notin Clients
  BY NoOneAssumption DEF IInv, Types, CallTypes, TableTypes
<1>2. \A d \in Clients :
         /\ pc[d] \in Busy <=> lock = d
         /\ pc[d] \in Busy => work[d] # NoWork
         /\ pc[d] = "fill" => work[d].kind # "released"
         /\ now[d] <= clock
  BY DEF IInv, CallInv
<1>3. CASE Call(c)
  BY <1>1, <1>2, <1>3 DEF CallInv, Call, Busy
<1>4. CASE SweepsAndReturns(c)
  BY <1>1, <1>2, <1>4 DEF CallInv, SweepsAndReturns, Busy
<1>5. ASSUME NEW w, Mints(c, w), w # NoWork
      PROVE  CallInv'
  BY <1>1, <1>2, <1>5 DEF CallInv, Mints, Busy
<1>6. ASSUME NEW k \in Keys, NEW s \in Slots, NEW l \in Leases,
             \/ Acquires(c, k, s, l)
             \/ Renews(c, k, s, l) \/ GivesUp(c, k, s, l)
      PROVE  CallInv'
  <2> DEFINE W(kind) == [kind |-> kind, slot |-> s, lease |-> l]
  <2>1. W("acquired") # NoWork /\ W("renewed") # NoWork
          /\ W("released") # NoWork
    <3>1. W("acquired").kind = "acquired" /\ W("renewed").kind = "renewed"
            /\ W("released").kind = "released" /\ NoWork.kind = "none"
      BY DEF NoWork
    <3> QED BY <3>1
  <2>2. Mints(c, W("acquired")) \/ Mints(c, W("renewed"))
          \/ Mints(c, W("released"))
    BY <1>6 DEF Acquires, Renews, GivesUp
  <2> HIDE DEF W
  <2> QED BY <1>5, <2>1, <2>2
<1>7. ASSUME NEW k \in Keys, NEW s \in Slots, Restores(c, k, s)
      PROVE  CallInv'
  BY <1>1, <1>2, <1>7 DEF CallInv, Restores, Busy
<1>8. CASE Publish(c)
  BY <1>1, <1>2, <1>8 DEF CallInv, Publish, Busy
<1>9. CASE PublishFails(c) \/ StoreEnds(c) \/ Release(c)
  <2>1. Returns(c) /\ pc[c] \in Busy /\ clock' = clock
    BY <1>9 DEF PublishFails, StoreEnds, Release, Busy
  <2> QED BY <1>1, <1>2, <2>1 DEF CallInv, Returns, Busy
<1>10. CASE StoreBegins(c)
  BY <1>1, <1>2, <1>10 DEF CallInv, StoreBegins, Busy
<1>11. CASE Crash(c)
  BY <1>1, <1>2, <1>11 DEF CallInv, Crash, Busy
<1>12. ASSUME NEW k \in Keys, Use(c, k) PROVE CallInv'
  BY <1>1, <1>2, <1>12 DEF CallInv, Use, callVars, Busy
<1> QED
  BY <1>3, <1>4, <1>6, <1>7, <1>8, <1>9, <1>10, <1>11, <1>12 DEF Steps

-----------------------------------------------------------------------------
(***************************************************************************)
(* Entries and the way to them                                             *)
(***************************************************************************)

\* Nothing but StoreEnds writes an entry.
Shrinks ==
    \A s \in Slots : table'[s] = table[s] \/ table'[s] = Tombstone

\* Only the write of a new entry makes a table grow; every other step, the
\* sweep of expired entries included, leaves slots or tombstones them.
LEMMA ShrinkStep ==
    ASSUME IInv, NEW c \in Clients, Steps(c), ~StoreEnds(c)
    PROVE  Shrinks
<1>1. table \in [Slots -> Cells] BY DEF IInv, Types, TableTypes
<1>2. CASE UNCHANGED table
  BY <1>2 DEF Shrinks
<1>3. CASE SweepsAndReturns(c)
  BY <1>3 DEF Shrinks, SweepsAndReturns, Sweeps
<1>4. ASSUME NEW k \in Keys, NEW s \in Slots, NEW l \in Leases,
             Acquires(c, k, s, l)
      PROVE  Shrinks
  BY <1>4 DEF Shrinks, Acquires, Sweeps
<1>5. CASE StoreBegins(c)
  BY <1>1, <1>5 DEF Shrinks, StoreBegins
<1>6. CASE Release(c)
  BY <1>1, <1>6 DEF Shrinks, Release, Frees
<1> QED
  BY <1>2, <1>3, <1>4, <1>5, <1>6
  DEF Steps, Call, Renews, GivesUp, Restores, Publish, PublishFails, Crash,
      Use, tableVars

\* No slot becomes empty, so a way that is clear stays so.
LEMMA PathStays ==
    ASSUME \A s \in Slots : table'[s].state = "empty" =>
              table[s].state = "empty",
           NEW k \in Keys, NEW s \in Slots, PathClear(k, s)
    PROVE  PathClear(k, s)'
<1> SUFFICES ASSUME NEW o \in Offsets, ProbeIndex(k, o) = s,
                    NEW p \in 0 .. o - 1
             PROVE  ~(table'[ProbeIndex(k, p)].state = "empty")
  BY DEF PathClear, IsEmpty, ProbeIndex, Offsets
<1>1. p \in Offsets BY CapacityAssumption DEF Offsets
<1>2. ProbeIndex(k, p) \in Slots BY <1>1, ProbeSlot
<1>3. ~IsEmpty(ProbeIndex(k, p)) BY DEF PathClear
<1> QED BY <1>2, <1>3 DEF IsEmpty

\* A tombstone keeps the way to an entry clear.
LEMMA ShrinksPath ==
    ASSUME Shrinks, NEW k \in Keys, NEW s \in Slots, PathClear(k, s)
    PROVE  PathClear(k, s)'
<1>1. \A u \in Slots : table'[u].state = "empty" => table[u].state = "empty"
  BY DEF Shrinks, Tombstone
<1> QED BY <1>1, PathStays

\* An entry of a table that shrinks was there.
LEMMA ShrinksEntry ==
    ASSUME Shrinks, NEW s \in Slots, table'[s].state = "occupied"
    PROVE  table'[s] = table[s] /\ table[s].state = "occupied"
  BY DEF Shrinks, Tombstone

\* What StoreEnds leaves in the table.
LEMMA StoreEndsTable ==
    ASSUME IInv, NEW c \in Clients, StoreEnds(c)
    PROVE  /\ work[c].slot \in Slots /\ work[c].lease \in Leases
           /\ work[c].lease.key \in Keys
           /\ table[work[c].slot].state # "occupied"
           /\ \A u \in Slots : ~Matches(u, work[c].lease.key)
           /\ PathClear(work[c].lease.key, work[c].slot)
           /\ work[c].lease.owner = c
           /\ \/ work[c].lease.ord = tenures[work[c].lease.key]
              \/ work[c].lease.ord = tenures[work[c].lease.key] + 1
           /\ work[c].kind \in {"acquired", "renewed"}
           /\ table'[work[c].slot].state = "occupied"
           /\ table'[work[c].slot].lease = work[c].lease
           /\ \A u \in Slots : u # work[c].slot => table'[u] = table[u]
<1>1. pc[c] = "fill" /\ pc[c] \in Busy BY DEF StoreEnds, Busy
<1>2. /\ work[c].kind \in {"acquired", "renewed", "released"}
      /\ work[c].slot \in Slots /\ work[c].lease \in Leases
      /\ work[c].lease.key \in Keys
      /\ Fits(c, work[c])
  BY <1>1, WorkTypes
<1>3. work[c].kind # "released" BY <1>1 DEF IInv, CallInv
<1>4. /\ table[work[c].slot].state # "occupied"
      /\ Entries(work[c].lease.key) = {}
      /\ PathClear(work[c].lease.key, work[c].slot)
      /\ work[c].lease.owner = c
      /\ \/ work[c].lease.ord = tenures[work[c].lease.key]
         \/ work[c].lease.ord = tenures[work[c].lease.key] + 1
  BY <1>1, <1>2, <1>3 DEF Fits
<1>5. table \in [Slots -> Cells] BY DEF IInv, Types, TableTypes
<1>6. table'[work[c].slot] = Occupied(work[c].lease)
  BY <1>2, <1>5 DEF StoreEnds
<1>7. \A u \in Slots : u # work[c].slot => table'[u] = table[u]
  BY <1>2, <1>5 DEF StoreEnds
<1>8. \A u \in Slots : ~Matches(u, work[c].lease.key)
  BY <1>4 DEF Entries
<1> QED BY <1>2, <1>3, <1>4, <1>6, <1>7, <1>8 DEF Occupied

\* A step never gives a key a second entry or cuts the way to its entry.
LEMMA TableInvStep ==
    ASSUME IInv, NEW c \in Clients, Steps(c)
    PROVE  TableInv'
<1>1. TableInv BY DEF IInv
<1>2. CASE ~StoreEnds(c)
  <2>1. Shrinks BY <1>2, ShrinkStep
  <2>2. \A s \in Slots, k \in Keys : Matches(s, k)' => Matches(s, k)
    BY <2>1, ShrinksEntry DEF Matches
  <2>3. \A s \in Slots, k \in Keys : PathClear(k, s) => PathClear(k, s)'
    BY <2>1, ShrinksPath
  <2>4. \A s, u \in Slots : \A k \in Keys :
           Matches(s, k)' /\ Matches(u, k)' => s = u
    BY <1>1, <2>2 DEF TableInv
  <2>5. \A s \in Slots : \A k \in Keys : Matches(s, k)' => PathClear(k, s)'
    BY <1>1, <2>2, <2>3 DEF TableInv
  <2> QED BY <2>4, <2>5 DEF TableInv, Slots
<1>3. CASE StoreEnds(c)
  <2> DEFINE z == work[c].slot
             q == work[c].lease.key
  <2>1. /\ z \in Slots /\ q \in Keys
        /\ table[z].state # "occupied"
        /\ \A u \in Slots : ~Matches(u, q)
        /\ PathClear(q, z)
        /\ table'[z].state = "occupied" /\ table'[z].lease.key = q
        /\ \A u \in Slots : u # z => table'[u] = table[u]
    BY <1>3, StoreEndsTable
  <2> HIDE DEF z, q
  <2>2. \A s \in Slots, k \in Keys :
           Matches(s, k)' => \/ s = z /\ k = q
                             \/ s # z /\ k # q /\ Matches(s, k)
    BY <2>1 DEF Matches
  <2>3. \A s \in Slots, k \in Keys : PathClear(k, s) => PathClear(k, s)'
    BY <2>1, PathStays
  <2>4. \A s, u \in Slots : \A k \in Keys :
           Matches(s, k)' /\ Matches(u, k)' => s = u
    BY <1>1, <2>2 DEF TableInv
  <2>5. \A s \in Slots : \A k \in Keys : Matches(s, k)' => PathClear(k, s)'
    BY <1>1, <2>1, <2>2, <2>3 DEF TableInv
  <2> QED BY <2>4, <2>5 DEF TableInv, Slots
<1> QED BY <1>2, <1>3

-----------------------------------------------------------------------------
(***************************************************************************)
(* The transition in hand                                                  *)
(***************************************************************************)

\* What nobody touches still fits.
LEMMA FitsStill ==
    ASSUME IInv, NEW d \in Clients, pc[d] \in Busy,
           UNCHANGED <<table, nextLock, tenures>>,
           work'[d] = work[d], pc'[d] = pc[d]
    PROVE  Fits(d, work[d])'
<1>1. Fits(d, work[d]) BY WorkTypes
<1> QED
  BY <1>1 DEF Fits, PathClear, Entries, Matches, SameTenure, IsEmpty, Slots,
     ProbeIndex, Offsets

\* Nobody is inside the table after a return.
LEMMA Vacant ==
    ASSUME CallInv', lock' = NoOne
    PROVE  WorkInv'
  BY NoOneAssumption DEF CallInv, WorkInv

\* The client that mints is alone inside.
LEMMA OnlyInside ==
    ASSUME IInv, NEW c \in Clients, NEW w, CallInv', lock' = c,
           work' = [work EXCEPT ![c] = w], Fits(c, w)'
    PROVE  WorkInv'
<1>1. work'[c] = w BY DEF IInv, Types, CallTypes
<1>2. \A d \in Clients : pc'[d] \in Busy => d = c
  BY NoOneAssumption DEF CallInv
<1> QED BY <1>1, <1>2 DEF WorkInv, Fits

\* A step keeps what is about to be written fit for the table: nobody else
\* changes the table in between.
LEMMA WorkInvStep ==
    ASSUME IInv, NEW c \in Clients, Steps(c), CallInv'
    PROVE  WorkInv'
<1>1. /\ pc \in [Clients -> {"idle", "table", "publish", "apply", "fill"}]
      /\ work \in [Clients -> Works] /\ table \in [Slots -> Cells]
  BY DEF IInv, Types, CallTypes, TableTypes
<1>2. ASSUME UNCHANGED <<table, nextLock, tenures, work>>,
             \A d \in Clients : pc'[d] \in Busy => pc'[d] = pc[d]
      PROVE  WorkInv'
  <2> SUFFICES ASSUME NEW d \in Clients, pc'[d] \in Busy
               PROVE  Fits(d, work[d])'
    BY DEF WorkInv
  <2> QED BY <1>2, FitsStill
<1>3. CASE Call(c)
  BY <1>1, <1>2, <1>3 DEF Call, tableVars, histVars, Busy
<1>4. CASE SweepsAndReturns(c)
  BY <1>4, Vacant DEF SweepsAndReturns
<1>5. ASSUME NEW k \in Keys, NEW s \in Slots, NEW l \in Leases,
             Acquires(c, k, s, l)
      PROVE  WorkInv'
  <2> DEFINE w == [kind |-> "acquired", slot |-> s, lease |-> l]
  <2>1. Shrinks BY <1>5 DEF Shrinks, Acquires, Sweeps
  <2>2. PathClear(k, s)' BY <1>5, <2>1, ShrinksPath DEF Acquires
  <2>3. \A u \in Slots : ~Matches(u, k)'
    BY <1>5 DEF Acquires, Matches
  <2>4. Entries(k)' = {} BY <2>3 DEF Entries, Slots
  <2>5. /\ Mints(c, w) /\ l.key = k /\ l.owner = c /\ l.id = nextLock'
        /\ l.ord = tenures'[k] + 1 /\ table'[s].state # "occupied"
    BY <1>5 DEF Acquires, Mints
  <2>6. w.kind = "acquired" /\ w.slot = s /\ w.lease = l OBVIOUS
  <2> HIDE DEF w
  <2>7. Fits(c, w)' BY <2>2, <2>4, <2>5, <2>6 DEF Fits
  <2> QED BY <2>5, <2>7, OnlyInside DEF Mints
<1>6. ASSUME NEW k \in Keys, NEW s \in Slots, NEW l \in Leases,
             Renews(c, k, s, l)
      PROVE  WorkInv'
  <2> DEFINE w == [kind |-> "renewed", slot |-> s, lease |-> l]
  <2>1. PathClear(k, s) /\ Matches(s, k)
    BY <1>6 DEF IInv, TableInv, Renews
  <2>2. Shrinks BY <1>6 DEF Shrinks, Renews
  <2>3. PathClear(k, s)' BY <2>1, <2>2, ShrinksPath
  <2>4. table[s].lease.ord = tenures[k]
    BY <2>1 DEF IInv, OrdInv, Matches
  <2>5. /\ Mints(c, w) /\ l.key = k /\ l.owner = c
        /\ l.ord = tenures'[k] /\ Matches(s, k)'
        /\ SameTenure(l, table'[s].lease) /\ table'[s].lease.exp <= l.exp
    BY <1>6, <2>4 DEF Renews, Mints, SameTenure, Matches
  <2>6. pc'[c] = "publish" BY <1>1, <2>5 DEF Mints
  <2>7. w.kind = "renewed" /\ w.slot = s /\ w.lease = l OBVIOUS
  <2> HIDE DEF w
  <2>8. Fits(c, w)'
    BY <2>3, <2>5, <2>6, <2>7 DEF Fits, SameTenure
  <2> QED BY <2>5, <2>8, OnlyInside DEF Mints
<1>7. ASSUME NEW k \in Keys, NEW s \in Slots, NEW l \in Leases,
             GivesUp(c, k, s, l)
      PROVE  WorkInv'
  <2> DEFINE w == [kind |-> "released", slot |-> s, lease |-> l]
  <2>1. PathClear(k, s) /\ Matches(s, k)
    BY <1>7 DEF IInv, TableInv, GivesUp
  <2>2. Shrinks BY <1>7 DEF Shrinks, GivesUp
  <2>3. PathClear(k, s)' BY <2>1, <2>2, ShrinksPath
  <2>4. /\ Mints(c, w) /\ l.key = k /\ Matches(s, k)'
        /\ SameTenure(l, table'[s].lease)
    BY <1>7 DEF GivesUp, Mints, SameTenure, Matches
  <2>5. w.kind = "released" /\ w.slot = s /\ w.lease = l OBVIOUS
  <2> HIDE DEF w
  <2>6. Fits(c, w)'
    BY <2>3, <2>4, <2>5 DEF Fits, SameTenure
  <2> QED BY <2>4, <2>6, OnlyInside DEF Mints
<1>8. ASSUME NEW k \in Keys, NEW s \in Slots, Restores(c, k, s)
      PROVE  WorkInv'
  BY <1>8, Vacant DEF Restores
<1>9. CASE Publish(c)
  <2> SUFFICES ASSUME NEW d \in Clients, pc'[d] \in Busy
               PROVE  Fits(d, work[d])'
    BY <1>9 DEF WorkInv, Publish
  <2>1. UNCHANGED <<table, nextLock, tenures, work>>
    BY <1>9 DEF Publish, tableVars, histVars
  <2>2. CASE d # c
    <3>1. pc'[d] = pc[d] BY <1>1, <1>9, <2>2 DEF Publish
    <3> QED BY <2>1, <3>1, FitsStill
  <2>3. CASE d = c
    <3>1. pc[d] \in Busy /\ pc[d] # "fill" /\ pc'[d] # "fill"
      BY <1>1, <1>9, <2>3 DEF Publish, Busy
    <3>2. Fits(d, work[d]) BY <3>1, WorkTypes
    <3> QED
      BY <2>1, <3>1, <3>2 DEF Fits, PathClear, Entries, Matches, SameTenure,
         IsEmpty, Slots, ProbeIndex, Offsets
  <2> QED BY <2>2, <2>3
<1>10. CASE PublishFails(c) \/ StoreEnds(c) \/ Release(c)
  BY <1>10, Vacant DEF PublishFails, StoreEnds, Release, Returns
<1>11. CASE StoreBegins(c)
  <2>1. /\ pc[c] \in Busy /\ pc[c] # "fill" /\ pc'[c] = "fill"
        /\ work[c].kind # "released"
    BY <1>1, <1>11 DEF StoreBegins, Busy
  <2>2. /\ work[c].kind \in {"acquired", "renewed", "released"}
        /\ work[c].slot \in Slots
        /\ work[c].lease.key \in Keys /\ Fits(c, work[c])
        /\ \A d \in Clients : pc[d] \in Busy => d = c
    BY <2>1, WorkTypes
  <2>3. PICK z \in Slots, q \in Keys :
           z = work[c].slot /\ q = work[c].lease.key
    BY <2>2
  <2>4. Shrinks /\ table'[z] = Tombstone
    BY <1>1, <1>11, <2>2, <2>3 DEF Shrinks, StoreBegins
  <2>5. PathClear(q, z) BY <2>2, <2>3 DEF Fits
  <2>6. PathClear(q, z)' BY <2>4, <2>5, ShrinksPath
  <2>7. \A u \in Slots : ~Matches(u, q)'
    <3> SUFFICES ASSUME NEW u \in Slots, Matches(u, q)' PROVE FALSE
      OBVIOUS
    <3>1. Matches(u, q) /\ u # z
      BY <2>4, ShrinksEntry DEF Matches, Tombstone
    <3>2. CASE work[c].kind = "acquired"
      BY <2>2, <2>3, <3>1, <3>2 DEF Fits, Entries
    <3>3. CASE work[c].kind = "renewed"
      <4>1. Matches(z, q) BY <2>1, <2>2, <2>3, <3>3 DEF Fits
      <4> QED BY <3>1, <4>1 DEF IInv, TableInv
    <3> QED BY <2>1, <2>2, <3>2, <3>3
  <2>8. Entries(q)' = {}
    BY <2>7 DEF Entries, Slots
  <2>9. work' = work /\ nextLock' = nextLock /\ tenures' = tenures
    BY <1>11 DEF StoreBegins, histVars
  <2>10. Fits(c, work[c])'
    BY <2>1, <2>2, <2>3, <2>4, <2>6, <2>8, <2>9 DEF Fits, Tombstone
  <2>11. \A d \in Clients : pc'[d] \in Busy => d = c
    BY <1>1, <1>11, <2>2 DEF StoreBegins
  <2> QED BY <2>10, <2>11 DEF WorkInv
<1>12. CASE Crash(c)
  <2> SUFFICES ASSUME NEW d \in Clients, pc'[d] \in Busy
               PROVE  Fits(d, work[d])'
    BY DEF WorkInv
  <2>1. UNCHANGED <<table, nextLock, tenures>>
    BY <1>12 DEF Crash, tableVars
  <2>2. d # c BY <1>1, <1>12 DEF Crash, Busy
  <2>3. pc'[d] = pc[d] /\ work'[d] = work[d]
    BY <1>1, <1>12, <2>2 DEF Crash
  <2> QED BY <2>1, <2>3, FitsStill
<1>13. ASSUME NEW k \in Keys, Use(c, k) PROVE WorkInv'
  BY <1>2, <1>13 DEF Use, tableVars, callVars, histVars
<1> QED
  BY <1>3, <1>4, <1>5, <1>6, <1>7, <1>8, <1>9, <1>10, <1>11, <1>12, <1>13
  DEF Steps

-----------------------------------------------------------------------------
(***************************************************************************)
(* Tenures and their ids                                                   *)
(***************************************************************************)

\* Lease a is of a tenure somebody knew of before the step.
OfOld(a) == \E b \in Known : SameTenure(a, b)

\* Where the leases are that somebody knows of.
LEMMA KnownIn ==
    /\ \A s \in Slots : table[s].state = "occupied" => table[s].lease \in Known
    /\ \A d \in Clients, k \in Keys :
          handle[d][k] # NoLease => handle[d][k] \in Known
    /\ \A d \in Clients : pc[d] \in Busy => work[d].lease \in Known
  BY DEF Known

\* Where a lease that is seen after a step comes from.
LEMMA KnownNext ==
    ASSUME NEW a \in Known'
    PROVE  \/ \E s \in Slots : table'[s].state = "occupied"
                                 /\ a = table'[s].lease
           \/ \E d \in Clients, k \in Keys : handle'[d][k] # NoLease
                                               /\ a = handle'[d][k]
           \/ \E d \in Clients : pc'[d] \in Busy /\ a = work'[d].lease
  BY DEF Known, Slots, Busy, NoLease

\* A lease is of the tenure it is of.
LEMMA SameItself ==
    ASSUME NEW a
    PROVE  SameTenure(a, a)
  BY DEF SameTenure

\* A step that mints no tenure shows leases of known tenures only.
LEMMA Derived ==
    ASSUME \A s \in Slots : table'[s].state = "occupied" =>
              OfOld(table'[s].lease),
           \A d \in Clients, k \in Keys : handle'[d][k] # NoLease =>
              OfOld(handle'[d][k]),
           \A d \in Clients : pc'[d] \in Busy => OfOld(work'[d].lease)
    PROVE  \A a \in Known' : OfOld(a)
<1> TAKE a \in Known'
<1> HIDE DEF OfOld
<1> QED BY KnownNext

\* Nothing of the kind changes where nothing is written.
LEMMA OldLeases ==
    /\ \A s \in Slots : table[s].state = "occupied" => OfOld(table[s].lease)
    /\ \A d \in Clients, k \in Keys : handle[d][k] # NoLease =>
          OfOld(handle[d][k])
    /\ \A d \in Clients : pc[d] \in Busy => OfOld(work[d].lease)
  BY KnownIn, SameItself DEF OfOld

\* A step that acquires nothing shows no tenure that was not known, and
\* takes no id.
LEMMA KnownStep ==
    ASSUME IInv, NEW c \in Clients, Steps(c), CallInv',
           \A k \in Keys, s \in Slots, l \in Leases : ~Acquires(c, k, s, l)
    PROVE  (\A a \in Known' : OfOld(a)) /\ nextLock' = nextLock
<1> USE DEF Busy
<1>1. /\ pc \in [Clients -> {"idle", "table", "publish", "apply", "fill"}]
      /\ work \in [Clients -> Works] /\ table \in [Slots -> Cells]
      /\ handle \in [Clients -> [Keys -> Leases \cup {NoLease}]]
  BY DEF IInv, Types, CallTypes, TableTypes, HistTypes
<1>2. ASSUME Shrinks, handle' = handle,
             \A d \in Clients : pc'[d] \in Busy =>
                pc[d] \in Busy /\ work'[d] = work[d]
      PROVE  \A a \in Known' : OfOld(a)
  <2>1. \A s \in Slots : table'[s].state = "occupied" =>
           OfOld(table'[s].lease)
    BY <1>2, OldLeases, ShrinksEntry
  <2>2. \A d \in Clients : pc'[d] \in Busy => OfOld(work'[d].lease)
    BY <1>2, OldLeases
  <2> QED BY <1>2, <2>1, <2>2, OldLeases, Derived
<1>3. CASE Call(c)
  <2>1. Shrinks BY <1>3 DEF Shrinks, Call, tableVars
  <2> QED BY <1>1, <1>2, <1>3, <2>1 DEF Call, tableVars
<1>4. CASE SweepsAndReturns(c)
  <2>1. Shrinks BY <1>4 DEF Shrinks, SweepsAndReturns, Sweeps
  <2>2. \A d \in Clients : pc'[d] \in Busy =>
           pc[d] \in Busy /\ work'[d] = work[d]
    BY <1>1, <1>4 DEF SweepsAndReturns
  <2> QED BY <1>2, <1>4, <2>1, <2>2 DEF SweepsAndReturns
<1>5. ASSUME NEW k \in Keys, NEW s \in Slots, NEW l \in Leases,
             Renews(c, k, s, l) \/ GivesUp(c, k, s, l)
      PROVE  (\A a \in Known' : OfOld(a)) /\ nextLock' = nextLock
  <2>1. /\ UNCHANGED <<table, nextLock, handle>> /\ lock' = c
        /\ Matches(s, k) /\ SameTenure(l, table[s].lease)
    BY <1>5 DEF Renews, GivesUp, Mints
  <2>2. work'[c].lease = l
    BY <1>1, <1>5 DEF Renews, GivesUp, Mints
  <2>3. OfOld(l) BY <2>1, KnownIn DEF OfOld, Matches
  <2>4. \A d \in Clients : pc'[d] \in Busy => d = c
    BY <2>1, NoOneAssumption DEF CallInv
  <2>5. \A d \in Clients : pc'[d] \in Busy => OfOld(work'[d].lease)
    BY <2>2, <2>3, <2>4
  <2> QED BY <2>1, <2>5, OldLeases, Derived
<1>6. ASSUME NEW k \in Keys, NEW s \in Slots, Restores(c, k, s)
      PROVE  (\A a \in Known' : OfOld(a)) /\ nextLock' = nextLock
  <2>1. UNCHANGED <<table, nextLock>> /\ lock' = NoOne /\ Matches(s, k)
    BY <1>6 DEF Restores
  <2>2. \A d \in Clients, q \in Keys :
           handle'[d][q] = handle[d][q] \/ handle'[d][q] = table[s].lease
    BY <1>1, <1>6 DEF Restores
  <2>3. \A d \in Clients, q \in Keys : handle'[d][q] # NoLease =>
           OfOld(handle'[d][q])
    BY <2>1, <2>2, OldLeases DEF Matches
  <2>4. \A d \in Clients : pc'[d] \notin Busy
    BY <2>1, NoOneAssumption DEF CallInv
  <2> QED BY <2>1, <2>3, <2>4, OldLeases, Derived
<1>7. CASE Publish(c)
  <2>1. Shrinks BY <1>7 DEF Shrinks, Publish, tableVars
  <2>2. \A d \in Clients : pc'[d] \in Busy =>
           pc[d] \in Busy /\ work'[d] = work[d]
    BY <1>1, <1>7 DEF Publish
  <2> QED BY <1>2, <1>7, <2>1, <2>2 DEF Publish, tableVars
<1>8. CASE PublishFails(c) \/ Release(c)
  <2>1. Shrinks
    BY <1>1, <1>8 DEF Shrinks, PublishFails, Release, Frees, tableVars
  <2>2. \A d \in Clients : pc'[d] \in Busy =>
           pc[d] \in Busy /\ work'[d] = work[d]
    BY <1>1, <1>8 DEF PublishFails, Release, Returns
  <2> QED BY <1>2, <1>8, <2>1, <2>2 DEF PublishFails, Release, tableVars
<1>9. CASE StoreBegins(c)
  <2>1. Shrinks BY <1>1, <1>9 DEF Shrinks, StoreBegins
  <2>2. \A d \in Clients : pc'[d] \in Busy =>
           pc[d] \in Busy /\ work'[d] = work[d]
    BY <1>1, <1>9 DEF StoreBegins
  <2> QED BY <1>2, <1>9, <2>1, <2>2 DEF StoreBegins
<1>10. CASE StoreEnds(c)
  <2>1. /\ pc[c] \in Busy /\ nextLock' = nextLock /\ lock' = NoOne
        /\ handle' = [handle EXCEPT ![c][work[c].lease.key] = work[c].lease]
    BY <1>10 DEF StoreEnds, Returns
  <2>2. OfOld(work[c].lease) BY <2>1, OldLeases
  <2>3. \A u \in Slots : \/ table'[u] = table[u]
                         \/ table'[u].lease = work[c].lease
    BY <1>10, StoreEndsTable
  <2>4. \A s \in Slots : table'[s].state = "occupied" =>
           OfOld(table'[s].lease)
    BY <2>2, <2>3, OldLeases
  <2>5. \A d \in Clients, q \in Keys :
           handle'[d][q] = handle[d][q] \/ handle'[d][q] = work[c].lease
    BY <1>1, <2>1
  <2>6. \A d \in Clients, q \in Keys : handle'[d][q] # NoLease =>
           OfOld(handle'[d][q])
    BY <2>2, <2>5, OldLeases
  <2>7. \A d \in Clients : pc'[d] \notin Busy
    BY <2>1, NoOneAssumption DEF CallInv
  <2> QED BY <2>1, <2>4, <2>6, <2>7, Derived
<1>11. CASE Crash(c)
  <2>1. UNCHANGED <<table, nextLock>> BY <1>11 DEF Crash, tableVars
  <2>2. \A d \in Clients : pc'[d] \in Busy =>
           pc[d] \in Busy /\ work'[d] = work[d]
    BY <1>1, <1>11 DEF Crash
  <2>3. \A d \in Clients, q \in Keys :
           handle'[d][q] = handle[d][q] \/ handle'[d][q] = NoLease
    BY <1>1, <1>11 DEF Crash
  <2>4. \A d \in Clients, q \in Keys : handle'[d][q] # NoLease =>
           OfOld(handle'[d][q])
    BY <2>3, OldLeases
  <2>5. \A d \in Clients : pc'[d] \in Busy => OfOld(work'[d].lease)
    BY <2>2, OldLeases
  <2> QED BY <2>1, <2>4, <2>5, OldLeases, Derived
<1>12. ASSUME NEW k \in Keys, Use(c, k)
       PROVE  (\A a \in Known' : OfOld(a)) /\ nextLock' = nextLock
  <2>1. Shrinks BY <1>12 DEF Shrinks, Use, tableVars
  <2> QED BY <1>2, <1>12, <2>1 DEF Use, tableVars, callVars
<1> QED
  BY <1>3, <1>4, <1>5, <1>6, <1>7, <1>8, <1>9, <1>10, <1>11, <1>12 DEF Steps

\* A tenure that acquire mints is the only new one.
LEMMA KnownAcquired ==
    ASSUME IInv, NEW c \in Clients, NEW k \in Keys, NEW s \in Slots,
           NEW l \in Leases, Acquires(c, k, s, l), CallInv'
    PROVE  /\ \A a \in Known' : OfOld(a) \/ a = l
           /\ \A b \in Known : b.ord <= tenures[b.key]
<1>1. work \in [Clients -> Works] /\ lock = NoOne /\ handle' = handle
  BY DEF IInv, Types, CallTypes, Acquires, Mints
<1>2. Shrinks BY DEF Shrinks, Acquires, Sweeps
<1>3. work'[c].lease = l /\ lock' = c BY <1>1 DEF Acquires, Mints
<1>4. \A d \in Clients : pc'[d] \in Busy => d = c
  BY <1>3, NoOneAssumption DEF CallInv
<1>5. \A a \in Known' : OfOld(a) \/ a = l
  <2> TAKE a \in Known'
  <2>1. CASE \E u \in Slots : table'[u].state = "occupied"
                                /\ a = table'[u].lease
    BY <1>2, <2>1, OldLeases, ShrinksEntry
  <2>2. CASE \E d \in Clients, q \in Keys : handle'[d][q] # NoLease
                                              /\ a = handle'[d][q]
    BY <1>1, <2>2, OldLeases
  <2>3. CASE \E d \in Clients : pc'[d] \in Busy /\ a = work'[d].lease
    BY <1>3, <1>4, <2>3
  <2> QED BY <2>1, <2>2, <2>3, KnownNext
<1>6. \A b \in Known : b.ord <= tenures[b.key]
  <2> TAKE b \in Known
  <2>1. \A d \in Clients : pc[d] \notin Busy BY <1>1, NobodyBusy
  <2>2. CASE \E u \in Slots : table[u].state = "occupied"
                                /\ b = table[u].lease
    <3>1. PICK u \in Slots : table[u].state = "occupied" /\ b = table[u].lease
      BY <2>2
    <3>2. b.ord = tenures[b.key] BY <3>1 DEF IInv, OrdInv
    <3>3. b \in Leases BY <3>1, EntryTypes DEF IInv
    <3>4. b.ord \in Nat BY <3>3 DEF Leases
    <3> QED BY <3>2, <3>4
  <2>3. CASE \E d \in Clients, q \in Keys : handle[d][q] # NoLease
                                              /\ b = handle[d][q]
    BY <2>3 DEF IInv, OrdInv
  <2> QED BY <2>1, <2>2, <2>3 DEF Known
<1> QED BY <1>5, <1>6

\* Known leases are leases.
LEMMA KnownLeases ==
    ASSUME IInv
    PROVE  Known \subseteq Leases
<1> SUFFICES ASSUME NEW a \in Known PROVE a \in Leases
  OBVIOUS
<1>1. CASE \E s \in Slots : table[s].state = "occupied" /\ a = table[s].lease
  BY <1>1, EntryTypes DEF IInv
<1>2. CASE \E d \in Clients, k \in Keys : handle[d][k] # NoLease
                                            /\ a = handle[d][k]
  BY <1>2 DEF IInv, Types, HistTypes
<1>3. CASE \E d \in Clients : pc[d] \in Busy /\ a = work[d].lease
  BY <1>3, WorkTypes
<1> QED BY <1>1, <1>2, <1>3 DEF Known

\* A step keeps ids names of single tenures, in the order of the tenures.
LEMMA KnownInvStep ==
    ASSUME IInv, NEW c \in Clients, Steps(c), CallInv'
    PROVE  KnownInv'
<1>1. nextLock \in Nat BY BoundAssumption DEF IInv, Types, TableTypes
<1>2. \A b \in Known : /\ b.id \in 1 .. nextLock /\ b.id \in Nat
                       /\ b.ord \in Nat
  BY KnownLeases DEF IInv, KnownInv, Leases
<1>3. \A a, b \in Known :
          /\ a.id = b.id => SameTenure(a, b)
          /\ a.key = b.key /\ a.id < b.id => a.ord < b.ord
  BY DEF IInv, KnownInv
<1>4. ASSUME NEW a, NEW b, OfOld(a), OfOld(b)
      PROVE  /\ a.id \in 1 .. nextLock
             /\ a.id = b.id => SameTenure(a, b)
             /\ a.key = b.key /\ a.id < b.id => a.ord < b.ord
  <2>1. PICK x \in Known : SameTenure(a, x) BY <1>4 DEF OfOld
  <2>2. PICK y \in Known : SameTenure(b, y) BY <1>4 DEF OfOld
  <2> QED BY <1>2, <1>3, <2>1, <2>2 DEF SameTenure
<1>5. CASE \A k \in Keys, s \in Slots, l \in Leases : ~Acquires(c, k, s, l)
  <2>1. (\A a \in Known' : OfOld(a)) /\ nextLock' = nextLock
    BY <1>5, KnownStep
  <2> HIDE DEF OfOld
  <2>2. \A a \in Known' : a.id \in 1 .. nextLock' BY <1>4, <2>1
  <2>3. \A a, b \in Known' :
          /\ a.id = b.id => SameTenure(a, b)
          /\ a.key = b.key /\ a.id < b.id => a.ord < b.ord
    BY <1>4, <2>1
  <2> QED BY <2>2, <2>3 DEF KnownInv, SameTenure
<1>6. ASSUME NEW k \in Keys, NEW s \in Slots, NEW l \in Leases,
             Acquires(c, k, s, l)
      PROVE  KnownInv'
  <2>1. /\ \A a \in Known' : OfOld(a) \/ a = l
        /\ \A b \in Known : b.ord <= tenures[b.key]
    BY <1>6, KnownAcquired
  <2>2. /\ l.id = nextLock + 1 /\ l.key = k /\ l.ord = tenures[k] + 1
        /\ nextLock' = nextLock + 1
    BY <1>6 DEF Acquires
  <2>3. tenures[k] \in Nat BY DEF IInv, Types, HistTypes
  <2>4. ASSUME NEW a, OfOld(a)
        PROVE  /\ a.id \in 1 .. nextLock /\ a.id < l.id
               /\ a.key = l.key => a.ord < l.ord
    <3>1. PICK x \in Known : SameTenure(a, x) BY <2>4 DEF OfOld
    <3>2. a.id = x.id /\ a.key = x.key /\ a.ord = x.ord
      BY <3>1 DEF SameTenure
    <3>3. x.ord \in Nat /\ x.ord <= tenures[x.key] /\ x.id \in 1 .. nextLock
      BY <1>2, <2>1
    <3>4. a.id \in 1 .. nextLock /\ a.id < l.id
      BY <1>1, <2>2, <3>2, <3>3
    <3> QED BY <2>2, <2>3, <3>2, <3>3, <3>4
  <2> HIDE DEF OfOld
  <2>5. \A a \in Known' : a.id \in 1 .. nextLock'
    BY <1>1, <2>1, <2>2, <2>4
  <2>6. ASSUME NEW a \in Known', NEW b \in Known'
        PROVE  /\ a.id = b.id => SameTenure(a, b)
               /\ a.key = b.key /\ a.id < b.id => a.ord < b.ord
    <3>1. CASE OfOld(a) /\ OfOld(b) BY <1>4, <3>1
    <3>2. CASE OfOld(a) /\ b = l
      <4>1. a.id \in Nat /\ b.id \in Nat BY <1>1, <2>2, <2>4, <3>2
      <4> QED BY <2>4, <3>2, <4>1
    <3>3. CASE a = l /\ OfOld(b)
      <4>1. a.id \in Nat /\ b.id \in Nat BY <1>1, <2>2, <2>4, <3>3
      <4> QED BY <2>4, <3>3, <4>1
    <3>4. CASE a = l /\ b = l
      <4>1. a.id \in Nat BY <1>1, <2>2, <3>4
      <4> QED BY <3>4, <4>1 DEF SameTenure
    <3> QED BY <2>1, <3>1, <3>2, <3>3, <3>4
  <2> QED BY <2>5, <2>6 DEF KnownInv, SameTenure
<1> QED BY <1>5, <1>6

\* What a step does to the number of tenures.
LEMMA TenuresStep ==
    ASSUME IInv, NEW c \in Clients, Steps(c), ~StoreEnds(c)
    PROVE  tenures' = tenures
  BY DEF Steps, Call, SweepsAndReturns, Acquires, Renews, GivesUp, Mints,
     Restores, Publish, PublishFails, StoreBegins, Release, Crash, Use,
     histVars

\* A step keeps the entry of a key its latest tenure and a handle its
\* client's own.
LEMMA OrdInvStep ==
    ASSUME IInv, NEW c \in Clients, Steps(c)
    PROVE  OrdInv'
<1>1. /\ handle \in [Clients -> [Keys -> Leases \cup {NoLease}]]
      /\ tenures \in [Keys -> Nat]
  BY DEF IInv, Types, HistTypes
<1>2. /\ \A s \in Slots : table[s].state = "occupied" =>
            table[s].lease.ord = tenures[table[s].lease.key]
      /\ \A d \in Clients, k \in Keys : handle[d][k] # NoLease =>
            /\ handle[d][k].key = k /\ handle[d][k].owner = d
            /\ handle[d][k].ord <= tenures[k]
  BY DEF IInv, OrdInv
<1>3. CASE ~StoreEnds(c)
  <2>1. Shrinks /\ tenures' = tenures BY <1>3, ShrinkStep, TenuresStep
  <2>2. \A s \in Slots : table'[s].state = "occupied" =>
           table'[s].lease.ord = tenures'[table'[s].lease.key]
    BY <1>2, <2>1, ShrinksEntry
  <2>3. ASSUME NEW k \in Keys, NEW s \in Slots, Restores(c, k, s)
        PROVE  \A d \in Clients, q \in Keys : handle'[d][q] # NoLease =>
                 /\ handle'[d][q].key = q /\ handle'[d][q].owner = d
                 /\ handle'[d][q].ord <= tenures'[q]
    <3> TAKE d \in Clients, q \in Keys
    <3>1. /\ table[s].lease.key = k /\ table[s].lease.owner = c
          /\ table[s].lease.ord = tenures[k]
      BY <1>2, <2>3 DEF Restores, Matches
    <3>2. \/ handle'[d][q] = handle[d][q]
          \/ d = c /\ q = k /\ handle'[d][q] = table[s].lease
      BY <1>1, <2>3 DEF Restores
    <3>3. tenures[q] \in Nat BY <1>1
    <3> QED BY <1>2, <2>1, <3>1, <3>2, <3>3
  <2>4. CASE Crash(c)
    <3>1. \A d \in Clients, q \in Keys :
             handle'[d][q] = handle[d][q] \/ handle'[d][q] = NoLease
      BY <1>1, <2>4 DEF Crash
    <3> QED BY <1>2, <2>1, <2>2, <3>1 DEF OrdInv, Slots
  <2>5. CASE handle' = handle
    BY <1>2, <2>1, <2>2, <2>5 DEF OrdInv, Slots
  <2>6. \/ handle' = handle \/ Crash(c)
        \/ \E k \in Keys, s \in Slots : Restores(c, k, s)
    BY <1>3 DEF Steps, Call, SweepsAndReturns, Acquires, Renews, GivesUp,
       Mints, Publish, PublishFails, StoreBegins, Release, Use
  <2> QED BY <2>2, <2>3, <2>4, <2>5, <2>6 DEF OrdInv, Slots
<1>4. CASE StoreEnds(c)
  <2>1. PICK z \in Slots, q \in Keys, l \in Leases :
           /\ z = work[c].slot /\ l = work[c].lease /\ q = l.key
           /\ table[z].state # "occupied"
           /\ \A u \in Slots : ~Matches(u, q)
           /\ l.owner = c
           /\ l.ord = tenures[q] \/ l.ord = tenures[q] + 1
           /\ table'[z].state = "occupied" /\ table'[z].lease = l
           /\ \A u \in Slots : u # z => table'[u] = table[u]
    BY <1>4, StoreEndsTable
  <2>2. /\ handle' = [handle EXCEPT ![c][q] = l]
        /\ tenures' = [tenures EXCEPT ![q] = l.ord]
    BY <1>4, <2>1 DEF StoreEnds
  <2>3. \A k \in Keys : /\ tenures'[k] = IF k = q THEN l.ord ELSE tenures[k]
                        /\ tenures'[k] >= tenures[k]
                        /\ tenures[k] \in Nat
    BY <1>1, <2>1, <2>2
  <2>4. ASSUME NEW s \in Slots, table'[s].state = "occupied"
        PROVE  table'[s].lease.ord = tenures'[table'[s].lease.key]
    <3>1. CASE s = z BY <2>1, <2>3, <3>1
    <3>2. CASE s # z
      <4>1. table'[s] = table[s] /\ table[s].lease.key # q
        BY <2>1, <2>4, <3>2 DEF Matches
      <4>2. table[s].lease \in Leases
        BY <2>4, <4>1, EntryTypes DEF IInv
      <4>3. table[s].lease.key \in Keys BY <4>2 DEF Leases
      <4> QED BY <1>2, <2>3, <2>4, <4>1, <4>3
    <3> QED BY <3>1, <3>2
  <2>5. ASSUME NEW d \in Clients, NEW k \in Keys, handle'[d][k] # NoLease
        PROVE  /\ handle'[d][k].key = k /\ handle'[d][k].owner = d
               /\ handle'[d][k].ord <= tenures'[k]
    <3>1. \/ handle'[d][k] = handle[d][k]
          \/ d = c /\ k = q /\ handle'[d][k] = l
      BY <1>1, <2>2
    <3>2. CASE handle'[d][k] = handle[d][k]
      <4>1. handle[d][k] \in Leases /\ handle[d][k].ord <= tenures[k]
        BY <1>1, <1>2, <2>5, <3>2
      <4>2. handle[d][k].ord \in Nat BY <4>1 DEF Leases
      <4>3. tenures'[k] \in Nat BY <2>1, <2>3 DEF Leases
      <4>4. handle[d][k].ord <= tenures'[k] BY <2>3, <4>1, <4>2, <4>3
      <4> QED BY <1>2, <2>5, <3>2, <4>4
    <3>3. CASE d = c /\ k = q /\ handle'[d][k] = l
      BY <2>1, <2>3, <3>3 DEF Leases
    <3> QED BY <3>1, <3>2, <3>3
  <2> QED BY <2>4, <2>5 DEF OrdInv, Slots
<1> QED BY <1>3, <1>4

\* The fence.
LEMMA ServedInvStep ==
    ASSUME IInv, NEW c \in Clients, Steps(c), CallInv'
    PROVE  ServedInv'
<1>1. /\ nextLock \in Nat /\ tenures \in [Keys -> Nat]
      /\ high \in [Keys -> Nat] /\ served \in [Keys -> Nat]
      /\ handle \in [Clients -> [Keys -> Leases \cup {NoLease}]]
  BY BoundAssumption DEF IInv, Types, TableTypes, HistTypes
<1>2. \A k \in Keys :
        /\ high[k] <= nextLock /\ served[k] <= tenures[k]
        /\ \A a \in Known :
              a.key = k /\ a.id >= high[k] => a.ord >= served[k]
  BY DEF IInv, ServedInv
<1>3. ASSUME NEW k \in Keys, NEW a, OfOld(a), a.key = k, a.id >= high[k]
      PROVE  a.ord >= served[k]
  BY <1>2, <1>3 DEF OfOld, SameTenure
<1>4. CASE /\ UNCHANGED <<high, served, tenures>>
           /\ \A k \in Keys, s \in Slots, l \in Leases : ~Acquires(c, k, s, l)
  <2>1. (\A a \in Known' : OfOld(a)) /\ nextLock' = nextLock
    BY <1>4, KnownStep
  <2> HIDE DEF OfOld
  <2> QED BY <1>2, <1>3, <1>4, <2>1 DEF ServedInv
<1>5. ASSUME NEW k \in Keys, NEW s \in Slots, NEW l \in Leases,
             Acquires(c, k, s, l)
      PROVE  ServedInv'
  <2>1. \A a \in Known' : OfOld(a) \/ a = l BY <1>5, KnownAcquired
  <2>2. /\ l.key = k /\ l.ord = tenures[k] + 1 /\ nextLock' = nextLock + 1
        /\ UNCHANGED <<high, served, tenures>>
    BY <1>5 DEF Acquires, Mints
  <2>3. l.ord >= served[k] BY <1>1, <1>2, <2>2
  <2>4. \A q \in Keys : high[q] <= nextLock + 1 BY <1>1, <1>2
  <2> HIDE DEF OfOld
  <2>5. ASSUME NEW q \in Keys, NEW a \in Known', a.key = q, a.id >= high[q]
        PROVE  a.ord >= served[q]
    BY <1>3, <2>1, <2>2, <2>3, <2>5
  <2> QED BY <1>2, <2>2, <2>4, <2>5 DEF ServedInv
<1>6. CASE StoreEnds(c)
  <2>1. /\ UNCHANGED <<high, served>>
        /\ tenures' = [tenures EXCEPT ![work[c].lease.key] = work[c].lease.ord]
    BY <1>6 DEF StoreEnds, fenceVars
  <2>2. /\ work[c].lease.key \in Keys
        /\ \/ work[c].lease.ord = tenures[work[c].lease.key]
           \/ work[c].lease.ord = tenures[work[c].lease.key] + 1
    BY <1>6, StoreEndsTable
  <2>3. \A k \in Keys : served[k] <= tenures'[k]
    <3> TAKE k \in Keys
    <3>1. /\ served[k] \in Nat /\ tenures[k] \in Nat
          /\ served[k] <= tenures[k]
      BY <1>1, <1>2
    <3>2. tenures'[k] = tenures[k] \/ tenures'[k] = tenures[k] + 1
      BY <1>1, <2>1, <2>2
    <3> QED BY <3>1, <3>2
  <2>4. \A k \in Keys, s \in Slots, l \in Leases : ~Acquires(c, k, s, l)
    BY <1>6 DEF StoreEnds, Acquires, Mints
  <2>5. (\A a \in Known' : OfOld(a)) /\ nextLock' = nextLock
    BY <2>4, KnownStep
  <2> HIDE DEF OfOld
  <2> QED BY <1>2, <1>3, <2>1, <2>3, <2>5 DEF ServedInv
<1>7. ASSUME NEW k \in Keys, Use(c, k) PROVE ServedInv'
  <2> DEFINE h == handle[c][k]
  <2>1. h # NoLease /\ h \in Leases /\ h.id >= high[k]
    BY <1>1, <1>7 DEF Use, Admits
  <2>2. h \in Known BY <2>1, KnownIn
  <2>3. h.key = k /\ h.ord <= tenures[k] BY <2>1 DEF IInv, OrdInv
  <2>4. h.id \in 1 .. nextLock /\ h.id \in Nat /\ h.ord \in Nat
    BY <2>1, <2>2 DEF IInv, KnownInv, Leases
  <2>5. /\ high' = [high EXCEPT ![k] = h.id]
        /\ served' = [served EXCEPT ![k] = h.ord]
    <3>1. Later(high[k], h.id) = h.id
      BY <1>1, <2>1, <2>4 DEF Later
    <3> QED BY <1>7, <3>1 DEF Use
  <2>6. UNCHANGED <<nextLock, tenures>> /\ Known' = Known
    BY <1>7 DEF Use, tableVars, callVars, histVars, Known, Slots, Busy
  <2>7. ASSUME NEW a \in Known, a.key = k, a.id >= h.id
        PROVE  a.ord >= h.ord
    <3>1. a \in Leases BY KnownLeases
    <3>2. a.id \in Nat /\ a.ord \in Nat BY <3>1 DEF Leases
    <3>3. /\ a.id = h.id => SameTenure(a, h)
          /\ h.key = a.key /\ h.id < a.id => h.ord < a.ord
      BY <2>2 DEF IInv, KnownInv
    <3>4. CASE a.id = h.id
      <4>1. a.ord = h.ord BY <3>3, <3>4 DEF SameTenure
      <4> QED BY <2>4, <4>1
    <3>5. CASE a.id # h.id
      <4>1. h.id < a.id BY <2>4, <2>7, <3>2, <3>5
      <4>2. h.ord < a.ord BY <2>3, <2>7, <3>3, <4>1
      <4> QED BY <2>4, <3>2, <4>2
    <3> QED BY <3>4, <3>5
  <2> HIDE DEF h
  <2>8. \A q \in Keys :
          /\ high'[q] = IF q = k THEN h.id ELSE high[q]
          /\ served'[q] = IF q = k THEN h.ord ELSE served[q]
    BY <1>1, <2>5
  <2>9. \A q \in Keys : high'[q] <= nextLock' /\ served'[q] <= tenures'[q]
    BY <1>1, <1>2, <2>3, <2>4, <2>6, <2>8
  <2>10. ASSUME NEW q \in Keys, NEW a \in Known', a.key = q,
                a.id >= high'[q]
         PROVE  a.ord >= served'[q]
    BY <1>2, <2>6, <2>7, <2>8, <2>10
  <2> QED BY <2>9, <2>10 DEF ServedInv
<1>8. \/ UNCHANGED <<high, served, tenures>> \/ StoreEnds(c)
      \/ \E k \in Keys : Use(c, k)
  <2>1. UNCHANGED <<high, served>> \/ \E k \in Keys : Use(c, k)
    BY DEF Steps, Call, SweepsAndReturns, Acquires, Renews, GivesUp, Mints,
       Restores, Publish, PublishFails, StoreBegins, StoreEnds, Release,
       Crash, fenceVars
  <2> QED BY <2>1, TenuresStep
<1> QED BY <1>4, <1>5, <1>6, <1>7, <1>8

-----------------------------------------------------------------------------
(***************************************************************************)
(* Standing leases                                                         *)
(***************************************************************************)

\* A lease that stands after a step stood before it.
LEMMA StoodBefore ==
    ASSUME NEW l, clock \in Nat, clock' \in Nat, clock' >= clock,
           revoked \subseteq revoked', l # NoLease => l \in Leases,
           Standing(l)'
    PROVE  Standing(l)
<1>1. l # NoLease /\ l \in Leases /\ l.exp > clock' /\ l.id \notin revoked
  BY DEF Standing, NoLease
<1>2. l.exp \in Nat BY <1>1 DEF Leases
<1> QED BY <1>1, <1>2 DEF Standing

\* A step takes no entry from under a handle that has time left.
LEMMA HeldInvStep ==
    ASSUME IInv, NEW c \in Clients, Steps(c)
    PROVE  HeldInv'
<1>1. /\ handle \in [Clients -> [Keys -> Leases \cup {NoLease}]]
      /\ pc \in [Clients -> {"idle", "table", "publish", "apply", "fill"}]
      /\ table \in [Slots -> Cells] /\ clock \in Nat
      /\ work \in [Clients -> Works]
  BY DEF IInv, Types, HistTypes, CallTypes, TableTypes
<1>2. ASSUME NEW k \in Keys, NEW d \in Clients, Standing(handle[d][k])
      PROVE  /\ handle[d][k] \in Leases /\ handle[d][k] \in Known
             /\ handle[d][k].key = k /\ handle[d][k].owner = d
             /\ handle[d][k].exp \in Nat /\ handle[d][k].exp > clock
             /\ \/ \E s \in Slots : Backs(s, k, handle[d][k])
                \/ pc[d] = "fill" /\ work[d].lease.id = handle[d][k].id
  <2>1. handle[d][k] # NoLease /\ handle[d][k].exp > clock
    BY <1>2 DEF Standing
  <2>2. handle[d][k] \in Leases BY <1>1, <2>1
  <2>3. handle[d][k].exp \in Nat BY <2>2 DEF Leases
  <2>4. handle[d][k].key = k /\ handle[d][k].owner = d
    BY <2>1 DEF IInv, OrdInv
  <2> QED BY <1>2, <2>1, <2>2, <2>3, <2>4, KnownIn DEF IInv, HeldInv
<1>3. clock' = clock /\ revoked \subseteq revoked'
  BY DEF Steps, Call, SweepsAndReturns, Acquires, Renews, GivesUp, Mints,
     Restores, Publish, PublishFails, StoreBegins, StoreEnds, Release, Crash,
     Use, histVars
<1>4. ASSUME NEW k \in Keys, NEW d \in Clients, NEW l,
             l = handle[d][k], Standing(l)'
      PROVE  Standing(handle[d][k])
  <2>1. l # NoLease => l \in Leases BY <1>1, <1>4
  <2>2. Standing(l) BY <1>1, <1>3, <1>4, <2>1, StoodBefore
  <2> QED BY <1>4, <2>2
<1>5. CASE /\ UNCHANGED <<table, handle>>
           /\ \A d \in Clients : pc[d] = "fill" =>
                 pc'[d] = "fill" /\ work'[d] = work[d]
  <2> SUFFICES ASSUME NEW k \in Keys, NEW d \in Clients,
                      Standing(handle[d][k])'
               PROVE  \/ \E s \in Slots : Backs(s, k, handle[d][k])'
                      \/ pc'[d] = "fill"
                           /\ work'[d].lease.id = handle'[d][k].id
    BY DEF HeldInv, Slots
  <2>1. Standing(handle[d][k]) BY <1>4, <1>5 DEF Standing
  <2> QED BY <1>2, <1>5, <2>1 DEF Backs, Matches
<1>6. ASSUME lock = NoOne, Sweeps(now[c]), handle' = handle
      PROVE  HeldInv'
  <2> SUFFICES ASSUME NEW k \in Keys, NEW d \in Clients,
                      Standing(handle[d][k])'
               PROVE  \E s \in Slots : Backs(s, k, handle[d][k])'
    BY DEF HeldInv, Slots
  <2>1. Standing(handle[d][k]) BY <1>4, <1>6 DEF Standing
  <2>2. pc[d] \notin Busy BY <1>6, NobodyBusy
  <2>3. PICK s \in Slots : Backs(s, k, handle[d][k])
    BY <1>2, <2>1, <2>2 DEF Busy
  <2>4. ~Expired(s, now[c])
    <3>1. now[c] \in Nat /\ now[c] <= clock
      BY DEF IInv, Types, CallTypes, CallInv
    <3>2. table[s].lease.exp >= handle[d][k].exp
            /\ table[s].state = "occupied"
      BY <2>3 DEF Backs, Matches
    <3>3. table[s].lease \in Leases BY <3>2, EntryTypes DEF IInv
    <3>4. table[s].lease.exp \in Nat BY <3>3 DEF Leases
    <3>5. handle[d][k].exp \in Nat /\ handle[d][k].exp > clock
      BY <1>2, <2>1
    <3>6. ~(table[s].lease.exp <= now[c])
      BY <1>1, <3>1, <3>2, <3>4, <3>5
    <3> QED BY <3>6 DEF Expired
  <2>5. table'[s] = table[s] BY <1>6, <2>4 DEF Sweeps
  <2> QED BY <1>6, <2>3, <2>5 DEF Backs, Matches
<1>7. CASE Call(c)
  BY <1>1, <1>5, <1>7 DEF Call, tableVars
<1>8. CASE SweepsAndReturns(c)
  BY <1>6, <1>8 DEF SweepsAndReturns
<1>9. ASSUME NEW k \in Keys, NEW s \in Slots, NEW l \in Leases,
             Acquires(c, k, s, l)
      PROVE  HeldInv'
  BY <1>6, <1>9 DEF Acquires, Mints
<1>10. ASSUME NEW k \in Keys, NEW s \in Slots, NEW l \in Leases,
              Renews(c, k, s, l) \/ GivesUp(c, k, s, l)
       PROVE  HeldInv'
  <2>1. lock = NoOne /\ handle' = handle /\ table' = table
    BY <1>10 DEF Renews, GivesUp, Mints
  <2>2. Sweeps(now[c]) BY <1>1, <2>1 DEF Sweeps
  <2> QED BY <1>6, <2>1, <2>2
<1>11. ASSUME NEW q \in Keys, NEW z \in Slots, Restores(c, q, z)
       PROVE  HeldInv'
  <2> SUFFICES ASSUME NEW k \in Keys, NEW d \in Clients,
                      Standing(handle[d][k])'
               PROVE  \E s \in Slots : Backs(s, k, handle[d][k])'
    BY DEF HeldInv, Slots
  <2>1. table' = table /\ Matches(z, q) /\ lock = NoOne
          /\ table[z].lease \in Leases
    BY <1>11 DEF Restores
  <2>2. CASE d = c /\ k = q
    <3>1. handle'[d][k] = table[z].lease BY <1>1, <1>11, <2>2 DEF Restores
    <3>2. table[z].lease.exp \in Nat BY <2>1 DEF Leases
    <3>3. table[z].lease.exp >= table[z].lease.exp BY <3>2
    <3> QED BY <2>1, <2>2, <3>1, <3>3 DEF Backs, Matches
  <2>3. CASE ~(d = c /\ k = q)
    <3>1. handle'[d][k] = handle[d][k] BY <1>1, <1>11, <2>3 DEF Restores
    <3>2. Standing(handle[d][k]) BY <1>4, <3>1 DEF Standing
    <3>3. pc[d] \notin Busy BY <2>1, NobodyBusy
    <3>4. PICK s \in Slots : Backs(s, k, handle[d][k])
      BY <1>2, <3>2, <3>3 DEF Busy
    <3> QED BY <2>1, <3>1, <3>4 DEF Backs, Matches
  <2> QED BY <2>2, <2>3
<1>12. CASE Publish(c)
  BY <1>1, <1>5, <1>12 DEF Publish, tableVars
<1>13. CASE PublishFails(c)
  <2>1. \A d \in Clients : pc[d] = "fill" =>
           pc'[d] = "fill" /\ work'[d] = work[d]
    BY <1>1, <1>13 DEF PublishFails, Returns
  <2> QED BY <1>5, <1>13, <2>1 DEF PublishFails, tableVars
<1>14. CASE StoreBegins(c)
  <2> SUFFICES ASSUME NEW k \in Keys, NEW d \in Clients,
                      Standing(handle[d][k])'
               PROVE  \/ \E s \in Slots : Backs(s, k, handle[d][k])'
                      \/ pc'[d] = "fill"
                           /\ work'[d].lease.id = handle'[d][k].id
    BY DEF HeldInv, Slots
  <2>1. handle' = handle /\ work' = work /\ pc'[c] = "fill"
          /\ pc[c] = "apply" /\ work[c].kind # "released" /\ pc[c] \in Busy
    BY <1>1, <1>14 DEF StoreBegins, Busy
  <2>2. Standing(handle[d][k]) BY <1>4, <2>1 DEF Standing
  <2>3. /\ work[c].slot \in Slots /\ Fits(c, work[c])
        /\ work[c].kind \in {"acquired", "renewed", "released"}
        /\ \A e \in Clients : pc[e] \in Busy => e = c
    BY <2>1, WorkTypes
  <2>4. PICK s \in Slots : Backs(s, k, handle[d][k])
    BY <1>2, <2>1, <2>2, <2>3 DEF Busy
  <2>5. CASE s # work[c].slot
    <3>1. table'[s] = table[s] BY <1>1, <1>14, <2>3, <2>5 DEF StoreBegins
    <3> QED BY <2>1, <2>4, <3>1 DEF Backs, Matches
  <2>6. CASE s = work[c].slot
    <3>1. table[s].state = "occupied" /\ table[s].lease.id = handle[d][k].id
      BY <2>4 DEF Backs, Matches
    <3>2. work[c].kind = "renewed" BY <2>1, <2>3, <2>6, <3>1 DEF Fits
    <3>3. work[c].lease.owner = c /\ SameTenure(work[c].lease, table[s].lease)
      BY <2>1, <2>3, <2>6, <3>2 DEF Fits
    <3>4. SameTenure(table[s].lease, handle[d][k])
      BY <1>2, <2>2, <3>1, KnownIn DEF IInv, KnownInv
    <3>5. d = c /\ work[c].lease.id = handle[d][k].id
      BY <1>2, <2>2, <3>3, <3>4 DEF SameTenure
    <3> QED BY <2>1, <3>5
  <2> QED BY <2>5, <2>6
<1>15. CASE StoreEnds(c)
  <2> SUFFICES ASSUME NEW k \in Keys, NEW d \in Clients,
                      Standing(handle[d][k])'
               PROVE  \E s \in Slots : Backs(s, k, handle[d][k])'
    BY DEF HeldInv, Slots
  <2>1. PICK z \in Slots, q \in Keys, l \in Leases :
           /\ z = work[c].slot /\ l = work[c].lease /\ q = l.key
           /\ table[z].state # "occupied"
           /\ table'[z].state = "occupied" /\ table'[z].lease = l
           /\ \A u \in Slots : u # z => table'[u] = table[u]
    BY <1>15, StoreEndsTable
  <2>2. handle' = [handle EXCEPT ![c][q] = l] /\ pc[c] = "fill"
    BY <1>15, <2>1 DEF StoreEnds
  <2>3. CASE d = c /\ k = q
    <3>1. handle'[d][k] = l BY <1>1, <2>2, <2>3
    <3>2. l.exp \in Nat BY DEF Leases
    <3>3. l.exp >= l.exp BY <3>2
    <3> QED BY <2>1, <2>3, <3>1, <3>3 DEF Backs, Matches
  <2>4. CASE ~(d = c /\ k = q)
    <3>1. handle'[d][k] = handle[d][k] BY <1>1, <2>2, <2>4
    <3>2. Standing(handle[d][k]) BY <1>4, <3>1 DEF Standing
    <3>3. ~(pc[d] = "fill" /\ work[d].lease.id = handle[d][k].id)
      <4> SUFFICES ASSUME pc[d] = "fill", work[d].lease.id = handle[d][k].id
                   PROVE  FALSE
        OBVIOUS
      <4>1. pc[c] \in Busy /\ pc[d] \in Busy BY <2>2 DEF Busy
      <4>2. d = c BY <4>1, WorkTypes
      <4>3. SameTenure(l, handle[d][k])
        BY <1>2, <2>1, <3>2, <4>1, <4>2, KnownIn DEF IInv, KnownInv
      <4> QED BY <1>2, <2>1, <2>4, <3>2, <4>2, <4>3 DEF SameTenure
    <3>4. PICK s \in Slots : Backs(s, k, handle[d][k])
      BY <1>2, <3>2, <3>3
    <3>5. s # z BY <2>1, <3>4 DEF Backs, Matches
    <3>6. table'[s] = table[s] BY <2>1, <3>5
    <3> QED BY <3>1, <3>4, <3>6 DEF Backs, Matches
  <2> QED BY <2>3, <2>4
<1>16. CASE Release(c)
  <2> SUFFICES ASSUME NEW k \in Keys, NEW d \in Clients,
                      Standing(handle[d][k])'
               PROVE  \E s \in Slots : Backs(s, k, handle[d][k])'
    BY DEF HeldInv, Slots
  <2>1. /\ handle' = handle /\ pc[c] = "apply" /\ pc[c] \in Busy
        /\ work[c].kind = "released"
        /\ revoked' = revoked \cup {work[c].lease.id}
    BY <1>16 DEF Release, Busy
  <2>2. Standing(handle[d][k]) BY <1>4, <2>1 DEF Standing
  <2>3. /\ work[c].slot \in Slots /\ Fits(c, work[c])
        /\ \A e \in Clients : pc[e] \in Busy => e = c
    BY <2>1, WorkTypes
  <2>4. PICK s \in Slots : Backs(s, k, handle[d][k])
    BY <1>2, <2>1, <2>2, <2>3 DEF Busy
  <2>5. s # work[c].slot
    <3> SUFFICES ASSUME s = work[c].slot PROVE FALSE
      OBVIOUS
    <3>1. SameTenure(work[c].lease, table[s].lease)
      BY <2>1, <2>3 DEF Fits
    <3>2. handle[d][k].id \in revoked'
      BY <2>1, <2>4, <3>1 DEF Backs, SameTenure
    <3> QED BY <2>1, <3>2 DEF Standing
  <2>6. table'[s] = table[s] BY <1>1, <1>16, <2>3, <2>5 DEF Release
  <2> QED BY <2>1, <2>4, <2>6 DEF Backs, Matches
<1>17. CASE Crash(c)
  <2> SUFFICES ASSUME NEW k \in Keys, NEW d \in Clients,
                      Standing(handle[d][k])'
               PROVE  \/ \E s \in Slots : Backs(s, k, handle[d][k])'
                      \/ pc'[d] = "fill"
                           /\ work'[d].lease.id = handle'[d][k].id
    BY DEF HeldInv, Slots
  <2>1. table' = table BY <1>17 DEF Crash, tableVars
  <2>2. d # c
    <3> SUFFICES ASSUME d = c PROVE FALSE
      OBVIOUS
    <3>1. handle'[d][k] = NoLease BY <1>1, <1>17 DEF Crash
    <3> QED BY <3>1 DEF Standing, NoLease
  <2>3. handle'[d] = handle[d] /\ pc'[d] = pc[d] /\ work'[d] = work[d]
    BY <1>1, <1>17, <2>2 DEF Crash
  <2>4. Standing(handle[d][k]) BY <1>4, <2>3 DEF Standing
  <2> QED BY <1>2, <2>1, <2>3, <2>4 DEF Backs, Matches
<1>18. ASSUME NEW k \in Keys, Use(c, k) PROVE HeldInv'
  BY <1>5, <1>18 DEF Use, tableVars, callVars
<1> QED
  BY <1>7, <1>8, <1>9, <1>10, <1>11, <1>12, <1>13, <1>14, <1>15, <1>16,
     <1>17, <1>18 DEF Steps

-----------------------------------------------------------------------------
(***************************************************************************)
(* The events                                                              *)
(***************************************************************************)

\* The record the ring holds of the transition in hand.
Recorded(c) ==
    last[work[c].lease.key] =
        [kind |-> work[c].kind, id |-> work[c].lease.id,
         exp |-> work[c].lease.exp, rev |-> work[c].lease.rev]

\* Entries that disappear have expired, and what is recorded of them too.
LEMMA ToldSwept ==
    ASSUME IInv, NEW c \in Clients, Sweeps(now[c]), UNCHANGED <<clock, last>>,
           NEW k \in Keys, Told(k)
    PROVE  Told(k)'
<1>1. Shrinks BY DEF Shrinks, Sweeps
<1>2. \A s \in Slots : Matches(s, k)' => table'[s] = table[s] /\ Matches(s, k)
  BY <1>1, ShrinksEntry DEF Matches
<1>3. ASSUME last[k].kind \in {"acquired", "renewed"}, last[k].exp > clock
      PROVE  \E s \in Slots : Matches(s, k)'
  <2>1. PICK s \in Slots : Matches(s, k) BY <1>3 DEF Told
  <2>2. last[k].exp = table[s].lease.exp BY <2>1 DEF Told
  <2>3. now[c] \in Nat /\ now[c] <= clock /\ clock \in Nat
    BY DEF IInv, Types, CallTypes, TableTypes, CallInv
  <2>4. table[s].lease \in Leases BY <2>1, EntryTypes DEF IInv, Matches
  <2>5. table[s].lease.exp \in Nat BY <2>4 DEF Leases
  <2>6. ~Expired(s, now[c]) BY <1>3, <2>2, <2>3, <2>5 DEF Expired
  <2>7. table'[s] = table[s] BY <2>6 DEF Sweeps
  <2> QED BY <2>1, <2>7 DEF Matches
<1> QED BY <1>2, <1>3 DEF Told, Slots

\* What is told of a key stays true while its entries and its event do.
LEMMA ToldStill ==
    ASSUME NEW k \in Keys, Told(k), last'[k] = last[k], clock' = clock,
           \A s \in Slots : /\ Matches(s, k)' <=> Matches(s, k)
                            /\ Matches(s, k) => table'[s] = table[s]
    PROVE  Told(k)'
  BY DEF Told, Slots

\* A step keeps the last event of a key what the table holds, as long as no
\* publish has failed.
LEMMA EventInvStep ==
    ASSUME IInv, NEW c \in Clients, Steps(c), CallInv'
    PROVE  EventInv'
<1>1. /\ pc \in [Clients -> {"idle", "table", "publish", "apply", "fill"}]
      /\ table \in [Slots -> Cells] /\ last \in [Keys -> Events]
      /\ work \in [Clients -> Works] /\ faults \in Nat
  BY DEF IInv, Types, HistTypes, CallTypes, TableTypes
<1> SUFFICES ASSUME faults' = 0
             PROVE  /\ \A k \in Keys : ~InHand(k)' => Told(k)'
                    /\ \A d \in Clients : pc'[d] \in {"apply", "fill"} =>
                          Recorded(d)'
  BY DEF EventInv, Recorded
<1>2. faults = 0 /\ ~Crash(c) /\ ~PublishFails(c)
  <2>1. ~Crash(c) /\ ~PublishFails(c) BY <1>1 DEF Crash, PublishFails
  <2>2. faults' = faults
    BY <2>1 DEF Steps, Call, SweepsAndReturns, Acquires, Renews, GivesUp,
       Mints, Restores, Publish, StoreBegins, StoreEnds, Release, Use,
       histVars
  <2> QED BY <2>1, <2>2
<1>3. /\ \A k \in Keys : ~InHand(k) => Told(k)
      /\ \A d \in Clients : pc[d] \in {"apply", "fill"} => Recorded(d)
  BY <1>2 DEF IInv, EventInv, Recorded
<1>4. ASSUME lock = NoOne
      PROVE  /\ \A k \in Keys : ~InHand(k) /\ Told(k)
  BY <1>3, <1>4, NobodyBusy DEF InHand, Busy
<1>5. ASSUME lock = NoOne, Sweeps(now[c]), UNCHANGED <<clock, last>>,
             \A d \in Clients : pc'[d] \notin {"apply", "fill"}
      PROVE  /\ \A k \in Keys : ~InHand(k)' => Told(k)'
             /\ \A d \in Clients : pc'[d] \in {"apply", "fill"} =>
                   Recorded(d)'
  BY <1>4, <1>5, ToldSwept
<1>6. ASSUME NEW w, Mints(c, w), Sweeps(now[c])
      PROVE  /\ \A k \in Keys : ~InHand(k)' => Told(k)'
             /\ \A d \in Clients : pc'[d] \in {"apply", "fill"} =>
                   Recorded(d)'
  <2>1. lock = NoOne /\ UNCHANGED <<clock, last>> BY <1>6 DEF Mints
  <2>2. \A d \in Clients : pc[d] \notin Busy BY <2>1, NobodyBusy
  <2>3. \A d \in Clients : pc'[d] \notin {"apply", "fill"}
    BY <1>1, <1>6, <2>2 DEF Mints, Busy
  <2> QED BY <1>5, <1>6, <2>1, <2>3
<1>7. ASSUME UNCHANGED <<table, last, clock, work>>,
             \A d \in Clients : pc'[d] \in {"apply", "fill"} <=>
                pc[d] \in {"apply", "fill"}
      PROVE  /\ \A k \in Keys : ~InHand(k)' => Told(k)'
             /\ \A d \in Clients : pc'[d] \in {"apply", "fill"} =>
                   Recorded(d)'
  <2>1. ASSUME NEW k \in Keys, ~InHand(k)' PROVE Told(k)'
    <3>1. ~InHand(k) BY <1>7, <2>1 DEF InHand
    <3>2. Told(k) BY <1>3, <3>1
    <3> QED BY <1>7, <3>2 DEF Told, Matches, Slots
  <2>2. \A d \in Clients : pc'[d] \in {"apply", "fill"} => Recorded(d)'
    BY <1>3, <1>7 DEF Recorded
  <2> QED BY <2>1, <2>2
<1>8. CASE Call(c)
  BY <1>1, <1>7, <1>8 DEF Call, tableVars
<1>9. CASE SweepsAndReturns(c)
  <2>1. lock = NoOne /\ lock' = NoOne /\ UNCHANGED <<clock, last>>
          /\ Sweeps(now[c])
    BY <1>9 DEF SweepsAndReturns
  <2>2. \A d \in Clients : pc'[d] \notin {"apply", "fill"}
    BY <2>1, NoOneAssumption DEF CallInv, Busy
  <2> QED BY <1>5, <2>1, <2>2
<1>10. ASSUME NEW k \in Keys, NEW s \in Slots, NEW l \in Leases,
              Acquires(c, k, s, l)
       PROVE  /\ \A q \in Keys : ~InHand(q)' => Told(q)'
              /\ \A d \in Clients : pc'[d] \in {"apply", "fill"} =>
                    Recorded(d)'
  BY <1>6, <1>10 DEF Acquires
<1>11. ASSUME NEW k \in Keys, NEW s \in Slots, NEW l \in Leases,
              Renews(c, k, s, l) \/ GivesUp(c, k, s, l)
       PROVE  /\ \A q \in Keys : ~InHand(q)' => Told(q)'
              /\ \A d \in Clients : pc'[d] \in {"apply", "fill"} =>
                    Recorded(d)'
  <2>1. Sweeps(now[c]) BY <1>1, <1>11 DEF Sweeps, Renews, GivesUp
  <2> QED BY <1>6, <1>11, <2>1 DEF Renews, GivesUp
<1>12. ASSUME NEW k \in Keys, NEW s \in Slots, Restores(c, k, s)
       PROVE  /\ \A q \in Keys : ~InHand(q)' => Told(q)'
              /\ \A d \in Clients : pc'[d] \in {"apply", "fill"} =>
                    Recorded(d)'
  <2>1. lock = NoOne /\ lock' = NoOne /\ UNCHANGED <<clock, last, table>>
    BY <1>12 DEF Restores
  <2>2. Sweeps(now[c]) BY <1>1, <2>1 DEF Sweeps
  <2>3. \A d \in Clients : pc'[d] \notin {"apply", "fill"}
    BY <2>1, NoOneAssumption DEF CallInv, Busy
  <2> QED BY <1>5, <2>1, <2>2, <2>3
<1>13. CASE Publish(c)
  <2>1. pc[c] = "publish" /\ pc[c] \in Busy /\ pc'[c] = "apply"
          /\ UNCHANGED <<table, clock, work>>
    BY <1>1, <1>13 DEF Publish, tableVars, Busy
  <2>2. /\ work[c].lease.key \in Keys
        /\ \A d \in Clients : pc[d] \in Busy => d = c
    BY <2>1, WorkTypes
  <2>3. \A d \in Clients : pc'[d] \in {"apply", "fill"} => d = c
    BY <1>1, <1>13, <2>2 DEF Publish, Busy
  <2>4. Recorded(c)'
    BY <1>1, <1>13, <2>1, <2>2 DEF Publish, FrameWritten, Recorded
  <2>5. ASSUME NEW k \in Keys, ~InHand(k)' PROVE Told(k)'
    <3>1. k # work[c].lease.key BY <2>1, <2>5 DEF InHand
    <3>2. last'[k] = last[k]
      BY <1>1, <1>13, <2>2, <3>1 DEF Publish, FrameWritten
    <3>3. ~InHand(k) BY <2>1, <2>2 DEF InHand, Busy
    <3>4. Told(k) BY <1>3, <3>3
    <3>5. \A s \in Slots : /\ Matches(s, k)' <=> Matches(s, k)
                           /\ Matches(s, k) => table'[s] = table[s]
      BY <2>1 DEF Matches
    <3> QED BY <2>1, <3>2, <3>4, <3>5, ToldStill
  <2> QED BY <2>3, <2>4, <2>5
<1>14. CASE StoreBegins(c)
  <2>1. /\ pc[c] = "apply" /\ pc[c] \in Busy /\ pc'[c] = "fill"
        /\ UNCHANGED <<clock, work, last>> /\ work[c].kind # "released"
    BY <1>1, <1>14 DEF StoreBegins, Busy
  <2>2. /\ work[c].lease.key \in Keys /\ work[c].slot \in Slots
        /\ work[c].kind \in {"acquired", "renewed", "released"}
        /\ Fits(c, work[c])
        /\ \A d \in Clients : pc[d] \in Busy => d = c
    BY <2>1, WorkTypes
  <2>3. \A d \in Clients : pc'[d] \in {"apply", "fill"} => d = c
    BY <1>1, <1>14, <2>2 DEF StoreBegins, Busy
  <2>4. Recorded(c)' BY <1>3, <2>1 DEF Recorded
  <2>5. ASSUME NEW k \in Keys, ~InHand(k)' PROVE Told(k)'
    <3>1. k # work[c].lease.key BY <2>1, <2>5 DEF InHand
    <3>2. ~InHand(k) BY <2>1, <2>2, <3>1 DEF InHand, Busy
    <3>3. Told(k) BY <1>3, <3>2
    <3>4. ~Matches(work[c].slot, k)
      BY <2>1, <2>2, <3>1 DEF Fits, Matches
    <3>5. \A s \in Slots : s # work[c].slot => table'[s] = table[s]
      BY <1>1, <1>14, <2>2 DEF StoreBegins
    <3>6. table'[work[c].slot] = Tombstone
      BY <1>1, <1>14, <2>2 DEF StoreBegins
    <3>7. \A s \in Slots : /\ Matches(s, k)' <=> Matches(s, k)
                           /\ Matches(s, k) => table'[s] = table[s]
      BY <3>4, <3>5, <3>6 DEF Matches, Tombstone
    <3> QED BY <2>1, <3>3, <3>7, ToldStill
  <2> QED BY <2>3, <2>4, <2>5
<1>15. CASE StoreEnds(c)
  <2>1. PICK z \in Slots, q \in Keys, l \in Leases :
           /\ z = work[c].slot /\ l = work[c].lease /\ q = l.key
           /\ table[z].state # "occupied"
           /\ \A u \in Slots : ~Matches(u, q)
           /\ table'[z].state = "occupied" /\ table'[z].lease = l
           /\ \A u \in Slots : u # z => table'[u] = table[u]
    BY <1>15, StoreEndsTable
  <2>2. /\ pc[c] = "fill" /\ pc[c] \in Busy /\ UNCHANGED <<clock, last>>
        /\ lock' = NoOne
    BY <1>15 DEF StoreEnds, Returns, Busy
  <2>3. \A d \in Clients : pc[d] \in Busy => d = c BY <2>2, WorkTypes
  <2>4. \A d \in Clients : pc'[d] \notin {"apply", "fill"}
    BY <2>2, NoOneAssumption DEF CallInv, Busy
  <2>5. /\ last[q].kind = work[c].kind /\ last[q].id = l.id
        /\ last[q].exp = l.exp /\ last[q].rev = l.rev
    <3>1. Recorded(c) BY <1>3, <2>2
    <3> QED BY <2>1, <3>1 DEF Recorded
  <2>6. work[c].kind \in {"acquired", "renewed"} BY <1>15, StoreEndsTable
  <2>7. ASSUME NEW k \in Keys PROVE Told(k)'
    <3>1. CASE k = q
      <4>1. \A s \in Slots : Matches(s, k)' => s = z
        BY <2>1, <3>1 DEF Matches
      <4>2. Matches(z, k)' BY <2>1, <3>1 DEF Matches
      <4>3. /\ last'[k].kind \in {"acquired", "renewed"}
            /\ last'[k].rev = table'[z].lease.rev
            /\ last'[k].id = table'[z].lease.id
            /\ last'[k].exp = table'[z].lease.exp
        BY <2>1, <2>2, <2>5, <2>6, <3>1
      <4> QED BY <4>1, <4>2, <4>3 DEF Told, Slots
    <3>2. CASE k # q
      <4>1. ~InHand(k) BY <2>1, <2>3, <3>2 DEF InHand, Busy
      <4>2. Told(k) BY <1>3, <4>1
      <4>3. \A s \in Slots : /\ Matches(s, k)' <=> Matches(s, k)
                             /\ Matches(s, k) => table'[s] = table[s]
        BY <2>1, <3>2 DEF Matches
      <4> QED BY <2>2, <4>2, <4>3, ToldStill
    <3> QED BY <3>1, <3>2
  <2> QED BY <2>4, <2>7
<1>16. CASE Release(c)
  <2>1. /\ pc[c] = "apply" /\ pc[c] \in Busy /\ UNCHANGED <<clock, last>>
        /\ work[c].kind = "released" /\ lock' = NoOne
    BY <1>16 DEF Release, Returns, Busy
  <2>2. /\ work[c].lease.key \in Keys /\ work[c].slot \in Slots
        /\ Fits(c, work[c])
        /\ \A d \in Clients : pc[d] \in Busy => d = c
    BY <2>1, WorkTypes
  <2>3. PICK z \in Slots, q \in Keys :
           z = work[c].slot /\ q = work[c].lease.key
    BY <2>2
  <2>4. Matches(z, q) BY <2>1, <2>2, <2>3 DEF Fits
  <2>5. /\ table'[z] = Tombstone
        /\ \A s \in Slots : s # z => table'[s] = table[s]
    BY <1>1, <1>16, <2>3 DEF Release, Frees
  <2>6. \A d \in Clients : pc'[d] \notin {"apply", "fill"}
    BY <2>1, NoOneAssumption DEF CallInv, Busy
  <2>7. last[q].kind = "released"
    <3>1. Recorded(c) BY <1>3, <2>1
    <3> QED BY <2>1, <2>3, <3>1 DEF Recorded
  <2>8. ASSUME NEW k \in Keys PROVE Told(k)'
    <3>1. CASE k = q
      <4>1. \A s \in Slots : Matches(s, k) => s = z
        BY <2>4, <3>1 DEF IInv, TableInv
      <4>2. \A s \in Slots : ~Matches(s, k)'
        BY <2>5, <4>1 DEF Matches, Tombstone
      <4> QED BY <2>1, <2>7, <3>1, <4>2 DEF Told, Slots
    <3>2. CASE k # q
      <4>1. ~InHand(k) BY <2>2, <2>3, <3>2 DEF InHand, Busy
      <4>2. Told(k) BY <1>3, <4>1
      <4>3. \A s \in Slots : /\ Matches(s, k)' <=> Matches(s, k)
                             /\ Matches(s, k) => table'[s] = table[s]
        BY <2>4, <2>5, <3>2 DEF Matches, Tombstone
      <4> QED BY <2>1, <4>2, <4>3, ToldStill
    <3> QED BY <3>1, <3>2
  <2> QED BY <2>6, <2>8
<1>17. ASSUME NEW k \in Keys, Use(c, k)
       PROVE  /\ \A q \in Keys : ~InHand(q)' => Told(q)'
              /\ \A d \in Clients : pc'[d] \in {"apply", "fill"} =>
                    Recorded(d)'
  BY <1>7, <1>17 DEF Use, tableVars, callVars
<1> QED
  BY <1>2, <1>8, <1>9, <1>10, <1>11, <1>12, <1>13, <1>14, <1>15, <1>16,
     <1>17 DEF Steps

-----------------------------------------------------------------------------
(***************************************************************************)
(* The theorems                                                            *)
(***************************************************************************)

\* The empty table satisfies the invariant.
LEMMA InitIInv ==
    ASSUME Init
    PROVE  IInv
<1>1. /\ Empty \in Cells /\ NoEvent \in Events /\ NoWork \in Works
      /\ 0 \in 0 .. CounterMax /\ 0 \in Nat
  BY BoundAssumption DEF Cells, Events, Works
<1>2. Types
  BY <1>1 DEF Init, Types, TableTypes, CallTypes, HistTypes, Slots
<1>3. CallInv BY NoOneAssumption DEF Init, CallInv, Busy
<1>4. \A s \in Slots : table[s].state # "occupied"
  BY DEF Init, Empty, Slots
<1>5. TableInv BY <1>4 DEF TableInv, Matches
<1>6. \A c \in Clients : pc[c] \notin Busy BY DEF Init, Busy
<1>7. WorkInv BY <1>6 DEF WorkInv
<1>8. \A c \in Clients, k \in Keys : handle[c][k] = NoLease BY DEF Init
<1>9. Known = {} BY <1>4, <1>6, <1>8 DEF Known
<1>10. KnownInv BY <1>9 DEF KnownInv
<1>11. OrdInv BY <1>4, <1>8 DEF OrdInv
<1>12. HeldInv BY <1>8 DEF HeldInv, Standing
<1>13. ServedInv BY <1>9 DEF ServedInv, Init
<1>14. EventInv
  <2>1. \A k \in Keys : last[k].kind = "none" BY DEF Init, NoEvent
  <2>2. \A k \in Keys : Told(k) BY <1>4, <2>1 DEF Told, Matches
  <2> QED BY <1>6, <2>2 DEF EventInv, Busy
<1> QED
  BY <1>2, <1>3, <1>5, <1>7, <1>10, <1>11, <1>12, <1>13, <1>14 DEF IInv

\* Time passes.
LEMMA TickStep ==
    ASSUME IInv, clock' \in Nat, clock' >= clock,
           UNCHANGED <<table, nextLock, nextRev, lock, pc, now, work, last,
                       handle, high, served, tenures, revoked, faults>>
    PROVE  IInv'
<1>1. Types' BY DEF IInv, Types, TableTypes, CallTypes, HistTypes, Slots
<1>2. clock \in Nat /\ \A c \in Clients : now[c] \in Nat
  BY DEF IInv, Types, TableTypes, CallTypes
<1>3. CallInv' BY <1>2 DEF IInv, CallInv
<1>4. TableInv'
  BY DEF IInv, TableInv, Matches, PathClear, IsEmpty, Slots, ProbeIndex,
     Offsets
<1>5. WorkInv'
  <2> SUFFICES ASSUME NEW d \in Clients, pc[d] \in Busy
               PROVE  Fits(d, work[d])'
    BY DEF WorkInv
  <2> QED BY FitsStill
<1>6. Known' = Known BY DEF Known, Slots, Busy, NoLease
<1>7. KnownInv' BY <1>6 DEF IInv, KnownInv, SameTenure
<1>8. OrdInv' BY DEF IInv, OrdInv, Slots, NoLease
<1>9. HeldInv'
  <2> SUFFICES ASSUME NEW k \in Keys, NEW d \in Clients,
                      Standing(handle[d][k])'
               PROVE  \/ \E s \in Slots : Backs(s, k, handle[d][k])'
                      \/ pc'[d] = "fill"
                           /\ work'[d].lease.id = handle'[d][k].id
    BY DEF HeldInv, Slots
  <2>1. PICK l : l = handle[d][k] OBVIOUS
  <2>2. l # NoLease => l \in Leases
    BY <2>1 DEF IInv, Types, HistTypes
  <2>3. Standing(l)' BY <2>1 DEF Standing
  <2>4. Standing(l) BY <1>2, <2>2, <2>3, StoodBefore
  <2>5. \/ \E s \in Slots : Backs(s, k, handle[d][k])
        \/ pc[d] = "fill" /\ work[d].lease.id = handle[d][k].id
    BY <2>1, <2>4 DEF IInv, HeldInv
  <2> QED BY <2>5 DEF Backs, Matches
<1>10. ServedInv' BY <1>6 DEF IInv, ServedInv
<1>11. EventInv'
  <2>1. ASSUME NEW k \in Keys, Told(k) PROVE Told(k)'
    <3>1. ASSUME last[k].kind \in {"acquired", "renewed"},
                 last[k].exp > clock'
          PROVE  last[k].exp > clock
      <4>1. last[k] \in Events BY DEF IInv, Types, HistTypes
      <4>2. last[k] # NoEvent
        <5>1. NoEvent.kind = "none" BY DEF NoEvent
        <5> QED BY <3>1, <5>1
      <4>3. last[k].exp \in Nat BY <4>1, <4>2 DEF Events
      <4> QED BY <1>2, <3>1, <4>3
    <3> QED BY <2>1, <3>1 DEF Told, Matches, Slots
  <2>2. \A k \in Keys : InHand(k)' <=> InHand(k) BY DEF InHand
  <2> QED BY <2>1, <2>2 DEF IInv, EventInv
<1> QED
  BY <1>1, <1>3, <1>4, <1>5, <1>7, <1>8, <1>9, <1>10, <1>11 DEF IInv

\* Every step, the clock's included, keeps the invariant.
LEMMA NextIInv ==
    ASSUME IInv, [Next]_vars
    PROVE  IInv'
<1>1. CASE UNCHANGED vars
  <2>1. clock' = clock /\ clock \in Nat /\ clock' >= clock
    BY <1>1 DEF vars, IInv, Types, TableTypes
  <2> QED
    BY <1>1, <2>1, TickStep
    DEF vars, tableVars, callVars, fenceVars, histVars
<1>2. CASE Tick
  <2>1. clock \in Nat /\ clock' = clock + 1
    BY <1>2 DEF Tick, IInv, Types, TableTypes
  <2>2. clock' \in Nat /\ clock' >= clock BY <2>1
  <2> QED
    BY <1>2, <2>2, TickStep
    DEF Tick, tableVars, callVars, fenceVars, histVars
<1>3. ASSUME NEW c \in Clients, ClientStep(c) PROVE IInv'
  <2>1. Steps(c) BY <1>3, ClientSteps
  <2>2. TableTypes' /\ CallTypes' /\ HistTypes'
    BY <2>1, TableTypesStep, CallTypesStep, HistTypesStep
  <2>3. CallInv' BY <2>1, CallInvStep
  <2>4. TableInv' BY <2>1, TableInvStep
  <2>5. WorkInv' BY <2>1, <2>3, WorkInvStep
  <2>6. KnownInv' BY <2>1, <2>3, KnownInvStep
  <2>7. OrdInv' BY <2>1, OrdInvStep
  <2>8. HeldInv' BY <2>1, HeldInvStep
  <2>9. ServedInv' BY <2>1, <2>3, ServedInvStep
  <2>10. EventInv' BY <2>1, <2>3, EventInvStep
  <2> QED
    BY <2>2, <2>3, <2>4, <2>5, <2>6, <2>7, <2>8, <2>9, <2>10
    DEF IInv, Types
<1> QED BY <1>1, <1>2, <1>3 DEF Next

\* The invariant holds in every state of every behaviour, for every number
\* of clients, keys and slots.
THEOREM InvariantHolds == Spec => []IInv
<1>1. Init => IInv BY InitIInv
<1>2. IInv /\ [Next]_vars => IInv' BY NextIInv
<1> QED BY <1>1, <1>2, PTL DEF Spec

\* What the invariant says of the table.
LEMMA InvariantIsSound ==
    ASSUME IInv
    PROVE  TableSound
<1>1. \A k \in Keys : FindSlot(k) = Entries(k) BY FindsEntries DEF IInv
<1>2. TypeOK
  BY DEF IInv, Types, TableTypes, CallTypes, HistTypes, CallInv, Busy, TypeOK,
     Slots, Cells
<1>3. ASSUME NEW k \in Keys, NEW c \in Clients, Standing(handle[c][k])
      PROVE  /\ handle[c][k] \in Known /\ handle[c][k].owner = c
             /\ handle[c][k].key = k
             /\ \/ \E s \in Entries(k) : Backs(s, k, handle[c][k])
                \/ pc[c] = "fill" /\ work[c].lease.id = handle[c][k].id
  <2>1. handle[c][k] # NoLease BY <1>3 DEF Standing
  <2>2. handle[c][k].owner = c /\ handle[c][k].key = k
    BY <2>1 DEF IInv, OrdInv
  <2>3. \/ \E s \in Slots : Backs(s, k, handle[c][k])
        \/ pc[c] = "fill" /\ work[c].lease.id = handle[c][k].id
    BY <1>3 DEF IInv, HeldInv
  <2> QED BY <2>1, <2>2, <2>3, KnownIn DEF Backs, Entries
<1>4. NeverEvicted
  BY <1>1, <1>3 DEF NeverEvicted, Backs
<1>5. OneHolder
  <2> SUFFICES ASSUME NEW k \in Keys, NEW c \in Clients, NEW d \in Clients,
                      Standing(handle[c][k]), Standing(handle[d][k])
               PROVE  c = d
    BY DEF OneHolder
  <2>1. CASE \E s \in Entries(k) : Backs(s, k, handle[c][k])
    <3>1. PICK s \in Entries(k) : Backs(s, k, handle[c][k]) BY <2>1
    <3>2. CASE \E u \in Entries(k) : Backs(u, k, handle[d][k])
      <4>1. PICK u \in Entries(k) : Backs(u, k, handle[d][k]) BY <3>2
      <4>2. s = u BY DEF IInv, TableInv, Entries
      <4>3. handle[c][k].id = handle[d][k].id BY <3>1, <4>1, <4>2 DEF Backs
      <4>4. SameTenure(handle[c][k], handle[d][k])
        BY <1>3, <4>3 DEF IInv, KnownInv
      <4> QED BY <1>3, <4>4 DEF SameTenure
    <3>3. CASE pc[d] = "fill" /\ work[d].lease.id = handle[d][k].id
      <4>1. pc[d] \in Busy BY <3>3 DEF Busy
      <4>2. /\ Fits(d, work[d]) /\ work[d].kind # "released"
            /\ work[d].kind \in {"acquired", "renewed", "released"}
        BY <3>3, <4>1, WorkTypes DEF IInv, CallInv
      <4>3. Entries(work[d].lease.key) = {} BY <3>3, <4>2 DEF Fits
      <4>4. SameTenure(work[d].lease, handle[d][k])
        BY <1>3, <3>3, <4>1, KnownIn DEF IInv, KnownInv
      <4>5. work[d].lease.key = k BY <1>3, <4>4 DEF SameTenure
      <4> QED BY <4>3, <4>5
    <3> QED BY <1>3, <3>2, <3>3
  <2>2. CASE \E u \in Entries(k) : Backs(u, k, handle[d][k])
    <3>1. CASE pc[c] = "fill" /\ work[c].lease.id = handle[c][k].id
      <4>1. pc[c] \in Busy BY <3>1 DEF Busy
      <4>2. /\ Fits(c, work[c]) /\ work[c].kind # "released"
            /\ work[c].kind \in {"acquired", "renewed", "released"}
        BY <3>1, <4>1, WorkTypes DEF IInv, CallInv
      <4>3. Entries(work[c].lease.key) = {} BY <3>1, <4>2 DEF Fits
      <4>4. SameTenure(work[c].lease, handle[c][k])
        BY <1>3, <3>1, <4>1, KnownIn DEF IInv, KnownInv
      <4>5. work[c].lease.key = k BY <1>3, <4>4 DEF SameTenure
      <4> QED BY <2>2, <4>3, <4>5
    <3> QED BY <1>3, <2>1, <3>1
  <2>3. CASE pc[c] = "fill" /\ pc[d] = "fill"
    BY <2>3, WorkTypes DEF Busy
  <2> QED BY <1>3, <2>1, <2>2, <2>3
<1>6. EntriesReachable
  <2> SUFFICES ASSUME NEW s \in Slots, table[s].state = "occupied"
               PROVE  FindSlot(table[s].lease.key) = {s}
    BY DEF EntriesReachable, IInv, Types, TableTypes
  <2>1. table[s].lease \in Leases BY EntryTypes DEF IInv
  <2>2. table[s].lease.key \in Keys BY <2>1 DEF Leases
  <2>3. Entries(table[s].lease.key) = {s}
    BY <2>2 DEF Entries, Matches, IInv, TableInv
  <2> QED BY <1>1, <2>2, <2>3
<1>7. EventsFollowTable
  <2> SUFFICES ASSUME lock = NoOne, faults = 0, NEW k \in Keys
               PROVE  /\ \A s \in FindSlot(k) :
                            LET l == table[s].lease IN
                            last[k].kind # "released" /\ last[k].rev = l.rev
                              /\ last[k].id = l.id /\ last[k].exp = l.exp
                      /\ last[k].kind \in {"acquired", "renewed"}
                           /\ last[k].exp > clock => FindSlot(k) # {}
    BY DEF EventsFollowTable
  <2>1. ~InHand(k) BY NobodyBusy DEF InHand, Busy
  <2>2. Told(k) BY <2>1 DEF IInv, EventInv
  <2> QED BY <1>1, <2>2 DEF Told, Entries
<1> QED BY <1>2, <1>4, <1>5, <1>6, <1>7 DEF TableSound

\* The table and its events are sound in every reachable state: one holder for
\* each key, no live lease evicted, every entry found by its probe, and, while
\* nothing has failed, the last event of a key tells what the table holds for
\* it (acquire, renew, release and the lookups of state.rs, with deaths and
\* failed publishes anywhere).
THEOREM TableIsSound == Spec => []TableSound
<1>1. IInv => TableSound BY InvariantIsSound
<1> QED BY <1>1, InvariantHolds, PTL

\* Fence::admit compares ids and so serves the tenures of a key in order,
\* whoever presents its lease and however late.
THEOREM FenceServesInOrder == Spec => TenuresServedInOrder
<1> DEFINE Ordered == \A k \in Keys : served'[k] >= served[k]
<1>1. ASSUME IInv, [Next]_vars PROVE Ordered
  <2>1. served \in [Keys -> Nat]
    BY <1>1 DEF IInv, Types, HistTypes
  <2>2. CASE served' = served BY <2>1, <2>2
  <2>3. ASSUME NEW c \in Clients, NEW k \in Keys, Use(c, k) PROVE Ordered
    <3> DEFINE h == handle[c][k]
    <3>1. h # NoLease /\ h.id >= high[k] BY <2>3 DEF Use, Admits
    <3>2. h \in Known /\ h.key = k
      BY <1>1, <3>1, KnownIn DEF IInv, OrdInv
    <3>3. h.ord >= served[k] BY <1>1, <3>1, <3>2 DEF IInv, ServedInv
    <3>4. served' = [served EXCEPT ![k] = h.ord] BY <2>3 DEF Use
    <3> HIDE DEF h
    <3> QED BY <2>1, <3>3, <3>4
  <2>4. served' = served \/ \E c \in Clients, k \in Keys : Use(c, k)
    BY <1>1 DEF Next, vars, Tick, ClientStep, Call, AcquireOccupied,
       AcquireFails, AcquireMints, FindsNothing, Restore, RenewMints,
       ReleaseMints, Publish, PublishFails, StoreBegins, StoreEnds, Release,
       Crash, fenceVars
  <2> QED BY <2>2, <2>3, <2>4
<1>2. IInv /\ [Next]_vars => [Ordered]_vars BY <1>1
<1> HIDE DEF Ordered
<1>3. Spec => [][Ordered]_vars
  BY <1>2, InvariantHolds, PTL DEF Spec
<1> QED BY <1>3 DEF TenuresServedInOrder, Ordered
=============================================================================
