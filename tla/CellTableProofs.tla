-------------------------- MODULE CellTableProofs --------------------------
(***************************************************************************)
(* The cells of a table are sound for any number of threads and processes, *)
(* any capacity and any bounds: Spec => []CellsSound.                      *)
(*                                                                         *)
(* The argument has three strands.                                         *)
(*  - A handle names the generation its slot has (HandleInv).  The slot of *)
(*    a handle is not installed again because the pins of a row are exactly*)
(*    the threads of its process that hold or build a cell there (PinsInv),*)
(*    and allocate takes a slot only when no row pins it (InstallInv).     *)
(*  - The value of a tally is what was handed out, because the exchange of *)
(*    add_until starts from the value it compares with (ValueInv).         *)
(*  - A sleeper that should not sleep has somebody between the change and  *)
(*    the wake (Wakeful).  The count of waiters is at least the number of  *)
(*    registered threads, so the writer that looks cannot miss one; the    *)
(*    parking sequence a thread took is still there when it parks, or it   *)
(*    has been passed, because the sequence never wraps (SinceInv).        *)
(***************************************************************************)
EXTENDS CellTable, FiniteSetTheorems, TLAPS

-----------------------------------------------------------------------------
(***************************************************************************)
(* The inductive invariant                                                 *)
(***************************************************************************)

Places == {"idle", "again", "install", "occupy", "write", "load", "swap",
           "count", "look", "bump", "wake", "rouse", "fail"} \cup Waiting

SlotType ==
    [state : {"empty", "occupied", "retired"}, tag : {"flag", "tally"},
     gen : 0 .. MaxGen, from : Nat, value : Nat, changes : Nat,
     seq : 0 .. MaxSeq, waiters : Nat]

SlotTypes == slot \in [Slots -> SlotType]

TableTypes ==
    /\ hint \in Slots
    /\ lock \in Threads \cup {NoOne}
    /\ row \in [Procs -> Rows \cup {NoRow}]
    /\ granted \in [Slots -> Nat]
    /\ crashes \in Nat

PinTypes == pins \in [Rows -> [Slots -> Nat]]

HandleTypes ==
    /\ handle \in [Threads -> Handles]
    /\ on \in [Threads -> Slots]

ThreadTypes ==
    /\ pc \in [Threads -> Places]
    /\ since \in [Threads -> Nat]
    /\ observed \in [Threads -> 0 .. MaxSeq]
    /\ current \in [Threads -> Nat]
    /\ stop \in [Threads -> BOOLEAN]

Types == SlotTypes /\ TableTypes /\ PinTypes /\ HandleTypes /\ ThreadTypes

Holds(t, i) == handle[t] # NoHandle /\ handle[t].slot = i
Building(t) == pc[t] \in {"install", "occupy"}

\* A row has one owner, and whoever is at work belongs to a running process.
RowsInv ==
    /\ \A p, q \in Procs : row[p] = row[q] /\ row[p] # NoRow => p = q
    /\ \A t \in Threads :
          pc[t] # "idle" \/ handle[t] # NoHandle => row[ProcOf[t]] # NoRow

\* Allocation happens under the structural lock, by a thread with no handle.
LockInv ==
    \A t \in Threads : pc[t] \in {"again", "install", "occupy"} =>
        lock = t /\ handle[t] = NoHandle

\* An operation is about the slot of the handle it was called on.
OpInv ==
    \A t \in Threads :
        pc[t] \in {"write", "load", "swap", "rouse", "fail"} \cup Waiting =>
            Holds(t, on[t])

\* Nobody's handle is of another generation than its slot.
HandleInv ==
    \A t \in Threads : handle[t] # NoHandle =>
        slot[handle[t].slot].gen = handle[t].gen

\* A cell is built in a slot nobody holds.
InstallInv ==
    \A t \in Threads : Building(t) =>
        /\ \A u \in Threads : ~Holds(u, on[t])
        /\ pc[t] = "install" => slot[on[t]].gen < MaxGen
        /\ pc[t] = "occupy" => slot[on[t]].gen > 0
        /\ slot[on[t]].state # "occupied"

OccInv == \A i \in Slots : slot[i].state = "occupied" => slot[i].gen > 0

Pinning(t, i) == Holds(t, i) \/ (Building(t) /\ on[t] = i)
Pinners(p, i) == {t \in Threads : ProcOf[t] = p /\ Pinning(t, i)}

\* The pins of a row are the handles of its process.
PinsInv ==
    \A p \in Procs, i \in Slots :
        row[p] # NoRow => pins[row[p]][i] = Cardinality(Pinners(p, i))

\* What a cell holds was written in its generation, and handed out by it.
ValueInv ==
    /\ \A i \in Slots : /\ slot[i].from = slot[i].gen
                        /\ slot[i].value = granted[i] /\ slot[i].value <= Limit
    /\ \A t \in Threads : pc[t] = "swap" => current[t] < Limit

\* What a waiter remembers is not ahead of its slot.
SinceInv ==
    \A t \in Threads :
        /\ pc[t] \in Waiting => since[t] <= slot[on[t]].changes
        /\ pc[t] \in {"recheck", "park", "asleep"} =>
              observed[t] <= slot[on[t]].seq
        /\ pc[t] = "park" => observed[t] # MaxSeq

\* Who is about to count a change, to wake for one, to move the sequence for
\* one, and the same two for an interrupt.
WillCount(i)  == \E w \in Threads : on[w] = i /\ pc[w] = "count"
WillWake(i)   == \E w \in Threads :
                    on[w] = i /\ pc[w] \in {"look", "bump", "wake"}
WillBump(i)   == \E w \in Threads : on[w] = i /\ pc[w] \in {"look", "bump"}
WillRouse(i)  == \E w \in Threads :
                    on[w] = i /\ pc[w] \in {"rouse", "bump", "wake"}
WillNotify(i) == \E w \in Threads : on[w] = i /\ pc[w] \in {"rouse", "bump"}

InWait == {"register", "snapshot", "recheck", "park", "asleep"}
Wakers == {"count", "look", "bump", "wake", "rouse"}

\* A waiter of a retired cell sees the change, or it is still to be counted.
RetiredCounts ==
    \A t \in Threads :
        pc[t] \in InWait /\ slot[on[t]].state # "occupied" =>
            slot[on[t]].changes # since[t] \/ WillCount(on[t])

SleeperWoken ==
    \A t \in Threads :
        pc[t] = "asleep" /\ slot[on[t]].changes # since[t] => WillWake(on[t])

\* About to park over a change: the kernel will see that the sequence moved.
ParkerStopped ==
    \A t \in Threads :
        pc[t] = "park" /\ slot[on[t]].changes # since[t] =>
            slot[on[t]].seq # observed[t] \/ WillBump(on[t])

SleeperRoused ==
    \A t \in Threads :
        pc[t] = "asleep" /\ stop[t] =>
            slot[on[t]].state # "occupied" \/ WillRouse(on[t])

ParkerRoused ==
    \A t \in Threads :
        pc[t] = "park" /\ stop[t] =>
            \/ slot[on[t]].seq # observed[t]
            \/ slot[on[t]].state # "occupied"
            \/ WillNotify(on[t])

Wakeful ==
    crashes = 0 =>
        /\ RetiredCounts
        /\ SleeperWoken
        /\ ParkerStopped
        /\ SleeperRoused
        /\ ParkerRoused

IInv ==
    /\ Types
    /\ RowsInv
    /\ LockInv
    /\ OpInv
    /\ HandleInv
    /\ InstallInv
    /\ OccInv
    /\ PinsInv
    /\ ValueInv
    /\ SinceInv
    /\ WaitersCounted
    /\ Wakeful

-----------------------------------------------------------------------------
(***************************************************************************)
(* What one step does to a slot, to the pins and to the counts             *)
(***************************************************************************)

\* A step changes slot i only, and of it only the fields in F.
Changes(i, F) ==
    /\ slot' \in [Slots -> SlotType]
    /\ \A j \in Slots \ {i} : slot'[j] = slot[j]
    /\ "state" \notin F => slot'[i].state = slot[i].state
    /\ "tag" \notin F => slot'[i].tag = slot[i].tag
    /\ "gen" \notin F => slot'[i].gen = slot[i].gen
    /\ "from" \notin F => slot'[i].from = slot[i].from
    /\ "value" \notin F => slot'[i].value = slot[i].value
    /\ "changes" \notin F => slot'[i].changes = slot[i].changes
    /\ "seq" \notin F => slot'[i].seq = slot[i].seq
    /\ "waiters" \notin F => slot'[i].waiters = slot[i].waiters

\* The bounds are numbers.
LEMMA Bounds == MaxGen \in Nat /\ MaxSeq \in Nat
  BY BoundAssumption

\* A slot of the table gives way to another record of the right type.
LEMMA SlotUpdate ==
    ASSUME SlotTypes, NEW i \in Slots, NEW r \in SlotType,
           slot' = [slot EXCEPT ![i] = r]
    PROVE  /\ slot' \in [Slots -> SlotType]
           /\ slot'[i] = r
           /\ \A j \in Slots \ {i} : slot'[j] = slot[j]
  BY DEF SlotTypes

\* A thread that has registered is counted by the slot it waits on (wait_if).
LEMMA RegisteredAreCounted ==
    ASSUME IInv, NEW t \in Threads,
           pc[t] \in {"snapshot", "recheck", "park", "asleep", "leave", "fail"}
    PROVE  slot[on[t]].waiters # 0
<1>1. on[t] \in Slots /\ t \in Registered(on[t])
  BY DEF IInv, Types, HandleTypes, Registered
<1>2. IsFiniteSet(Registered(on[t]))
  BY ThreadsAssumption, FS_Subset DEF Registered
<1>3. Cardinality(Registered(on[t])) \in Nat
      /\ Cardinality(Registered(on[t])) # 0
  BY <1>1, <1>2, FS_EmptySet, FS_CardinalityType
<1>4. slot[on[t]].waiters >= Cardinality(Registered(on[t]))
  BY <1>1 DEF IInv, WaitersCounted
<1>5. slot[on[t]].waiters \in Nat
  BY <1>1 DEF IInv, Types, SlotTypes, SlotType
<1> QED BY <1>3, <1>4, <1>5

\* A slot no row pins is held and built in by nobody (Owners::pinned).
LEMMA FreeIsUnheld ==
    ASSUME IInv, NEW i \in Slots, ~Pinned(i), NEW t \in Threads
    PROVE  ~Pinning(t, i)
<1> SUFFICES ASSUME Pinning(t, i) PROVE FALSE
  OBVIOUS
<1> DEFINE p == ProcOf[t]
<1>1. p \in Procs BY ProcAssumption
<1>2. row[p] # NoRow
  BY DEF IInv, RowsInv, Pinning, Holds, Building
<1>3. row[p] \in Rows BY <1>1, <1>2 DEF IInv, Types, TableTypes
<1>4. t \in Pinners(p, i) BY DEF Pinners
<1>5. IsFiniteSet(Pinners(p, i))
  BY ThreadsAssumption, FS_Subset DEF Pinners
<1>6. Cardinality(Pinners(p, i)) # 0 BY <1>4, <1>5, FS_EmptySet
<1>7. pins[row[p]][i] # 0 BY <1>1, <1>2, <1>6 DEF IInv, PinsInv
<1> QED BY <1>3, <1>7 DEF Pinned

\* A free slot is not in use, and has a generation left.
LEMMA FreeHasRoom ==
    ASSUME IInv, NEW i \in Slots, Free(i)
    PROVE  slot[i].state # "occupied" /\ slot[i].gen < MaxGen
<1>1. slot[i].gen \in 0 .. MaxGen
  BY DEF IInv, Types, SlotTypes, SlotType
<1>2. slot[i].gen # MaxGen /\ slot[i].state \in {"empty", "retired"}
  BY DEF Free
<1> QED BY <1>1, <1>2, Bounds


\* wait_if counts one waiter more.
LEMMA RegisterEffect ==
    ASSUME IInv, NEW t \in Threads, Register(t)
    PROVE  /\ Changes(on[t], {"waiters"})
           /\ slot'[on[t]].waiters = slot[on[t]].waiters + 1
<1> DEFINE i == on[t]
           r == [slot[i] EXCEPT !.waiters = @ + 1]
<1>1. i \in Slots /\ slot[i] \in SlotType
  BY DEF IInv, Types, SlotTypes, HandleTypes
<1>3. r \in SlotType BY <1>1, BoundAssumption DEF SlotType
<1>4. slot' = [slot EXCEPT ![i] = r] BY DEF Register
<1>5. /\ slot' \in [Slots -> SlotType] /\ slot'[i] = r
      /\ \A j \in Slots \ {i} : slot'[j] = slot[j]
  BY <1>1, <1>3, <1>4, SlotUpdate DEF IInv, Types
<1> QED BY <1>1, <1>5 DEF Changes, SlotType


\* Registration::drop counts one waiter less, and there is one.
LEMMA LeaveEffect ==
    ASSUME IInv, NEW t \in Threads, Leave(t)
    PROVE  /\ Changes(on[t], {"waiters"})
           /\ slot'[on[t]].waiters = slot[on[t]].waiters - 1
           /\ slot[on[t]].waiters # 0
<1> DEFINE i == on[t]
           r == [slot[i] EXCEPT !.waiters = @ - 1]
<1>1. i \in Slots /\ slot[i] \in SlotType
  BY DEF IInv, Types, SlotTypes, HandleTypes
<1>2. slot[i].waiters - 1 \in Nat /\ slot[i].waiters # 0
  <2>1. slot[i].waiters # 0 BY RegisteredAreCounted DEF Leave
  <2> QED BY <1>1, <2>1 DEF SlotType
<1>3. r \in SlotType BY <1>1, <1>2, BoundAssumption DEF SlotType
<1>4. slot' = [slot EXCEPT ![i] = r] BY DEF Leave, Deregister
<1>5. /\ slot' \in [Slots -> SlotType] /\ slot'[i] = r
      /\ \A j \in Slots \ {i} : slot'[j] = slot[j]
  BY <1>1, <1>3, <1>4, SlotUpdate DEF IInv, Types
<1> QED BY <1>1, <1>2, <1>5 DEF Changes, SlotType


\* So it does when the sequence is exhausted.
LEMMA LeaveExhaustedEffect ==
    ASSUME IInv, NEW t \in Threads, LeaveExhausted(t)
    PROVE  /\ Changes(on[t], {"waiters"})
           /\ slot'[on[t]].waiters = slot[on[t]].waiters - 1
           /\ slot[on[t]].waiters # 0
<1> DEFINE i == on[t]
           r == [slot[i] EXCEPT !.waiters = @ - 1]
<1>1. i \in Slots /\ slot[i] \in SlotType
  BY DEF IInv, Types, SlotTypes, HandleTypes
<1>2. slot[i].waiters - 1 \in Nat /\ slot[i].waiters # 0
  <2>1. slot[i].waiters # 0 BY RegisteredAreCounted DEF LeaveExhausted
  <2> QED BY <1>1, <2>1 DEF SlotType
<1>3. r \in SlotType BY <1>1, <1>2, BoundAssumption DEF SlotType
<1>4. slot' = [slot EXCEPT ![i] = r] BY DEF LeaveExhausted, Deregister
<1>5. /\ slot' \in [Slots -> SlotType] /\ slot'[i] = r
      /\ \A j \in Slots \ {i} : slot'[j] = slot[j]
  BY <1>1, <1>3, <1>4, SlotUpdate DEF IInv, Types
<1> QED BY <1>1, <1>2, <1>5 DEF Changes, SlotType


\* CellSlot::changed moves the version.
LEMMA CountChangeEffect ==
    ASSUME IInv, NEW t \in Threads, CountChange(t)
    PROVE  /\ Changes(on[t], {"changes"})
           /\ slot'[on[t]].changes = slot[on[t]].changes + 1
<1> DEFINE i == on[t]
           r == [slot[i] EXCEPT !.changes = @ + 1]
<1>1. i \in Slots /\ slot[i] \in SlotType
  BY DEF IInv, Types, SlotTypes, HandleTypes
<1>3. r \in SlotType BY <1>1, BoundAssumption DEF SlotType
<1>4. slot' = [slot EXCEPT ![i] = r] BY DEF CountChange
<1>5. /\ slot' \in [Slots -> SlotType] /\ slot'[i] = r
      /\ \A j \in Slots \ {i} : slot'[j] = slot[j]
  BY <1>1, <1>3, <1>4, SlotUpdate DEF IInv, Types
<1> QED BY <1>1, <1>5 DEF Changes, SlotType


\* Wake::notify moves the sequence up to its maximum.
LEMMA BumpSequenceEffect ==
    ASSUME IInv, NEW t \in Threads, BumpSequence(t)
    PROVE  /\ Changes(on[t], {"seq"})
           /\ slot'[on[t]].seq = IF slot[on[t]].seq < MaxSeq
                               THEN slot[on[t]].seq + 1
                               ELSE slot[on[t]].seq
<1> DEFINE i == on[t]
           r == [slot[i] EXCEPT !.seq = IF @ < MaxSeq THEN @ + 1 ELSE @]
<1>1. i \in Slots /\ slot[i] \in SlotType
  BY DEF IInv, Types, SlotTypes, HandleTypes
<1>3. r \in SlotType BY <1>1, BoundAssumption DEF SlotType
<1>4. slot' = [slot EXCEPT ![i] = r] BY DEF BumpSequence
<1>5. /\ slot' \in [Slots -> SlotType] /\ slot'[i] = r
      /\ \A j \in Slots \ {i} : slot'[j] = slot[j]
  BY <1>1, <1>3, <1>4, SlotUpdate DEF IInv, Types
<1> QED BY <1>1, <1>5 DEF Changes, SlotType


\* install opens the cell.
LEMMA InstallStateEffect ==
    ASSUME IInv, NEW t \in Threads, InstallState(t)
    PROVE  /\ Changes(on[t], {"state"})
           /\ slot'[on[t]].state = "occupied"
<1> DEFINE i == on[t]
           r == [slot[i] EXCEPT !.state = "occupied"]
<1>1. i \in Slots /\ slot[i] \in SlotType
  BY DEF IInv, Types, SlotTypes, HandleTypes
<1>3. r \in SlotType BY <1>1, BoundAssumption DEF SlotType
<1>4. slot' = [slot EXCEPT ![i] = r] BY DEF InstallState
<1>5. /\ slot' \in [Slots -> SlotType] /\ slot'[i] = r
      /\ \A j \in Slots \ {i} : slot'[j] = slot[j]
  BY <1>1, <1>3, <1>4, SlotUpdate DEF IInv, Types
<1> QED BY <1>1, <1>5 DEF Changes, SlotType


\* A store leaves the generation of its handle.
LEMMA WriteEffect ==
    ASSUME IInv, NEW t \in Threads, Write(t)
    PROVE  /\ Changes(on[t], {"from"})
           /\ slot'[on[t]].from = handle[t].gen
<1> DEFINE i == on[t]
           r == [slot[i] EXCEPT !.from = handle[t].gen]
<1>1. i \in Slots /\ slot[i] \in SlotType
  BY DEF IInv, Types, SlotTypes, HandleTypes
<1>2. handle[t].gen \in Nat
  BY BoundAssumption DEF IInv, Types, HandleTypes, Handles, NoHandle
<1>3. r \in SlotType BY <1>1, <1>2, BoundAssumption DEF SlotType
<1>4. slot' = [slot EXCEPT ![i] = r] BY DEF Write
<1>5. /\ slot' \in [Slots -> SlotType] /\ slot'[i] = r
      /\ \A j \in Slots \ {i} : slot'[j] = slot[j]
  BY <1>1, <1>3, <1>4, SlotUpdate DEF IInv, Types
<1> QED BY <1>1, <1>2, <1>5 DEF Changes, SlotType


\* install starts the slot over in its next generation.
LEMMA InstallFieldsEffect ==
    ASSUME IInv, NEW t \in Threads, InstallFields(t)
    PROVE  /\ Changes(on[t], {"tag", "gen", "from", "value", "changes",
                              "seq", "waiters"})
           /\ slot'[on[t]].gen = slot[on[t]].gen + 1
           /\ slot'[on[t]].from = slot[on[t]].gen + 1
           /\ slot'[on[t]].value = 0 /\ slot'[on[t]].changes = 0
           /\ slot'[on[t]].seq = 0 /\ slot'[on[t]].waiters = 0
           /\ pc[t] = "install" /\ pc' = [pc EXCEPT ![t] = "occupy"]
           /\ granted' = [granted EXCEPT ![on[t]] = 0]
           /\ UNCHANGED <<hint, lock, row, pins, handle, on, since, observed,
                          current, stop, crashes>>
<1> DEFINE i == on[t]
<1>1. i \in Slots /\ slot[i] \in SlotType
  BY DEF IInv, Types, SlotTypes, HandleTypes
<1>2. PICK tag \in Tags :
        slot' = [slot EXCEPT ![i] =
                   [EmptySlot EXCEPT !.state = slot[i].state, !.tag = tag,
                                     !.gen = slot[i].gen + 1,
                                     !.from = slot[i].gen + 1]]
  BY DEF InstallFields
<1> DEFINE r == [EmptySlot EXCEPT !.state = slot[i].state, !.tag = tag,
                                  !.gen = slot[i].gen + 1,
                                  !.from = slot[i].gen + 1]
<1>3. r \in SlotType
  <2>1. tag \in {"flag", "tally"} BY TagAssumption
  <2>2. slot[i].gen < MaxGen
    BY DEF IInv, InstallInv, Building, InstallFields
  <2>3. /\ slot[i].gen + 1 \in 0 .. MaxGen /\ slot[i].gen + 1 \in Nat
        /\ slot[i].state \in {"empty", "occupied", "retired"}
    BY <1>1, <2>2, BoundAssumption DEF SlotType
  <2>4. 0 \in 0 .. MaxSeq /\ 0 \in Nat BY BoundAssumption
  <2> QED BY <2>1, <2>3, <2>4 DEF SlotType, EmptySlot
<1>4. /\ slot' \in [Slots -> SlotType] /\ slot'[i] = r
      /\ \A j \in Slots \ {i} : slot'[j] = slot[j]
  BY <1>1, <1>2, <1>3, SlotUpdate DEF IInv, Types
<1>5. /\ Changes(i, {"tag", "gen", "from", "value", "changes", "seq",
                     "waiters"})
      /\ slot'[i].gen = slot[i].gen + 1 /\ slot'[i].from = slot[i].gen + 1
      /\ slot'[i].value = 0 /\ slot'[i].changes = 0
      /\ slot'[i].seq = 0 /\ slot'[i].waiters = 0
  BY <1>1, <1>4 DEF Changes, SlotType, EmptySlot
<1> QED BY <1>5 DEF InstallFields, Goes, ownVars

\* release retires an occupied slot.
LEMMA RetireEffect ==
    ASSUME IInv, NEW t \in Threads, Retire(t)
    PROVE  \E i \in Slots :
              /\ Changes(i, {"state"}) /\ slot'[i].state = "retired"
              /\ slot[i].state = "occupied" /\ on' = [on EXCEPT ![t] = i]
<1>1. PICK i \in Slots : /\ slot' = [slot EXCEPT ![i].state = "retired"]
                         /\ slot[i].state = "occupied"
                         /\ on' = [on EXCEPT ![t] = i]
  BY DEF Retire
<1> DEFINE r == [slot[i] EXCEPT !.state = "retired"]
<1>2. slot[i] \in SlotType BY DEF IInv, Types, SlotTypes
<1>3. r \in SlotType BY <1>2 DEF SlotType
<1>4. /\ slot' \in [Slots -> SlotType] /\ slot'[i] = r
      /\ \A j \in Slots \ {i} : slot'[j] = slot[j]
  BY <1>1, <1>3, SlotUpdate DEF IInv, Types
<1>5. Changes(i, {"state"}) /\ slot'[i].state = "retired"
  BY <1>2, <1>4 DEF Changes, SlotType
<1> QED BY <1>1, <1>5

\* add_until takes something of what is left, or goes round again.
LEMMA AddSwapsEffect ==
    ASSUME IInv, NEW t \in Threads, AddSwaps(t)
    PROVE  /\ Changes(on[t], {"from", "value"})
           /\ slot'[on[t]].from \in {slot[on[t]].from, handle[t].gen}
           /\ slot'[on[t]].value \in Nat /\ slot'[on[t]].value <= Limit
           /\ granted' = [granted EXCEPT ![on[t]] = slot'[on[t]].value]
           /\ \E s \in {"load", "count"} : pc' = [pc EXCEPT ![t] = s]
           /\ pc[t] = "swap" /\ current' = [current EXCEPT ![t] = 0]
           /\ UNCHANGED <<hint, lock, row, pins, handle, on, since, observed,
                          stop, crashes>>
<1> DEFINE i == on[t]
           v == current[t] + Taken(current[t])
           r == [slot[i] EXCEPT !.from = handle[t].gen, !.value = v]
<1>1. i \in Slots /\ slot[i] \in SlotType /\ current[t] \in Nat
  BY DEF IInv, Types, SlotTypes, HandleTypes, ThreadTypes
<1>2. CASE Moved(t)
  <2>1. slot' = slot /\ granted' = granted BY <1>2 DEF AddSwaps
  <2>2. /\ Changes(i, {"from", "value"})
        /\ slot'[i].from = slot[i].from /\ slot'[i].value = granted[i]
        /\ slot'[i].value \in Nat /\ slot'[i].value <= Limit
    BY <1>1, <2>1 DEF Changes, IInv, Types, SlotTypes, SlotType, ValueInv
  <2>3. granted' = [granted EXCEPT ![i] = granted[i]]
    BY <1>1, <2>1 DEF IInv, Types, TableTypes
  <2> QED BY <1>2, <2>2, <2>3 DEF AddSwaps, Goes, ownVars
<1>3. CASE ~Moved(t)
  <2>1. current[t] < Limit BY DEF IInv, ValueInv, AddSwaps
  <2>2. /\ Taken(current[t]) \in Nat /\ v \in Nat /\ v <= Limit
    BY <1>1, <2>1, AddAssumption DEF Taken
  <2>3. handle[t].gen \in Nat
    BY BoundAssumption DEF IInv, Types, HandleTypes, Handles, NoHandle
  <2>4. r \in SlotType BY <1>1, <2>2, <2>3 DEF SlotType
  <2>5. slot' = [slot EXCEPT ![i] = r] BY <1>3 DEF AddSwaps
  <2>6. /\ slot' \in [Slots -> SlotType] /\ slot'[i] = r
        /\ \A j \in Slots \ {i} : slot'[j] = slot[j]
    BY <1>1, <2>4, <2>5, SlotUpdate DEF IInv, Types
  <2>7. /\ Changes(i, {"from", "value"}) /\ slot'[i].from = handle[t].gen
        /\ slot'[i].value = v
    BY <1>1, <2>2, <2>3, <2>6 DEF Changes, SlotType
  <2>8. granted' = [granted EXCEPT ![i] = v]
    <3>1. granted[i] = current[t]
      BY <1>1, <1>3 DEF IInv, ValueInv, Moved
    <3>2. granted' = [granted EXCEPT ![i] = granted[i] + Taken(current[t])]
      BY <1>3 DEF AddSwaps
    <3> QED BY <3>1, <3>2
  <2> QED BY <1>3, <2>2, <2>7, <2>8 DEF AddSwaps, Goes, ownVars
<1> QED BY <1>2, <1>3

\* A process keeps its row to itself, and a thread at work keeps it running.
LEMMA RowsKept ==
    ASSUME IInv, Next
    PROVE  RowsInv'
<1> USE ProcAssumption DEF RowsInv, Types, TableTypes, HandleTypes,
        ThreadTypes, IInv, Goes, Idle, Running, ownVars, threadVars
<1>1. ASSUME NEW t \in Threads, AllocTakes(t) PROVE RowsInv'
  BY <1>1 DEF AllocTakes, LeaseOn, FirstFree, Free
<1>2. ASSUME NEW t \in Threads, AllocReclaims(t) PROVE RowsInv'
  BY <1>2 DEF AllocReclaims, Dead
<1>3. ASSUME NEW t \in Threads, AllocFull(t) PROVE RowsInv'
  BY <1>3 DEF AllocFull
<1>4. ASSUME NEW t \in Threads, InstallFields(t) PROVE RowsInv'
  BY <1>4, InstallFieldsEffect DEF Changes
<1>5. ASSUME NEW t \in Threads, InstallState(t) PROVE RowsInv'
  BY <1>5 DEF InstallState
<1>6. ASSUME NEW t \in Threads, Open(t) PROVE RowsInv'
  BY <1>6 DEF Open, LeaseOn
<1>7. ASSUME NEW t \in Threads, Retire(t) PROVE RowsInv'
  BY <1>7 DEF Retire
<1>8. ASSUME NEW t \in Threads, DropHandle(t) PROVE RowsInv'
  BY <1>8 DEF DropHandle
<1>9. ASSUME NEW t \in Threads, WriteChecks(t) PROVE RowsInv'
  BY <1>9 DEF WriteChecks, Checks
<1>10. ASSUME NEW t \in Threads, AddChecks(t) PROVE RowsInv'
  BY <1>10 DEF AddChecks, Checks
<1>11. ASSUME NEW t \in Threads, Write(t) PROVE RowsInv'
  BY <1>11 DEF Write
<1>12. ASSUME NEW t \in Threads, AddLoads(t) PROVE RowsInv'
  BY <1>12 DEF AddLoads
<1>13. ASSUME NEW t \in Threads, AddSwaps(t) PROVE RowsInv'
  BY <1>13, AddSwapsEffect DEF Changes
<1>14. ASSUME NEW t \in Threads, CountChange(t) PROVE RowsInv'
  BY <1>14 DEF CountChange
<1>15. ASSUME NEW t \in Threads, LookForWaiters(t) PROVE RowsInv'
  BY <1>15 DEF LookForWaiters, WriteReturns
<1>16. ASSUME NEW t \in Threads, BumpSequence(t) PROVE RowsInv'
  BY <1>16 DEF BumpSequence
<1>17. ASSUME NEW t \in Threads, WakeOn(t) PROVE RowsInv'
  BY <1>17 DEF WakeOn, ParkedOn
<1>18. ASSUME NEW t \in Threads, TakeVersion(t) PROVE RowsInv'
  BY <1>18 DEF TakeVersion, Is
<1>19. ASSUME NEW t \in Threads, WaitLoops(t) PROVE RowsInv'
  BY <1>19 DEF WaitLoops, WaitReturns, Over
<1>20. ASSUME NEW t \in Threads, Register(t) PROVE RowsInv'
  BY <1>20 DEF Register
<1>21. ASSUME NEW t \in Threads, Snapshot(t) PROVE RowsInv'
  BY <1>21 DEF Snapshot
<1>22. ASSUME NEW t \in Threads, Recheck(t) PROVE RowsInv'
  BY <1>22 DEF Recheck, ShouldWait
<1>23. ASSUME NEW t \in Threads, Park(t) PROVE RowsInv'
  BY <1>23 DEF Park
<1>24. ASSUME NEW t \in Threads, Interrupted(t) PROVE RowsInv'
  BY <1>24 DEF Interrupted
<1>25. ASSUME NEW t \in Threads, Leave(t) PROVE RowsInv'
  BY <1>25 DEF Leave, Deregister
<1>26. ASSUME NEW t \in Threads, LeaveExhausted(t) PROVE RowsInv'
  BY <1>26 DEF LeaveExhausted, Deregister
<1>27. ASSUME NEW t \in Threads, SetInterrupt(t) PROVE RowsInv'
  BY <1>27 DEF SetInterrupt
<1>28. ASSUME NEW t \in Threads, WakeWaiters(t) PROVE RowsInv'
  BY <1>28 DEF WakeWaiters, Is
<1>29. ASSUME NEW p \in Procs, Crash(p) PROVE RowsInv'
  BY <1>29 DEF Crash
<1>30. ASSUME NEW p \in Procs, Claim(p) PROVE RowsInv'
  BY <1>30 DEF Claim
<1> QED
  BY <1>1, <1>2, <1>3, <1>4, <1>5, <1>6, <1>7, <1>8, <1>9, <1>10, <1>11,
     <1>12, <1>13, <1>14, <1>15, <1>16, <1>17, <1>18, <1>19, <1>20, <1>21,
     <1>22, <1>23, <1>24, <1>25, <1>26, <1>27, <1>28, <1>29, <1>30
     DEF Next, Begins, Proceeds


\* Whoever allocates keeps the lock until the cell is there.
LEMMA LockKept ==
    ASSUME IInv, Next
    PROVE  LockInv'
<1> USE ProcAssumption, NoOneAssumption DEF LockInv, RowsInv, Types,
        TableTypes, HandleTypes, ThreadTypes, IInv, Goes, Idle, Running,
        ownVars, threadVars
<1>1. ASSUME NEW t \in Threads, AllocTakes(t) PROVE LockInv'
  BY <1>1 DEF AllocTakes, LeaseOn, FirstFree, Free
<1>2. ASSUME NEW t \in Threads, AllocReclaims(t) PROVE LockInv'
  BY <1>2 DEF AllocReclaims, Dead
<1>3. ASSUME NEW t \in Threads, AllocFull(t) PROVE LockInv'
  BY <1>3 DEF AllocFull
<1>4. ASSUME NEW t \in Threads, InstallFields(t) PROVE LockInv'
  BY <1>4, InstallFieldsEffect DEF Changes
<1>5. ASSUME NEW t \in Threads, InstallState(t) PROVE LockInv'
  BY <1>5 DEF InstallState
<1>6. ASSUME NEW t \in Threads, Open(t) PROVE LockInv'
  BY <1>6 DEF Open, LeaseOn
<1>7. ASSUME NEW t \in Threads, Retire(t) PROVE LockInv'
  BY <1>7 DEF Retire
<1>8. ASSUME NEW t \in Threads, DropHandle(t) PROVE LockInv'
  BY <1>8 DEF DropHandle
<1>9. ASSUME NEW t \in Threads, WriteChecks(t) PROVE LockInv'
  BY <1>9 DEF WriteChecks, Checks
<1>10. ASSUME NEW t \in Threads, AddChecks(t) PROVE LockInv'
  BY <1>10 DEF AddChecks, Checks
<1>11. ASSUME NEW t \in Threads, Write(t) PROVE LockInv'
  BY <1>11 DEF Write
<1>12. ASSUME NEW t \in Threads, AddLoads(t) PROVE LockInv'
  BY <1>12 DEF AddLoads
<1>13. ASSUME NEW t \in Threads, AddSwaps(t) PROVE LockInv'
  BY <1>13, AddSwapsEffect DEF Changes
<1>14. ASSUME NEW t \in Threads, CountChange(t) PROVE LockInv'
  BY <1>14 DEF CountChange
<1>15. ASSUME NEW t \in Threads, LookForWaiters(t) PROVE LockInv'
  BY <1>15 DEF LookForWaiters, WriteReturns
<1>16. ASSUME NEW t \in Threads, BumpSequence(t) PROVE LockInv'
  BY <1>16 DEF BumpSequence
<1>17. ASSUME NEW t \in Threads, WakeOn(t) PROVE LockInv'
  BY <1>17 DEF WakeOn, ParkedOn
<1>18. ASSUME NEW t \in Threads, TakeVersion(t) PROVE LockInv'
  BY <1>18 DEF TakeVersion, Is
<1>19. ASSUME NEW t \in Threads, WaitLoops(t) PROVE LockInv'
  BY <1>19 DEF WaitLoops, WaitReturns, Over
<1>20. ASSUME NEW t \in Threads, Register(t) PROVE LockInv'
  BY <1>20 DEF Register
<1>21. ASSUME NEW t \in Threads, Snapshot(t) PROVE LockInv'
  BY <1>21 DEF Snapshot
<1>22. ASSUME NEW t \in Threads, Recheck(t) PROVE LockInv'
  BY <1>22 DEF Recheck, ShouldWait
<1>23. ASSUME NEW t \in Threads, Park(t) PROVE LockInv'
  BY <1>23 DEF Park
<1>24. ASSUME NEW t \in Threads, Interrupted(t) PROVE LockInv'
  BY <1>24 DEF Interrupted
<1>25. ASSUME NEW t \in Threads, Leave(t) PROVE LockInv'
  BY <1>25 DEF Leave, Deregister
<1>26. ASSUME NEW t \in Threads, LeaveExhausted(t) PROVE LockInv'
  BY <1>26 DEF LeaveExhausted, Deregister
<1>27. ASSUME NEW t \in Threads, SetInterrupt(t) PROVE LockInv'
  BY <1>27 DEF SetInterrupt
<1>28. ASSUME NEW t \in Threads, WakeWaiters(t) PROVE LockInv'
  BY <1>28 DEF WakeWaiters, Is
<1>29. ASSUME NEW p \in Procs, Crash(p) PROVE LockInv'
  BY <1>29 DEF Crash
<1>30. ASSUME NEW p \in Procs, Claim(p) PROVE LockInv'
  BY <1>30 DEF Claim
<1> QED
  BY <1>1, <1>2, <1>3, <1>4, <1>5, <1>6, <1>7, <1>8, <1>9, <1>10, <1>11,
     <1>12, <1>13, <1>14, <1>15, <1>16, <1>17, <1>18, <1>19, <1>20, <1>21,
     <1>22, <1>23, <1>24, <1>25, <1>26, <1>27, <1>28, <1>29, <1>30
     DEF Next, Begins, Proceeds


\* An operation stays with the slot of its handle.
LEMMA OpKept ==
    ASSUME IInv, Next
    PROVE  OpInv'
<1> USE ProcAssumption DEF OpInv, LockInv, Holds, Waiting, Types, TableTypes,
        HandleTypes, ThreadTypes, IInv, Goes, Idle, Running, ownVars,
        threadVars
<1>1. ASSUME NEW t \in Threads, AllocTakes(t) PROVE OpInv'
  BY <1>1 DEF AllocTakes, LeaseOn, FirstFree, Free
<1>2. ASSUME NEW t \in Threads, AllocReclaims(t) PROVE OpInv'
  BY <1>2 DEF AllocReclaims, Dead
<1>3. ASSUME NEW t \in Threads, AllocFull(t) PROVE OpInv'
  BY <1>3 DEF AllocFull
<1>4. ASSUME NEW t \in Threads, InstallFields(t) PROVE OpInv'
  BY <1>4, InstallFieldsEffect DEF Changes
<1>5. ASSUME NEW t \in Threads, InstallState(t) PROVE OpInv'
  BY <1>5 DEF InstallState
<1>6. ASSUME NEW t \in Threads, Open(t) PROVE OpInv'
  BY <1>6 DEF Open, LeaseOn
<1>7. ASSUME NEW t \in Threads, Retire(t) PROVE OpInv'
  BY <1>7 DEF Retire
<1>8. ASSUME NEW t \in Threads, DropHandle(t) PROVE OpInv'
  BY <1>8 DEF DropHandle
<1>9. ASSUME NEW t \in Threads, WriteChecks(t) PROVE OpInv'
  BY <1>9 DEF WriteChecks, Checks
<1>10. ASSUME NEW t \in Threads, AddChecks(t) PROVE OpInv'
  BY <1>10 DEF AddChecks, Checks
<1>11. ASSUME NEW t \in Threads, Write(t) PROVE OpInv'
  BY <1>11 DEF Write
<1>12. ASSUME NEW t \in Threads, AddLoads(t) PROVE OpInv'
  BY <1>12 DEF AddLoads
<1>13. ASSUME NEW t \in Threads, AddSwaps(t) PROVE OpInv'
  BY <1>13, AddSwapsEffect DEF Changes
<1>14. ASSUME NEW t \in Threads, CountChange(t) PROVE OpInv'
  BY <1>14 DEF CountChange
<1>15. ASSUME NEW t \in Threads, LookForWaiters(t) PROVE OpInv'
  BY <1>15 DEF LookForWaiters, WriteReturns
<1>16. ASSUME NEW t \in Threads, BumpSequence(t) PROVE OpInv'
  BY <1>16 DEF BumpSequence
<1>17. ASSUME NEW t \in Threads, WakeOn(t) PROVE OpInv'
  BY <1>17 DEF WakeOn, ParkedOn
<1>18. ASSUME NEW t \in Threads, TakeVersion(t) PROVE OpInv'
  BY <1>18 DEF TakeVersion, Is
<1>19. ASSUME NEW t \in Threads, WaitLoops(t) PROVE OpInv'
  BY <1>19 DEF WaitLoops, WaitReturns, Over
<1>20. ASSUME NEW t \in Threads, Register(t) PROVE OpInv'
  BY <1>20 DEF Register
<1>21. ASSUME NEW t \in Threads, Snapshot(t) PROVE OpInv'
  BY <1>21 DEF Snapshot
<1>22. ASSUME NEW t \in Threads, Recheck(t) PROVE OpInv'
  BY <1>22 DEF Recheck, ShouldWait
<1>23. ASSUME NEW t \in Threads, Park(t) PROVE OpInv'
  BY <1>23 DEF Park
<1>24. ASSUME NEW t \in Threads, Interrupted(t) PROVE OpInv'
  BY <1>24 DEF Interrupted
<1>25. ASSUME NEW t \in Threads, Leave(t) PROVE OpInv'
  BY <1>25 DEF Leave, Deregister
<1>26. ASSUME NEW t \in Threads, LeaveExhausted(t) PROVE OpInv'
  BY <1>26 DEF LeaveExhausted, Deregister
<1>27. ASSUME NEW t \in Threads, SetInterrupt(t) PROVE OpInv'
  BY <1>27 DEF SetInterrupt
<1>28. ASSUME NEW t \in Threads, WakeWaiters(t) PROVE OpInv'
  BY <1>28 DEF WakeWaiters, Is
<1>29. ASSUME NEW p \in Procs, Crash(p) PROVE OpInv'
  BY <1>29 DEF Crash
<1>30. ASSUME NEW p \in Procs, Claim(p) PROVE OpInv'
  BY <1>30 DEF Claim
<1> QED
  BY <1>1, <1>2, <1>3, <1>4, <1>5, <1>6, <1>7, <1>8, <1>9, <1>10, <1>11,
     <1>12, <1>13, <1>14, <1>15, <1>16, <1>17, <1>18, <1>19, <1>20, <1>21,
     <1>22, <1>23, <1>24, <1>25, <1>26, <1>27, <1>28, <1>29, <1>30
     DEF Next, Begins, Proceeds

\* A handle keeps naming the generation of its slot: install, which alone
\* moves a generation, works in a slot nobody holds.
LEMMA HandleKept ==
    ASSUME IInv, Next
    PROVE  HandleInv'
<1> USE Bounds DEF HandleInv, InstallInv, Holds, Building, Handles, NoHandle,
        Types, SlotTypes, SlotType, TableTypes, HandleTypes, ThreadTypes,
        IInv, Goes, Idle, Running, ownVars, threadVars
<1>1. ASSUME NEW t \in Threads, AllocTakes(t) PROVE HandleInv'
  BY <1>1 DEF AllocTakes, LeaseOn, FirstFree, Free
<1>2. ASSUME NEW t \in Threads, AllocReclaims(t) PROVE HandleInv'
  BY <1>2 DEF AllocReclaims, Dead
<1>3. ASSUME NEW t \in Threads, AllocFull(t) PROVE HandleInv'
  BY <1>3 DEF AllocFull
<1>4. ASSUME NEW t \in Threads, InstallFields(t) PROVE HandleInv'
  <2>1. /\ Changes(on[t], {"tag", "gen", "from", "value", "changes",
                           "seq", "waiters"})
        /\ slot'[on[t]].gen = slot[on[t]].gen + 1
        /\ slot'[on[t]].from = slot[on[t]].gen + 1
        /\ slot'[on[t]].value = 0 /\ slot'[on[t]].changes = 0
        /\ slot'[on[t]].seq = 0 /\ slot'[on[t]].waiters = 0
    BY <1>4, InstallFieldsEffect
  <2>2. /\ pc[t] = "install" /\ pc' = [pc EXCEPT ![t] = "occupy"]
        /\ granted' = [granted EXCEPT ![on[t]] = 0]
        /\ UNCHANGED <<handle, on, since, observed, current>>
    BY <1>4, InstallFieldsEffect
  <2>3. on[t] \in Slots OBVIOUS
  <2> QED BY <2>1, <2>2, <2>3 DEF Changes
<1>5. ASSUME NEW t \in Threads, InstallState(t) PROVE HandleInv'
  <2>1. slot'[on[t]].gen = slot[on[t]].gen
        /\ \A j \in Slots : slot'[j].gen = slot[j].gen
    BY <1>5, InstallStateEffect DEF Changes
  <2>2. handle' = [handle EXCEPT ![t] =
                     [slot |-> on[t], gen |-> slot[on[t]].gen]]
    BY <1>5 DEF InstallState
  <2> QED BY <2>1, <2>2
<1>6. ASSUME NEW t \in Threads, Open(t) PROVE HandleInv'
  BY <1>6 DEF Open, LeaseOn
<1>7. ASSUME NEW t \in Threads, Retire(t) PROVE HandleInv'
  BY <1>7, RetireEffect DEF Changes, Retire
<1>8. ASSUME NEW t \in Threads, DropHandle(t) PROVE HandleInv'
  BY <1>8 DEF DropHandle
<1>9. ASSUME NEW t \in Threads, WriteChecks(t) PROVE HandleInv'
  BY <1>9 DEF WriteChecks, Checks
<1>10. ASSUME NEW t \in Threads, AddChecks(t) PROVE HandleInv'
  BY <1>10 DEF AddChecks, Checks
<1>11. ASSUME NEW t \in Threads, Write(t) PROVE HandleInv'
  BY <1>11, WriteEffect DEF Changes, Write
<1>12. ASSUME NEW t \in Threads, AddLoads(t) PROVE HandleInv'
  BY <1>12 DEF AddLoads
<1>13. ASSUME NEW t \in Threads, AddSwaps(t) PROVE HandleInv'
  <2>1. /\ Changes(on[t], {"from", "value"})
        /\ slot'[on[t]].from \in {slot[on[t]].from, handle[t].gen}
        /\ slot'[on[t]].value \in Nat /\ slot'[on[t]].value <= Limit
        /\ granted' = [granted EXCEPT ![on[t]] = slot'[on[t]].value]
    BY <1>13, AddSwapsEffect
  <2>2. /\ \E s \in {"load", "count"} : pc' = [pc EXCEPT ![t] = s]
        /\ pc[t] = "swap" /\ current' = [current EXCEPT ![t] = 0]
        /\ UNCHANGED <<handle, on, since, observed>>
    BY <1>13, AddSwapsEffect
  <2>3. on[t] \in Slots OBVIOUS
  <2> QED BY <2>1, <2>2, <2>3 DEF Changes
<1>14. ASSUME NEW t \in Threads, CountChange(t) PROVE HandleInv'
  BY <1>14, CountChangeEffect DEF Changes, CountChange
<1>15. ASSUME NEW t \in Threads, LookForWaiters(t) PROVE HandleInv'
  BY <1>15 DEF LookForWaiters, WriteReturns
<1>16. ASSUME NEW t \in Threads, BumpSequence(t) PROVE HandleInv'
  BY <1>16, BumpSequenceEffect DEF Changes, BumpSequence
<1>17. ASSUME NEW t \in Threads, WakeOn(t) PROVE HandleInv'
  BY <1>17 DEF WakeOn, ParkedOn
<1>18. ASSUME NEW t \in Threads, TakeVersion(t) PROVE HandleInv'
  BY <1>18 DEF TakeVersion, Is
<1>19. ASSUME NEW t \in Threads, WaitLoops(t) PROVE HandleInv'
  BY <1>19 DEF WaitLoops, WaitReturns, Over
<1>20. ASSUME NEW t \in Threads, Register(t) PROVE HandleInv'
  BY <1>20, RegisterEffect DEF Changes, Register
<1>21. ASSUME NEW t \in Threads, Snapshot(t) PROVE HandleInv'
  BY <1>21 DEF Snapshot
<1>22. ASSUME NEW t \in Threads, Recheck(t) PROVE HandleInv'
  BY <1>22 DEF Recheck, ShouldWait
<1>23. ASSUME NEW t \in Threads, Park(t) PROVE HandleInv'
  BY <1>23 DEF Park
<1>24. ASSUME NEW t \in Threads, Interrupted(t) PROVE HandleInv'
  BY <1>24 DEF Interrupted
<1>25. ASSUME NEW t \in Threads, Leave(t) PROVE HandleInv'
  BY <1>25, LeaveEffect DEF Changes, Leave, Deregister
<1>26. ASSUME NEW t \in Threads, LeaveExhausted(t) PROVE HandleInv'
  BY <1>26, LeaveExhaustedEffect DEF Changes, LeaveExhausted, Deregister
<1>27. ASSUME NEW t \in Threads, SetInterrupt(t) PROVE HandleInv'
  BY <1>27 DEF SetInterrupt
<1>28. ASSUME NEW t \in Threads, WakeWaiters(t) PROVE HandleInv'
  BY <1>28 DEF WakeWaiters, Is
<1>29. ASSUME NEW p \in Procs, Crash(p) PROVE HandleInv'
  BY <1>29 DEF Crash
<1>30. ASSUME NEW p \in Procs, Claim(p) PROVE HandleInv'
  BY <1>30 DEF Claim
<1> QED
  BY <1>1, <1>2, <1>3, <1>4, <1>5, <1>6, <1>7, <1>8, <1>9, <1>10, <1>11,
     <1>12, <1>13, <1>14, <1>15, <1>16, <1>17, <1>18, <1>19, <1>20, <1>21,
     <1>22, <1>23, <1>24, <1>25, <1>26, <1>27, <1>28, <1>29, <1>30
     DEF Next, Begins, Proceeds


\* Nobody gets hold of a slot while a cell is built in it.
LEMMA InstallKept ==
    ASSUME IInv, Next
    PROVE  InstallInv'
<1> USE NoOneAssumption, Bounds DEF InstallInv, LockInv, Holds, Building,
        Types, SlotTypes, SlotType, TableTypes, HandleTypes, ThreadTypes,
        IInv, Goes, Idle, Running, ownVars, threadVars
<1>1. ASSUME NEW t \in Threads, AllocTakes(t) PROVE InstallInv'
  <2>1. PICK i \in FirstFree : on' = [on EXCEPT ![t] = i]
    BY <1>1 DEF AllocTakes
  <2>2. i \in Slots /\ Free(i) BY DEF FirstFree
  <2>3. \A u \in Threads : ~Holds(u, i)
    BY <2>2, FreeIsUnheld DEF Free, Pinning
  <2>4. slot[i].state # "occupied" /\ slot[i].gen < MaxGen
    BY <2>2, FreeHasRoom
  <2>5. \A u \in Threads \ {t} : pc[u] \notin {"install", "occupy"}
    BY <1>1 DEF AllocTakes
  <2> QED BY <1>1, <2>1, <2>2, <2>3, <2>4, <2>5 DEF AllocTakes
<1>2. ASSUME NEW t \in Threads, AllocReclaims(t) PROVE InstallInv'
  BY <1>2 DEF AllocReclaims, Dead
<1>3. ASSUME NEW t \in Threads, AllocFull(t) PROVE InstallInv'
  BY <1>3 DEF AllocFull
<1>4. ASSUME NEW t \in Threads, InstallFields(t) PROVE InstallInv'
  <2>1. /\ Changes(on[t], {"tag", "gen", "from", "value", "changes",
                           "seq", "waiters"})
        /\ slot'[on[t]].gen = slot[on[t]].gen + 1
        /\ slot'[on[t]].from = slot[on[t]].gen + 1
        /\ slot'[on[t]].value = 0 /\ slot'[on[t]].changes = 0
        /\ slot'[on[t]].seq = 0 /\ slot'[on[t]].waiters = 0
    BY <1>4, InstallFieldsEffect
  <2>2. /\ pc[t] = "install" /\ pc' = [pc EXCEPT ![t] = "occupy"]
        /\ granted' = [granted EXCEPT ![on[t]] = 0]
        /\ UNCHANGED <<handle, on, since, observed, current>>
    BY <1>4, InstallFieldsEffect
  <2>3. on[t] \in Slots OBVIOUS
  <2> QED BY <2>1, <2>2, <2>3 DEF Changes
<1>5. ASSUME NEW t \in Threads, InstallState(t) PROVE InstallInv'
  BY <1>5, InstallStateEffect DEF Changes, InstallState
<1>6. ASSUME NEW t \in Threads, Open(t) PROVE InstallInv'
  BY <1>6 DEF Open, LeaseOn
<1>7. ASSUME NEW t \in Threads, Retire(t) PROVE InstallInv'
  BY <1>7, RetireEffect DEF Changes, Retire
<1>8. ASSUME NEW t \in Threads, DropHandle(t) PROVE InstallInv'
  BY <1>8 DEF DropHandle
<1>9. ASSUME NEW t \in Threads, WriteChecks(t) PROVE InstallInv'
  BY <1>9 DEF WriteChecks, Checks
<1>10. ASSUME NEW t \in Threads, AddChecks(t) PROVE InstallInv'
  BY <1>10 DEF AddChecks, Checks
<1>11. ASSUME NEW t \in Threads, Write(t) PROVE InstallInv'
  BY <1>11, WriteEffect DEF Changes, Write
<1>12. ASSUME NEW t \in Threads, AddLoads(t) PROVE InstallInv'
  BY <1>12 DEF AddLoads
<1>13. ASSUME NEW t \in Threads, AddSwaps(t) PROVE InstallInv'
  <2>1. /\ Changes(on[t], {"from", "value"})
        /\ slot'[on[t]].from \in {slot[on[t]].from, handle[t].gen}
        /\ slot'[on[t]].value \in Nat /\ slot'[on[t]].value <= Limit
        /\ granted' = [granted EXCEPT ![on[t]] = slot'[on[t]].value]
    BY <1>13, AddSwapsEffect
  <2>2. /\ \E s \in {"load", "count"} : pc' = [pc EXCEPT ![t] = s]
        /\ pc[t] = "swap" /\ current' = [current EXCEPT ![t] = 0]
        /\ UNCHANGED <<handle, on, since, observed>>
    BY <1>13, AddSwapsEffect
  <2>3. on[t] \in Slots OBVIOUS
  <2> QED BY <2>1, <2>2, <2>3 DEF Changes
<1>14. ASSUME NEW t \in Threads, CountChange(t) PROVE InstallInv'
  BY <1>14, CountChangeEffect DEF Changes, CountChange
<1>15. ASSUME NEW t \in Threads, LookForWaiters(t) PROVE InstallInv'
  BY <1>15 DEF LookForWaiters, WriteReturns
<1>16. ASSUME NEW t \in Threads, BumpSequence(t) PROVE InstallInv'
  BY <1>16, BumpSequenceEffect DEF Changes, BumpSequence
<1>17. ASSUME NEW t \in Threads, WakeOn(t) PROVE InstallInv'
  BY <1>17 DEF WakeOn, ParkedOn
<1>18. ASSUME NEW t \in Threads, TakeVersion(t) PROVE InstallInv'
  BY <1>18 DEF TakeVersion, Is
<1>19. ASSUME NEW t \in Threads, WaitLoops(t) PROVE InstallInv'
  BY <1>19 DEF WaitLoops, WaitReturns, Over
<1>20. ASSUME NEW t \in Threads, Register(t) PROVE InstallInv'
  BY <1>20, RegisterEffect DEF Changes, Register
<1>21. ASSUME NEW t \in Threads, Snapshot(t) PROVE InstallInv'
  BY <1>21 DEF Snapshot
<1>22. ASSUME NEW t \in Threads, Recheck(t) PROVE InstallInv'
  BY <1>22 DEF Recheck, ShouldWait
<1>23. ASSUME NEW t \in Threads, Park(t) PROVE InstallInv'
  BY <1>23 DEF Park
<1>24. ASSUME NEW t \in Threads, Interrupted(t) PROVE InstallInv'
  BY <1>24 DEF Interrupted
<1>25. ASSUME NEW t \in Threads, Leave(t) PROVE InstallInv'
  BY <1>25, LeaveEffect DEF Changes, Leave, Deregister
<1>26. ASSUME NEW t \in Threads, LeaveExhausted(t) PROVE InstallInv'
  BY <1>26, LeaveExhaustedEffect DEF Changes, LeaveExhausted, Deregister
<1>27. ASSUME NEW t \in Threads, SetInterrupt(t) PROVE InstallInv'
  BY <1>27 DEF SetInterrupt
<1>28. ASSUME NEW t \in Threads, WakeWaiters(t) PROVE InstallInv'
  BY <1>28 DEF WakeWaiters, Is
<1>29. ASSUME NEW p \in Procs, Crash(p) PROVE InstallInv'
  BY <1>29 DEF Crash
<1>30. ASSUME NEW p \in Procs, Claim(p) PROVE InstallInv'
  BY <1>30 DEF Claim
<1> QED
  BY <1>1, <1>2, <1>3, <1>4, <1>5, <1>6, <1>7, <1>8, <1>9, <1>10, <1>11,
     <1>12, <1>13, <1>14, <1>15, <1>16, <1>17, <1>18, <1>19, <1>20, <1>21,
     <1>22, <1>23, <1>24, <1>25, <1>26, <1>27, <1>28, <1>29, <1>30
     DEF Next, Begins, Proceeds


\* An occupied slot has had its first generation.
LEMMA OccupiedKept ==
    ASSUME IInv, Next
    PROVE  OccInv'
<1> USE Bounds DEF OccInv, InstallInv, Building, Types, SlotTypes, SlotType,
        TableTypes, HandleTypes, ThreadTypes, IInv, Goes, Idle, Running,
        ownVars, threadVars
<1>1. ASSUME NEW t \in Threads, AllocTakes(t) PROVE OccInv'
  BY <1>1 DEF AllocTakes, LeaseOn, FirstFree, Free
<1>2. ASSUME NEW t \in Threads, AllocReclaims(t) PROVE OccInv'
  BY <1>2 DEF AllocReclaims, Dead
<1>3. ASSUME NEW t \in Threads, AllocFull(t) PROVE OccInv'
  BY <1>3 DEF AllocFull
<1>4. ASSUME NEW t \in Threads, InstallFields(t) PROVE OccInv'
  <2>1. /\ Changes(on[t], {"tag", "gen", "from", "value", "changes",
                           "seq", "waiters"})
        /\ slot'[on[t]].gen = slot[on[t]].gen + 1
        /\ slot'[on[t]].from = slot[on[t]].gen + 1
        /\ slot'[on[t]].value = 0 /\ slot'[on[t]].changes = 0
        /\ slot'[on[t]].seq = 0 /\ slot'[on[t]].waiters = 0
    BY <1>4, InstallFieldsEffect
  <2>2. /\ pc[t] = "install" /\ pc' = [pc EXCEPT ![t] = "occupy"]
        /\ granted' = [granted EXCEPT ![on[t]] = 0]
        /\ UNCHANGED <<handle, on, since, observed, current>>
    BY <1>4, InstallFieldsEffect
  <2>3. on[t] \in Slots OBVIOUS
  <2> QED BY <2>1, <2>2, <2>3 DEF Changes
<1>5. ASSUME NEW t \in Threads, InstallState(t) PROVE OccInv'
  BY <1>5, InstallStateEffect DEF Changes, InstallState
<1>6. ASSUME NEW t \in Threads, Open(t) PROVE OccInv'
  BY <1>6 DEF Open, LeaseOn
<1>7. ASSUME NEW t \in Threads, Retire(t) PROVE OccInv'
  BY <1>7, RetireEffect DEF Changes, Retire
<1>8. ASSUME NEW t \in Threads, DropHandle(t) PROVE OccInv'
  BY <1>8 DEF DropHandle
<1>9. ASSUME NEW t \in Threads, WriteChecks(t) PROVE OccInv'
  BY <1>9 DEF WriteChecks, Checks
<1>10. ASSUME NEW t \in Threads, AddChecks(t) PROVE OccInv'
  BY <1>10 DEF AddChecks, Checks
<1>11. ASSUME NEW t \in Threads, Write(t) PROVE OccInv'
  BY <1>11, WriteEffect DEF Changes, Write
<1>12. ASSUME NEW t \in Threads, AddLoads(t) PROVE OccInv'
  BY <1>12 DEF AddLoads
<1>13. ASSUME NEW t \in Threads, AddSwaps(t) PROVE OccInv'
  <2>1. /\ Changes(on[t], {"from", "value"})
        /\ slot'[on[t]].from \in {slot[on[t]].from, handle[t].gen}
        /\ slot'[on[t]].value \in Nat /\ slot'[on[t]].value <= Limit
        /\ granted' = [granted EXCEPT ![on[t]] = slot'[on[t]].value]
    BY <1>13, AddSwapsEffect
  <2>2. /\ \E s \in {"load", "count"} : pc' = [pc EXCEPT ![t] = s]
        /\ pc[t] = "swap" /\ current' = [current EXCEPT ![t] = 0]
        /\ UNCHANGED <<handle, on, since, observed>>
    BY <1>13, AddSwapsEffect
  <2>3. on[t] \in Slots OBVIOUS
  <2> QED BY <2>1, <2>2, <2>3 DEF Changes
<1>14. ASSUME NEW t \in Threads, CountChange(t) PROVE OccInv'
  BY <1>14, CountChangeEffect DEF Changes, CountChange
<1>15. ASSUME NEW t \in Threads, LookForWaiters(t) PROVE OccInv'
  BY <1>15 DEF LookForWaiters, WriteReturns
<1>16. ASSUME NEW t \in Threads, BumpSequence(t) PROVE OccInv'
  BY <1>16, BumpSequenceEffect DEF Changes, BumpSequence
<1>17. ASSUME NEW t \in Threads, WakeOn(t) PROVE OccInv'
  BY <1>17 DEF WakeOn, ParkedOn
<1>18. ASSUME NEW t \in Threads, TakeVersion(t) PROVE OccInv'
  BY <1>18 DEF TakeVersion, Is
<1>19. ASSUME NEW t \in Threads, WaitLoops(t) PROVE OccInv'
  BY <1>19 DEF WaitLoops, WaitReturns, Over
<1>20. ASSUME NEW t \in Threads, Register(t) PROVE OccInv'
  BY <1>20, RegisterEffect DEF Changes, Register
<1>21. ASSUME NEW t \in Threads, Snapshot(t) PROVE OccInv'
  BY <1>21 DEF Snapshot
<1>22. ASSUME NEW t \in Threads, Recheck(t) PROVE OccInv'
  BY <1>22 DEF Recheck, ShouldWait
<1>23. ASSUME NEW t \in Threads, Park(t) PROVE OccInv'
  BY <1>23 DEF Park
<1>24. ASSUME NEW t \in Threads, Interrupted(t) PROVE OccInv'
  BY <1>24 DEF Interrupted
<1>25. ASSUME NEW t \in Threads, Leave(t) PROVE OccInv'
  BY <1>25, LeaveEffect DEF Changes, Leave, Deregister
<1>26. ASSUME NEW t \in Threads, LeaveExhausted(t) PROVE OccInv'
  BY <1>26, LeaveExhaustedEffect DEF Changes, LeaveExhausted, Deregister
<1>27. ASSUME NEW t \in Threads, SetInterrupt(t) PROVE OccInv'
  BY <1>27 DEF SetInterrupt
<1>28. ASSUME NEW t \in Threads, WakeWaiters(t) PROVE OccInv'
  BY <1>28 DEF WakeWaiters, Is
<1>29. ASSUME NEW p \in Procs, Crash(p) PROVE OccInv'
  BY <1>29 DEF Crash
<1>30. ASSUME NEW p \in Procs, Claim(p) PROVE OccInv'
  BY <1>30 DEF Claim
<1> QED
  BY <1>1, <1>2, <1>3, <1>4, <1>5, <1>6, <1>7, <1>8, <1>9, <1>10, <1>11,
     <1>12, <1>13, <1>14, <1>15, <1>16, <1>17, <1>18, <1>19, <1>20, <1>21,
     <1>22, <1>23, <1>24, <1>25, <1>26, <1>27, <1>28, <1>29, <1>30
     DEF Next, Begins, Proceeds

\* A cell holds what its own handles wrote and what it handed out: writers
\* hold the generation of the slot, and the exchange of add_until succeeds
\* only from the value it was computed with.
LEMMA ValueKept ==
    ASSUME IInv, Next
    PROVE  ValueInv'
<1> USE AddAssumption, Bounds DEF ValueInv, OpInv, HandleInv, Holds, Handles,
        NoHandle, Types, SlotTypes, SlotType, TableTypes, HandleTypes,
        ThreadTypes, IInv, Goes, Idle, Running, ownVars, threadVars
<1>1. ASSUME NEW t \in Threads, AllocTakes(t) PROVE ValueInv'
  BY <1>1 DEF AllocTakes, LeaseOn, FirstFree, Free
<1>2. ASSUME NEW t \in Threads, AllocReclaims(t) PROVE ValueInv'
  BY <1>2 DEF AllocReclaims, Dead
<1>3. ASSUME NEW t \in Threads, AllocFull(t) PROVE ValueInv'
  BY <1>3 DEF AllocFull
<1>4. ASSUME NEW t \in Threads, InstallFields(t) PROVE ValueInv'
  <2>1. /\ Changes(on[t], {"tag", "gen", "from", "value", "changes",
                           "seq", "waiters"})
        /\ slot'[on[t]].gen = slot[on[t]].gen + 1
        /\ slot'[on[t]].from = slot[on[t]].gen + 1
        /\ slot'[on[t]].value = 0 /\ slot'[on[t]].changes = 0
        /\ slot'[on[t]].seq = 0 /\ slot'[on[t]].waiters = 0
    BY <1>4, InstallFieldsEffect
  <2>2. /\ pc[t] = "install" /\ pc' = [pc EXCEPT ![t] = "occupy"]
        /\ granted' = [granted EXCEPT ![on[t]] = 0]
        /\ UNCHANGED <<handle, on, since, observed, current>>
    BY <1>4, InstallFieldsEffect
  <2>3. on[t] \in Slots OBVIOUS
  <2> QED BY <2>1, <2>2, <2>3 DEF Changes
<1>5. ASSUME NEW t \in Threads, InstallState(t) PROVE ValueInv'
  BY <1>5, InstallStateEffect DEF Changes, InstallState
<1>6. ASSUME NEW t \in Threads, Open(t) PROVE ValueInv'
  BY <1>6 DEF Open, LeaseOn
<1>7. ASSUME NEW t \in Threads, Retire(t) PROVE ValueInv'
  BY <1>7, RetireEffect DEF Changes, Retire
<1>8. ASSUME NEW t \in Threads, DropHandle(t) PROVE ValueInv'
  BY <1>8 DEF DropHandle
<1>9. ASSUME NEW t \in Threads, WriteChecks(t) PROVE ValueInv'
  BY <1>9 DEF WriteChecks, Checks
<1>10. ASSUME NEW t \in Threads, AddChecks(t) PROVE ValueInv'
  BY <1>10 DEF AddChecks, Checks
<1>11. ASSUME NEW t \in Threads, Write(t) PROVE ValueInv'
  BY <1>11, WriteEffect DEF Changes, Write
<1>12. ASSUME NEW t \in Threads, AddLoads(t) PROVE ValueInv'
  BY <1>12 DEF AddLoads
<1>13. ASSUME NEW t \in Threads, AddSwaps(t) PROVE ValueInv'
  <2>1. /\ Changes(on[t], {"from", "value"})
        /\ slot'[on[t]].from \in {slot[on[t]].from, handle[t].gen}
        /\ slot'[on[t]].value \in Nat /\ slot'[on[t]].value <= Limit
        /\ granted' = [granted EXCEPT ![on[t]] = slot'[on[t]].value]
    BY <1>13, AddSwapsEffect
  <2>2. /\ \E s \in {"load", "count"} : pc' = [pc EXCEPT ![t] = s]
        /\ pc[t] = "swap" /\ current' = [current EXCEPT ![t] = 0]
        /\ UNCHANGED <<handle, on, since, observed>>
    BY <1>13, AddSwapsEffect
  <2>3. on[t] \in Slots OBVIOUS
  <2> QED BY <2>1, <2>2, <2>3 DEF Changes
<1>14. ASSUME NEW t \in Threads, CountChange(t) PROVE ValueInv'
  BY <1>14, CountChangeEffect DEF Changes, CountChange
<1>15. ASSUME NEW t \in Threads, LookForWaiters(t) PROVE ValueInv'
  BY <1>15 DEF LookForWaiters, WriteReturns
<1>16. ASSUME NEW t \in Threads, BumpSequence(t) PROVE ValueInv'
  BY <1>16, BumpSequenceEffect DEF Changes, BumpSequence
<1>17. ASSUME NEW t \in Threads, WakeOn(t) PROVE ValueInv'
  BY <1>17 DEF WakeOn, ParkedOn
<1>18. ASSUME NEW t \in Threads, TakeVersion(t) PROVE ValueInv'
  BY <1>18 DEF TakeVersion, Is
<1>19. ASSUME NEW t \in Threads, WaitLoops(t) PROVE ValueInv'
  BY <1>19 DEF WaitLoops, WaitReturns, Over
<1>20. ASSUME NEW t \in Threads, Register(t) PROVE ValueInv'
  BY <1>20, RegisterEffect DEF Changes, Register
<1>21. ASSUME NEW t \in Threads, Snapshot(t) PROVE ValueInv'
  BY <1>21 DEF Snapshot
<1>22. ASSUME NEW t \in Threads, Recheck(t) PROVE ValueInv'
  BY <1>22 DEF Recheck, ShouldWait
<1>23. ASSUME NEW t \in Threads, Park(t) PROVE ValueInv'
  BY <1>23 DEF Park
<1>24. ASSUME NEW t \in Threads, Interrupted(t) PROVE ValueInv'
  BY <1>24 DEF Interrupted
<1>25. ASSUME NEW t \in Threads, Leave(t) PROVE ValueInv'
  BY <1>25, LeaveEffect DEF Changes, Leave, Deregister
<1>26. ASSUME NEW t \in Threads, LeaveExhausted(t) PROVE ValueInv'
  BY <1>26, LeaveExhaustedEffect DEF Changes, LeaveExhausted, Deregister
<1>27. ASSUME NEW t \in Threads, SetInterrupt(t) PROVE ValueInv'
  BY <1>27 DEF SetInterrupt
<1>28. ASSUME NEW t \in Threads, WakeWaiters(t) PROVE ValueInv'
  BY <1>28 DEF WakeWaiters, Is
<1>29. ASSUME NEW p \in Procs, Crash(p) PROVE ValueInv'
  BY <1>29 DEF Crash
<1>30. ASSUME NEW p \in Procs, Claim(p) PROVE ValueInv'
  BY <1>30 DEF Claim
<1> QED
  BY <1>1, <1>2, <1>3, <1>4, <1>5, <1>6, <1>7, <1>8, <1>9, <1>10, <1>11,
     <1>12, <1>13, <1>14, <1>15, <1>16, <1>17, <1>18, <1>19, <1>20, <1>21,
     <1>22, <1>23, <1>24, <1>25, <1>26, <1>27, <1>28, <1>29, <1>30
     DEF Next, Begins, Proceeds


\* Versions and sequences only grow under a waiter: its cell is not built
\* again while it holds it.
LEMMA SinceKept ==
    ASSUME IInv, Next
    PROVE  SinceInv'
<1> USE Bounds DEF SinceInv, OpInv, InstallInv, Building, Holds, Waiting,
        Handles, NoHandle, Types, SlotTypes, SlotType, TableTypes,
        HandleTypes, ThreadTypes, IInv, Goes, Idle, Running, ownVars,
        threadVars
<1>1. ASSUME NEW t \in Threads, AllocTakes(t) PROVE SinceInv'
  BY <1>1 DEF AllocTakes, LeaseOn, FirstFree, Free
<1>2. ASSUME NEW t \in Threads, AllocReclaims(t) PROVE SinceInv'
  BY <1>2 DEF AllocReclaims, Dead
<1>3. ASSUME NEW t \in Threads, AllocFull(t) PROVE SinceInv'
  BY <1>3 DEF AllocFull
<1>4. ASSUME NEW t \in Threads, InstallFields(t) PROVE SinceInv'
  <2>1. /\ Changes(on[t], {"tag", "gen", "from", "value", "changes",
                           "seq", "waiters"})
        /\ slot'[on[t]].gen = slot[on[t]].gen + 1
        /\ slot'[on[t]].from = slot[on[t]].gen + 1
        /\ slot'[on[t]].value = 0 /\ slot'[on[t]].changes = 0
        /\ slot'[on[t]].seq = 0 /\ slot'[on[t]].waiters = 0
    BY <1>4, InstallFieldsEffect
  <2>2. /\ pc[t] = "install" /\ pc' = [pc EXCEPT ![t] = "occupy"]
        /\ granted' = [granted EXCEPT ![on[t]] = 0]
        /\ UNCHANGED <<handle, on, since, observed, current>>
    BY <1>4, InstallFieldsEffect
  <2>3. on[t] \in Slots OBVIOUS
  <2> QED BY <2>1, <2>2, <2>3 DEF Changes
<1>5. ASSUME NEW t \in Threads, InstallState(t) PROVE SinceInv'
  BY <1>5, InstallStateEffect DEF Changes, InstallState
<1>6. ASSUME NEW t \in Threads, Open(t) PROVE SinceInv'
  BY <1>6 DEF Open, LeaseOn
<1>7. ASSUME NEW t \in Threads, Retire(t) PROVE SinceInv'
  BY <1>7, RetireEffect DEF Changes, Retire
<1>8. ASSUME NEW t \in Threads, DropHandle(t) PROVE SinceInv'
  BY <1>8 DEF DropHandle
<1>9. ASSUME NEW t \in Threads, WriteChecks(t) PROVE SinceInv'
  BY <1>9 DEF WriteChecks, Checks
<1>10. ASSUME NEW t \in Threads, AddChecks(t) PROVE SinceInv'
  BY <1>10 DEF AddChecks, Checks
<1>11. ASSUME NEW t \in Threads, Write(t) PROVE SinceInv'
  BY <1>11, WriteEffect DEF Changes, Write
<1>12. ASSUME NEW t \in Threads, AddLoads(t) PROVE SinceInv'
  BY <1>12 DEF AddLoads
<1>13. ASSUME NEW t \in Threads, AddSwaps(t) PROVE SinceInv'
  <2>1. /\ Changes(on[t], {"from", "value"})
        /\ slot'[on[t]].from \in {slot[on[t]].from, handle[t].gen}
        /\ slot'[on[t]].value \in Nat /\ slot'[on[t]].value <= Limit
        /\ granted' = [granted EXCEPT ![on[t]] = slot'[on[t]].value]
    BY <1>13, AddSwapsEffect
  <2>2. /\ \E s \in {"load", "count"} : pc' = [pc EXCEPT ![t] = s]
        /\ pc[t] = "swap" /\ current' = [current EXCEPT ![t] = 0]
        /\ UNCHANGED <<handle, on, since, observed>>
    BY <1>13, AddSwapsEffect
  <2>3. on[t] \in Slots OBVIOUS
  <2> QED BY <2>1, <2>2, <2>3 DEF Changes
<1>14. ASSUME NEW t \in Threads, CountChange(t) PROVE SinceInv'
  BY <1>14, CountChangeEffect DEF Changes, CountChange
<1>15. ASSUME NEW t \in Threads, LookForWaiters(t) PROVE SinceInv'
  BY <1>15 DEF LookForWaiters, WriteReturns
<1>16. ASSUME NEW t \in Threads, BumpSequence(t) PROVE SinceInv'
  BY <1>16, BumpSequenceEffect DEF Changes, BumpSequence
<1>17. ASSUME NEW t \in Threads, WakeOn(t) PROVE SinceInv'
  BY <1>17 DEF WakeOn, ParkedOn
<1>18. ASSUME NEW t \in Threads, TakeVersion(t) PROVE SinceInv'
  BY <1>18 DEF TakeVersion, Is
<1>19. ASSUME NEW t \in Threads, WaitLoops(t) PROVE SinceInv'
  BY <1>19 DEF WaitLoops, WaitReturns, Over
<1>20. ASSUME NEW t \in Threads, Register(t) PROVE SinceInv'
  BY <1>20, RegisterEffect DEF Changes, Register
<1>21. ASSUME NEW t \in Threads, Snapshot(t) PROVE SinceInv'
  BY <1>21 DEF Snapshot
<1>22. ASSUME NEW t \in Threads, Recheck(t) PROVE SinceInv'
  BY <1>22 DEF Recheck, ShouldWait
<1>23. ASSUME NEW t \in Threads, Park(t) PROVE SinceInv'
  BY <1>23 DEF Park
<1>24. ASSUME NEW t \in Threads, Interrupted(t) PROVE SinceInv'
  BY <1>24 DEF Interrupted
<1>25. ASSUME NEW t \in Threads, Leave(t) PROVE SinceInv'
  BY <1>25, LeaveEffect DEF Changes, Leave, Deregister
<1>26. ASSUME NEW t \in Threads, LeaveExhausted(t) PROVE SinceInv'
  BY <1>26, LeaveExhaustedEffect DEF Changes, LeaveExhausted, Deregister
<1>27. ASSUME NEW t \in Threads, SetInterrupt(t) PROVE SinceInv'
  BY <1>27 DEF SetInterrupt
<1>28. ASSUME NEW t \in Threads, WakeWaiters(t) PROVE SinceInv'
  BY <1>28 DEF WakeWaiters, Is
<1>29. ASSUME NEW p \in Procs, Crash(p) PROVE SinceInv'
  BY <1>29 DEF Crash
<1>30. ASSUME NEW p \in Procs, Claim(p) PROVE SinceInv'
  BY <1>30 DEF Claim
<1> QED
  BY <1>1, <1>2, <1>3, <1>4, <1>5, <1>6, <1>7, <1>8, <1>9, <1>10, <1>11,
     <1>12, <1>13, <1>14, <1>15, <1>16, <1>17, <1>18, <1>19, <1>20, <1>21,
     <1>22, <1>23, <1>24, <1>25, <1>26, <1>27, <1>28, <1>29, <1>30
     DEF Next, Begins, Proceeds

-----------------------------------------------------------------------------
(***************************************************************************)
(* Pins                                                                    *)
(***************************************************************************)

\* Pinners are finitely many.
LEMMA PinnersFinite ==
    ASSUME NEW p, NEW i
    PROVE  /\ IsFiniteSet(Pinners(p, i))
           /\ Cardinality(Pinners(p, i)) \in Nat
  BY ThreadsAssumption, FS_Subset, FS_CardinalityType DEF Pinners

\* Owners::lease counts the thread that comes to hold or to build a cell.
LEMMA LeaseCounts ==
    ASSUME IInv, NEW t \in Threads, NEW i \in Slots,
           row[ProcOf[t]] # NoRow, row' = row, LeaseOn(t, i), ~Pinning(t, i),
           \A u \in Threads, j \in Slots :
              Pinning(u, j)' <=> Pinning(u, j) \/ (u = t /\ j = i)
    PROVE  PinTypes' /\ PinsInv'
<1> DEFINE o == ProcOf[t]
<1>1. o \in Procs /\ row[o] \in Rows
  BY ProcAssumption DEF IInv, Types, TableTypes
<1>2. pins[row[o]][i] + 1 \in Nat /\ PinTypes
  BY <1>1 DEF IInv, Types, PinTypes
<1>3. pins' = [pins EXCEPT ![row[o]][i] = pins[row[o]][i] + 1]
  BY DEF LeaseOn
<1>4. /\ PinTypes'
      /\ pins'[row[o]][i] = pins[row[o]][i] + 1
      /\ \A s \in Rows, j \in Slots :
            s # row[o] \/ j # i => pins'[s][j] = pins[s][j]
  <2> DEFINE f == [pins[row[o]] EXCEPT ![i] = pins[row[o]][i] + 1]
  <2>1. f \in [Slots -> Nat] BY <1>1, <1>2 DEF PinTypes
  <2>2. /\ f[i] = pins[row[o]][i] + 1
        /\ \A j \in Slots : j # i => f[j] = pins[row[o]][j]
    BY <1>1, <1>2 DEF PinTypes
  <2>3. pins' = [pins EXCEPT ![row[o]] = f] BY <1>3
  <2> HIDE DEF f
  <2>4. /\ PinTypes' /\ pins'[row[o]] = f
        /\ \A s \in Rows \ {row[o]} : pins'[s] = pins[s]
    BY <1>1, <1>2, <2>1, <2>3 DEF PinTypes
  <2> QED BY <1>1, <2>2, <2>4
<1>5. ASSUME NEW p \in Procs, NEW j \in Slots, row[p] # NoRow
      PROVE  pins'[row[p]][j] = Cardinality(Pinners(p, j)')
  <2>1. pins[row[p]][j] = Cardinality(Pinners(p, j))
    BY <1>5 DEF IInv, PinsInv
  <2>2. CASE p = o /\ j = i
    <3>1. Pinners(p, j)' = Pinners(p, j) \cup {t} BY <2>2 DEF Pinners
    <3>2. t \notin Pinners(p, j) BY <2>2 DEF Pinners
    <3>3. Cardinality(Pinners(p, j)') = Cardinality(Pinners(p, j)) + 1
      BY <3>1, <3>2, PinnersFinite, FS_AddElement
    <3> QED BY <1>4, <2>1, <2>2, <3>3
  <2>3. CASE ~(p = o /\ j = i)
    <3>1. Pinners(p, j)' = Pinners(p, j) BY <2>3 DEF Pinners
    <3>2. row[p] \in Rows BY <1>5 DEF IInv, Types, TableTypes
    <3>3. row[p] # row[o] \/ j # i
      BY <1>1, <1>5, <2>3 DEF IInv, RowsInv
    <3>4. pins'[row[p]][j] = pins[row[p]][j] BY <1>4, <3>2, <3>3
    <3> QED BY <2>1, <3>1, <3>4
  <2> QED BY <2>2, <2>3
<1> QED BY <1>4, <1>5 DEF PinsInv

\* Dropping the last clone of a handle takes its pin back.
LEMMA DropUncounts ==
    ASSUME IInv, NEW t \in Threads, DropHandle(t)
    PROVE  PinTypes' /\ PinsInv'
<1> DEFINE o == ProcOf[t]
           i == handle[t].slot
<1>1. o \in Procs /\ row[o] # NoRow /\ row[o] \in Rows
  BY ProcAssumption DEF DropHandle, Idle, Running, IInv, Types, TableTypes
<1>2. i \in Slots
  BY DEF DropHandle, IInv, Types, HandleTypes, Handles
<1>3. Pinning(t, i) BY DEF DropHandle, Pinning, Holds
<1>4. pins[row[o]][i] = Cardinality(Pinners(o, i))
  BY <1>1, <1>2 DEF IInv, PinsInv
<1>5. t \in Pinners(o, i) BY <1>3 DEF Pinners
<1>6. /\ Cardinality(Pinners(o, i) \ {t}) = Cardinality(Pinners(o, i)) - 1
      /\ Cardinality(Pinners(o, i) \ {t}) \in Nat
  BY <1>5, PinnersFinite, FS_RemoveElement, FS_CardinalityType
<1>7. pins' = [pins EXCEPT ![row[o]][i] = pins[row[o]][i] - 1]
  BY DEF DropHandle
<1>8. /\ PinTypes'
      /\ pins'[row[o]][i] = Cardinality(Pinners(o, i) \ {t})
      /\ \A s \in Rows, j \in Slots :
            s # row[o] \/ j # i => pins'[s][j] = pins[s][j]
  <2>1. pins[row[o]][i] - 1 = Cardinality(Pinners(o, i) \ {t})
    BY <1>4, <1>6
  <2>2. pins[row[o]][i] - 1 \in Nat /\ PinTypes
    BY <1>6, <2>1 DEF IInv, Types
  <2>3. /\ PinTypes'
        /\ pins'[row[o]][i] = pins[row[o]][i] - 1
        /\ \A s \in Rows, j \in Slots :
              s # row[o] \/ j # i => pins'[s][j] = pins[s][j]
    <3> DEFINE f == [pins[row[o]] EXCEPT ![i] = pins[row[o]][i] - 1]
    <3>1. f \in [Slots -> Nat] BY <1>1, <1>2, <2>2 DEF PinTypes
    <3>2. /\ f[i] = pins[row[o]][i] - 1
          /\ \A j \in Slots : j # i => f[j] = pins[row[o]][j]
      BY <1>1, <1>2, <2>2 DEF PinTypes
    <3>3. pins' = [pins EXCEPT ![row[o]] = f] BY <1>7
    <3> HIDE DEF f
    <3>4. /\ PinTypes' /\ pins'[row[o]] = f
          /\ \A s \in Rows \ {row[o]} : pins'[s] = pins[s]
      BY <1>1, <2>2, <3>1, <3>3 DEF PinTypes
    <3> QED BY <1>1, <3>2, <3>4
  <2> QED BY <2>1, <2>3
<1>9. \A u \in Threads, j \in Slots :
         Pinning(u, j)' <=> Pinning(u, j) /\ ~(u = t /\ j = i)
  BY DEF DropHandle, Pinning, Holds, Building, Idle, IInv, Types, HandleTypes
<1>10. ASSUME NEW p \in Procs, NEW j \in Slots, row[p] # NoRow
       PROVE  pins'[row[p]][j] = Cardinality(Pinners(p, j)')
  <2>1. pins[row[p]][j] = Cardinality(Pinners(p, j))
    BY <1>10 DEF IInv, PinsInv
  <2>2. CASE p = o /\ j = i
    <3>1. Pinners(p, j)' = Pinners(p, j) \ {t} BY <1>9, <2>2 DEF Pinners
    <3> QED BY <1>8, <2>2, <3>1
  <2>3. CASE ~(p = o /\ j = i)
    <3>1. Pinners(p, j)' = Pinners(p, j) BY <1>9, <2>3 DEF Pinners
    <3>2. row[p] \in Rows BY <1>10 DEF IInv, Types, TableTypes
    <3>3. row[p] # row[o] \/ j # i
      BY <1>1, <1>10, <2>3 DEF IInv, RowsInv
    <3>4. pins'[row[p]][j] = pins[row[p]][j] BY <1>8, <3>2, <3>3
    <3> QED BY <2>1, <3>1, <3>4
  <2> QED BY <2>2, <2>3
<1>11. row' = row BY DEF DropHandle
<1> QED BY <1>8, <1>10, <1>11 DEF PinsInv

\* A step that moves no handle, no building and no row.
PinsStay ==
    /\ row' = row /\ pins' = pins
    /\ \A u \in Threads, i \in Slots : Pinning(u, i)' <=> Pinning(u, i)

\* Such a step leaves the count right.
LEMMA StayCounts ==
    ASSUME IInv, PinsStay
    PROVE  PinTypes' /\ PinsInv'
<1>1. \A p \in Procs, i \in Slots : Pinners(p, i)' = Pinners(p, i)
  BY DEF PinsStay, Pinners
<1> QED BY <1>1 DEF PinsStay, IInv, Types, PinTypes, PinsInv

\* The pins of a row stay exactly the handles of its process: whatever the
\* dead leave behind is in rows nobody holds, and is cleared before use.
LEMMA PinsKept ==
    ASSUME IInv, Next
    PROVE  PinTypes' /\ PinsInv'
<1> USE ProcAssumption DEF Types, TableTypes, HandleTypes, IInv, Goes, Idle,
        Running, ownVars, threadVars
<1>1. ASSUME NEW t \in Threads, AllocTakes(t) PROVE PinTypes' /\ PinsInv'
  <2>1. PICK i \in FirstFree : /\ LeaseOn(t, i)
                               /\ on' = [on EXCEPT ![t] = i]
    BY <1>1 DEF AllocTakes
  <2>2. i \in Slots BY DEF FirstFree
  <2>3. row[ProcOf[t]] # NoRow /\ row' = row
    BY <1>1 DEF AllocTakes, RowsInv
  <2>4. /\ pc[t] \notin {"install", "occupy"} /\ handle[t] = NoHandle
        /\ handle' = handle /\ pc' = [pc EXCEPT ![t] = "install"]
    BY <1>1 DEF AllocTakes, LockInv
  <2>5. ~Pinning(t, i) BY <2>4 DEF Pinning, Holds, Building
  <2>6. \A u \in Threads, j \in Slots :
           Pinning(u, j)' <=> Pinning(u, j) \/ (u = t /\ j = i)
    BY <2>1, <2>2, <2>4 DEF Pinning, Holds, Building, ThreadTypes
  <2> QED BY <2>1, <2>2, <2>3, <2>5, <2>6, LeaseCounts
<1>2. ASSUME NEW t \in Threads, AllocReclaims(t) PROVE PinTypes' /\ PinsInv'
  <2>1. PinTypes' BY <1>2 DEF AllocReclaims, PinTypes
  <2>2. \A p \in Procs, i \in Slots : Pinners(p, i)' = Pinners(p, i)
    <3>1. \A u \in Threads, i \in Slots : Pinning(u, i)' <=> Pinning(u, i)
      BY <1>2 DEF AllocReclaims, Pinning, Holds, Building, ThreadTypes
    <3> QED BY <3>1 DEF Pinners
  <2>3. \A p \in Procs, i \in Slots :
           row[p] # NoRow => pins'[row[p]][i] = pins[row[p]][i]
    BY <1>2 DEF AllocReclaims, Dead
  <2>4. row' = row BY <1>2 DEF AllocReclaims
  <2> QED BY <2>1, <2>2, <2>3, <2>4 DEF PinsInv
<1>3. ASSUME NEW t \in Threads, AllocFull(t) PROVE PinTypes' /\ PinsInv'
  <2>1. PinsStay
    BY <1>3 DEF AllocFull, PinsStay, Pinning, Holds, Building, ThreadTypes
  <2> QED BY <2>1, StayCounts
<1>4. ASSUME NEW t \in Threads, InstallFields(t) PROVE PinTypes' /\ PinsInv'
  <2>1. PinsStay
    BY <1>4, InstallFieldsEffect DEF PinsStay, Pinning, Holds, Building,
       ThreadTypes
  <2> QED BY <2>1, StayCounts
<1>5. ASSUME NEW t \in Threads, InstallState(t) PROVE PinTypes' /\ PinsInv'
  <2>1. slot[on[t]].gen # 0
    <3>1. slot[on[t]].gen \in 0 .. MaxGen /\ slot[on[t]].gen > 0
      BY <1>5 DEF InstallState, InstallInv, Building, SlotTypes, SlotType
    <3> QED BY <3>1, Bounds
  <2>2. [slot |-> on[t], gen |-> slot[on[t]].gen] # NoHandle
    BY <2>1 DEF NoHandle
  <2>3. handle[t] = NoHandle BY <1>5 DEF InstallState, LockInv
  <2>4. PinsStay
    BY <1>5, <2>2, <2>3
    DEF InstallState, PinsStay, Pinning, Holds, Building, ThreadTypes
  <2> QED BY <2>4, StayCounts
<1>6. ASSUME NEW t \in Threads, Open(t) PROVE PinTypes' /\ PinsInv'
  <2>1. PICK i \in Slots :
           /\ LeaseOn(t, i)
           /\ handle' = [handle EXCEPT ![t] =
                           [slot |-> i, gen |-> slot[i].gen]]
           /\ slot[i].state = "occupied"
    BY <1>6 DEF Open
  <2>2. slot[i].gen # 0
    <3>1. slot[i].gen \in 0 .. MaxGen /\ slot[i].gen > 0
      BY <2>1 DEF OccInv, SlotTypes, SlotType
    <3> QED BY <3>1, Bounds
  <2>3. [slot |-> i, gen |-> slot[i].gen] # NoHandle
    BY <2>2 DEF NoHandle
  <2>4. /\ row[ProcOf[t]] # NoRow /\ row' = row /\ handle[t] = NoHandle
        /\ pc[t] = "idle" /\ pc' = pc /\ on' = on
    BY <1>6 DEF Open
  <2>5. ~Pinning(t, i) BY <2>4 DEF Pinning, Holds, Building
  <2>6. \A u \in Threads, j \in Slots :
           Pinning(u, j)' <=> Pinning(u, j) \/ (u = t /\ j = i)
    BY <2>1, <2>3, <2>4 DEF Pinning, Holds, Building
  <2> QED BY <2>1, <2>4, <2>5, <2>6, LeaseCounts
<1>7. ASSUME NEW t \in Threads, Retire(t) PROVE PinTypes' /\ PinsInv'
  <2>1. PinsStay
    BY <1>7 DEF Retire, PinsStay, Pinning, Holds, Building, ThreadTypes
  <2> QED BY <2>1, StayCounts
<1>8. ASSUME NEW t \in Threads, DropHandle(t) PROVE PinTypes' /\ PinsInv'
  BY <1>8, DropUncounts
<1>9. ASSUME NEW t \in Threads, WriteChecks(t) PROVE PinTypes' /\ PinsInv'
  <2>1. PinsStay
    BY <1>9 DEF WriteChecks, Checks, PinsStay, Pinning, Holds, Building,
       ThreadTypes
  <2> QED BY <2>1, StayCounts
<1>10. ASSUME NEW t \in Threads, AddChecks(t) PROVE PinTypes' /\ PinsInv'
  <2>1. PinsStay
    BY <1>10 DEF AddChecks, Checks, PinsStay, Pinning, Holds, Building,
       ThreadTypes
  <2> QED BY <2>1, StayCounts
<1>11. ASSUME NEW t \in Threads, Write(t) PROVE PinTypes' /\ PinsInv'
  <2>1. PinsStay
    BY <1>11 DEF Write, PinsStay, Pinning, Holds, Building, ThreadTypes
  <2> QED BY <2>1, StayCounts
<1>12. ASSUME NEW t \in Threads, AddLoads(t) PROVE PinTypes' /\ PinsInv'
  <2>1. PinsStay
    BY <1>12 DEF AddLoads, PinsStay, Pinning, Holds, Building, ThreadTypes
  <2> QED BY <2>1, StayCounts
<1>13. ASSUME NEW t \in Threads, AddSwaps(t) PROVE PinTypes' /\ PinsInv'
  <2>1. PinsStay
    BY <1>13, AddSwapsEffect DEF PinsStay, Pinning, Holds, Building,
       ThreadTypes
  <2> QED BY <2>1, StayCounts
<1>14. ASSUME NEW t \in Threads, CountChange(t) PROVE PinTypes' /\ PinsInv'
  <2>1. PinsStay
    BY <1>14 DEF CountChange, PinsStay, Pinning, Holds, Building, ThreadTypes
  <2> QED BY <2>1, StayCounts
<1>15. ASSUME NEW t \in Threads, LookForWaiters(t) PROVE PinTypes' /\ PinsInv'
  <2>1. PinsStay
    BY <1>15 DEF LookForWaiters, WriteReturns, PinsStay, Pinning, Holds,
       Building, ThreadTypes
  <2> QED BY <2>1, StayCounts
<1>16. ASSUME NEW t \in Threads, BumpSequence(t) PROVE PinTypes' /\ PinsInv'
  <2>1. PinsStay
    BY <1>16 DEF BumpSequence, PinsStay, Pinning, Holds, Building, ThreadTypes
  <2> QED BY <2>1, StayCounts
<1>17. ASSUME NEW t \in Threads, WakeOn(t) PROVE PinTypes' /\ PinsInv'
  <2>1. PinsStay
    BY <1>17 DEF WakeOn, ParkedOn, PinsStay, Pinning, Holds, Building,
       ThreadTypes
  <2> QED BY <2>1, StayCounts
<1>18. ASSUME NEW t \in Threads, TakeVersion(t) PROVE PinTypes' /\ PinsInv'
  <2>1. PinsStay
    BY <1>18 DEF TakeVersion, Is, PinsStay, Pinning, Holds, Building,
       ThreadTypes
  <2> QED BY <2>1, StayCounts
<1>19. ASSUME NEW t \in Threads, WaitLoops(t) PROVE PinTypes' /\ PinsInv'
  <2>1. PinsStay
    BY <1>19 DEF WaitLoops, WaitReturns, Over, PinsStay, Pinning, Holds,
       Building, ThreadTypes
  <2> QED BY <2>1, StayCounts
<1>20. ASSUME NEW t \in Threads, Register(t) PROVE PinTypes' /\ PinsInv'
  <2>1. PinsStay
    BY <1>20 DEF Register, PinsStay, Pinning, Holds, Building, ThreadTypes
  <2> QED BY <2>1, StayCounts
<1>21. ASSUME NEW t \in Threads, Snapshot(t) PROVE PinTypes' /\ PinsInv'
  <2>1. PinsStay
    BY <1>21 DEF Snapshot, PinsStay, Pinning, Holds, Building, ThreadTypes
  <2> QED BY <2>1, StayCounts
<1>22. ASSUME NEW t \in Threads, Recheck(t) PROVE PinTypes' /\ PinsInv'
  <2>1. PinsStay
    BY <1>22 DEF Recheck, ShouldWait, PinsStay, Pinning, Holds, Building,
       ThreadTypes
  <2> QED BY <2>1, StayCounts
<1>23. ASSUME NEW t \in Threads, Park(t) PROVE PinTypes' /\ PinsInv'
  <2>1. PinsStay
    BY <1>23 DEF Park, PinsStay, Pinning, Holds, Building, ThreadTypes
  <2> QED BY <2>1, StayCounts
<1>24. ASSUME NEW t \in Threads, Interrupted(t) PROVE PinTypes' /\ PinsInv'
  <2>1. PinsStay
    BY <1>24 DEF Interrupted, PinsStay, Pinning, Holds, Building, ThreadTypes
  <2> QED BY <2>1, StayCounts
<1>25. ASSUME NEW t \in Threads, Leave(t) PROVE PinTypes' /\ PinsInv'
  <2>1. PinsStay
    BY <1>25 DEF Leave, Deregister, PinsStay, Pinning, Holds, Building,
       ThreadTypes
  <2> QED BY <2>1, StayCounts
<1>26. ASSUME NEW t \in Threads, LeaveExhausted(t) PROVE PinTypes' /\ PinsInv'
  <2>1. PinsStay
    BY <1>26 DEF LeaveExhausted, Deregister, PinsStay, Pinning, Holds,
       Building, ThreadTypes
  <2> QED BY <2>1, StayCounts
<1>27. ASSUME NEW t \in Threads, SetInterrupt(t) PROVE PinTypes' /\ PinsInv'
  <2>1. PinsStay
    BY <1>27 DEF SetInterrupt, PinsStay, Pinning, Holds, Building, ThreadTypes
  <2> QED BY <2>1, StayCounts
<1>28. ASSUME NEW t \in Threads, WakeWaiters(t) PROVE PinTypes' /\ PinsInv'
  <2>1. PinsStay
    BY <1>28 DEF WakeWaiters, Is, PinsStay, Pinning, Holds, Building,
       ThreadTypes
  <2> QED BY <2>1, StayCounts
<1>29. ASSUME NEW p \in Procs, Crash(p) PROVE PinTypes' /\ PinsInv'
  <2>1. PinTypes' /\ pins' = pins BY <1>29 DEF Crash, PinTypes
  <2>2. \A q \in Procs, i \in Slots :
           q # p => Pinners(q, i)' = Pinners(q, i)
    <3>1. \A u \in Threads, i \in Slots :
             ProcOf[u] # p => (Pinning(u, i)' <=> Pinning(u, i))
      BY <1>29 DEF Crash, Pinning, Holds, Building
    <3> QED BY <3>1 DEF Pinners
  <2>3. row' = [row EXCEPT ![p] = NoRow] BY <1>29 DEF Crash
  <2> QED BY <2>1, <2>2, <2>3 DEF PinsInv
<1>30. ASSUME NEW p \in Procs, Claim(p) PROVE PinTypes' /\ PinsInv'
  <2>1. PICK r \in Rows :
           /\ \A q \in Procs : row[q] # r
           /\ row' = [row EXCEPT ![p] = r]
           /\ pins' = [pins EXCEPT ![r] = [i \in Slots |-> 0]]
    BY <1>30 DEF Claim
  <2>2. PinTypes' BY <2>1 DEF PinTypes
  <2>3. \A u \in Threads, i \in Slots : Pinning(u, i)' <=> Pinning(u, i)
    BY <1>30 DEF Claim, Pinning, Holds, Building
  <2>4. \A q \in Procs, i \in Slots : Pinners(q, i)' = Pinners(q, i)
    BY <2>3 DEF Pinners
  <2>5. \A i \in Slots : Pinners(p, i) = {}
    BY <1>30 DEF Claim, Pinners, Pinning, Holds, Building, RowsInv
  <2>6. ASSUME NEW q \in Procs, NEW i \in Slots, row'[q] # NoRow
        PROVE  pins'[row'[q]][i] = Cardinality(Pinners(q, i))
    <3>1. CASE q = p
      <4>1. row'[q] = r BY <2>1, <3>1
      <4>2. pins'[r][i] = 0 BY <2>1 DEF PinTypes
      <4> QED BY <2>5, <3>1, <4>1, <4>2, FS_EmptySet
    <3>2. CASE q # p
      <4>1. row'[q] = row[q] BY <2>1, <3>2
      <4>2. pins'[row[q]][i] = pins[row[q]][i]
        <5>1. row[q] \in Rows BY <2>6, <4>1
        <5>2. row[q] # r BY <2>1
        <5> QED BY <2>1, <5>1, <5>2 DEF PinTypes
      <4> QED BY <2>6, <4>1, <4>2 DEF PinsInv
    <3> QED BY <3>1, <3>2
  <2> QED BY <2>2, <2>4, <2>6 DEF PinsInv
<1> QED
  BY <1>1, <1>2, <1>3, <1>4, <1>5, <1>6, <1>7, <1>8, <1>9, <1>10, <1>11,
     <1>12, <1>13, <1>14, <1>15, <1>16, <1>17, <1>18, <1>19, <1>20, <1>21,
     <1>22, <1>23, <1>24, <1>25, <1>26, <1>27, <1>28, <1>29, <1>30
     DEF Next, Begins, Proceeds

-----------------------------------------------------------------------------
(***************************************************************************)
(* Types                                                                   *)
(***************************************************************************)


\* The fields of a slot keep their ranges: the generation and the sequence
\* stop at their maximum, the count of waiters does not go below zero.
LEMMA SlotTypesKept ==
    ASSUME IInv, Next
    PROVE  SlotTypes'
<1> USE DEF SlotTypes, Types, IInv, Goes, Idle, Running, ownVars, threadVars
<1>1. ASSUME NEW t \in Threads, AllocTakes(t) PROVE SlotTypes'
  BY <1>1 DEF AllocTakes, LeaseOn, FirstFree, Free
<1>2. ASSUME NEW t \in Threads, AllocReclaims(t) PROVE SlotTypes'
  BY <1>2 DEF AllocReclaims, Dead
<1>3. ASSUME NEW t \in Threads, AllocFull(t) PROVE SlotTypes'
  BY <1>3 DEF AllocFull
<1>4. ASSUME NEW t \in Threads, InstallFields(t) PROVE SlotTypes'
  BY <1>4, InstallFieldsEffect DEF Changes
<1>5. ASSUME NEW t \in Threads, InstallState(t) PROVE SlotTypes'
  BY <1>5, InstallStateEffect DEF Changes, InstallState
<1>6. ASSUME NEW t \in Threads, Open(t) PROVE SlotTypes'
  BY <1>6 DEF Open, LeaseOn
<1>7. ASSUME NEW t \in Threads, Retire(t) PROVE SlotTypes'
  BY <1>7, RetireEffect DEF Changes, Retire
<1>8. ASSUME NEW t \in Threads, DropHandle(t) PROVE SlotTypes'
  BY <1>8 DEF DropHandle
<1>9. ASSUME NEW t \in Threads, WriteChecks(t) PROVE SlotTypes'
  BY <1>9 DEF WriteChecks, Checks
<1>10. ASSUME NEW t \in Threads, AddChecks(t) PROVE SlotTypes'
  BY <1>10 DEF AddChecks, Checks
<1>11. ASSUME NEW t \in Threads, Write(t) PROVE SlotTypes'
  BY <1>11, WriteEffect DEF Changes, Write
<1>12. ASSUME NEW t \in Threads, AddLoads(t) PROVE SlotTypes'
  BY <1>12 DEF AddLoads
<1>13. ASSUME NEW t \in Threads, AddSwaps(t) PROVE SlotTypes'
  BY <1>13, AddSwapsEffect DEF Changes
<1>14. ASSUME NEW t \in Threads, CountChange(t) PROVE SlotTypes'
  BY <1>14, CountChangeEffect DEF Changes, CountChange
<1>15. ASSUME NEW t \in Threads, LookForWaiters(t) PROVE SlotTypes'
  BY <1>15 DEF LookForWaiters, WriteReturns
<1>16. ASSUME NEW t \in Threads, BumpSequence(t) PROVE SlotTypes'
  BY <1>16, BumpSequenceEffect DEF Changes, BumpSequence
<1>17. ASSUME NEW t \in Threads, WakeOn(t) PROVE SlotTypes'
  BY <1>17 DEF WakeOn, ParkedOn
<1>18. ASSUME NEW t \in Threads, TakeVersion(t) PROVE SlotTypes'
  BY <1>18 DEF TakeVersion, Is
<1>19. ASSUME NEW t \in Threads, WaitLoops(t) PROVE SlotTypes'
  BY <1>19 DEF WaitLoops, WaitReturns, Over
<1>20. ASSUME NEW t \in Threads, Register(t) PROVE SlotTypes'
  BY <1>20, RegisterEffect DEF Changes, Register
<1>21. ASSUME NEW t \in Threads, Snapshot(t) PROVE SlotTypes'
  BY <1>21 DEF Snapshot
<1>22. ASSUME NEW t \in Threads, Recheck(t) PROVE SlotTypes'
  BY <1>22 DEF Recheck, ShouldWait
<1>23. ASSUME NEW t \in Threads, Park(t) PROVE SlotTypes'
  BY <1>23 DEF Park
<1>24. ASSUME NEW t \in Threads, Interrupted(t) PROVE SlotTypes'
  BY <1>24 DEF Interrupted
<1>25. ASSUME NEW t \in Threads, Leave(t) PROVE SlotTypes'
  BY <1>25, LeaveEffect DEF Changes, Leave, Deregister
<1>26. ASSUME NEW t \in Threads, LeaveExhausted(t) PROVE SlotTypes'
  BY <1>26, LeaveExhaustedEffect DEF Changes, LeaveExhausted, Deregister
<1>27. ASSUME NEW t \in Threads, SetInterrupt(t) PROVE SlotTypes'
  BY <1>27 DEF SetInterrupt
<1>28. ASSUME NEW t \in Threads, WakeWaiters(t) PROVE SlotTypes'
  BY <1>28 DEF WakeWaiters, Is
<1>29. ASSUME NEW p \in Procs, Crash(p) PROVE SlotTypes'
  BY <1>29 DEF Crash
<1>30. ASSUME NEW p \in Procs, Claim(p) PROVE SlotTypes'
  BY <1>30 DEF Claim
<1> QED
  BY <1>1, <1>2, <1>3, <1>4, <1>5, <1>6, <1>7, <1>8, <1>9, <1>10, <1>11,
     <1>12, <1>13, <1>14, <1>15, <1>16, <1>17, <1>18, <1>19, <1>20, <1>21,
     <1>22, <1>23, <1>24, <1>25, <1>26, <1>27, <1>28, <1>29, <1>30
     DEF Next, Begins, Proceeds


\* The hint, the lock, the rows and the histories keep their types.
LEMMA TableTypesKept ==
    ASSUME IInv, Next
    PROVE  TableTypes'
<1> USE CapacityAssumption, ProcAssumption DEF TableTypes, HandleTypes, Types,
        IInv, Goes, Idle, Running, ownVars, threadVars
<1>1. ASSUME NEW t \in Threads, AllocTakes(t) PROVE TableTypes'
  BY <1>1 DEF AllocTakes, LeaseOn, FirstFree, Free
<1>2. ASSUME NEW t \in Threads, AllocReclaims(t) PROVE TableTypes'
  BY <1>2 DEF AllocReclaims, Dead
<1>3. ASSUME NEW t \in Threads, AllocFull(t) PROVE TableTypes'
  BY <1>3 DEF AllocFull
<1>4. ASSUME NEW t \in Threads, InstallFields(t) PROVE TableTypes'
  <2>1. /\ granted' = [granted EXCEPT ![on[t]] = 0]
        /\ UNCHANGED <<hint, lock, row, crashes>>
    BY <1>4, InstallFieldsEffect
  <2> QED BY <2>1
<1>5. ASSUME NEW t \in Threads, InstallState(t) PROVE TableTypes'
  <2>1. hint' \in Slots
    <3>1. on[t] \in 0 .. Capacity - 1 BY DEF Slots
    <3>2. hint' = (on[t] + 1) % Capacity BY <1>5 DEF InstallState
    <3> QED BY <3>1, <3>2 DEF Slots
  <2> QED BY <1>5, <2>1 DEF InstallState
<1>6. ASSUME NEW t \in Threads, Open(t) PROVE TableTypes'
  BY <1>6 DEF Open, LeaseOn
<1>7. ASSUME NEW t \in Threads, Retire(t) PROVE TableTypes'
  BY <1>7 DEF Retire
<1>8. ASSUME NEW t \in Threads, DropHandle(t) PROVE TableTypes'
  BY <1>8 DEF DropHandle
<1>9. ASSUME NEW t \in Threads, WriteChecks(t) PROVE TableTypes'
  BY <1>9 DEF WriteChecks, Checks
<1>10. ASSUME NEW t \in Threads, AddChecks(t) PROVE TableTypes'
  BY <1>10 DEF AddChecks, Checks
<1>11. ASSUME NEW t \in Threads, Write(t) PROVE TableTypes'
  BY <1>11 DEF Write
<1>12. ASSUME NEW t \in Threads, AddLoads(t) PROVE TableTypes'
  BY <1>12 DEF AddLoads
<1>13. ASSUME NEW t \in Threads, AddSwaps(t) PROVE TableTypes'
  <2>1. /\ granted' = [granted EXCEPT ![on[t]] = slot'[on[t]].value]
        /\ slot'[on[t]].value \in Nat
        /\ UNCHANGED <<hint, lock, row, crashes>>
    BY <1>13, AddSwapsEffect
  <2> QED BY <2>1
<1>14. ASSUME NEW t \in Threads, CountChange(t) PROVE TableTypes'
  BY <1>14 DEF CountChange
<1>15. ASSUME NEW t \in Threads, LookForWaiters(t) PROVE TableTypes'
  BY <1>15 DEF LookForWaiters, WriteReturns
<1>16. ASSUME NEW t \in Threads, BumpSequence(t) PROVE TableTypes'
  BY <1>16 DEF BumpSequence
<1>17. ASSUME NEW t \in Threads, WakeOn(t) PROVE TableTypes'
  BY <1>17 DEF WakeOn, ParkedOn
<1>18. ASSUME NEW t \in Threads, TakeVersion(t) PROVE TableTypes'
  BY <1>18 DEF TakeVersion, Is
<1>19. ASSUME NEW t \in Threads, WaitLoops(t) PROVE TableTypes'
  BY <1>19 DEF WaitLoops, WaitReturns, Over
<1>20. ASSUME NEW t \in Threads, Register(t) PROVE TableTypes'
  BY <1>20 DEF Register
<1>21. ASSUME NEW t \in Threads, Snapshot(t) PROVE TableTypes'
  BY <1>21 DEF Snapshot
<1>22. ASSUME NEW t \in Threads, Recheck(t) PROVE TableTypes'
  BY <1>22 DEF Recheck, ShouldWait
<1>23. ASSUME NEW t \in Threads, Park(t) PROVE TableTypes'
  BY <1>23 DEF Park
<1>24. ASSUME NEW t \in Threads, Interrupted(t) PROVE TableTypes'
  BY <1>24 DEF Interrupted
<1>25. ASSUME NEW t \in Threads, Leave(t) PROVE TableTypes'
  BY <1>25 DEF Leave, Deregister
<1>26. ASSUME NEW t \in Threads, LeaveExhausted(t) PROVE TableTypes'
  BY <1>26 DEF LeaveExhausted, Deregister
<1>27. ASSUME NEW t \in Threads, SetInterrupt(t) PROVE TableTypes'
  BY <1>27 DEF SetInterrupt
<1>28. ASSUME NEW t \in Threads, WakeWaiters(t) PROVE TableTypes'
  BY <1>28 DEF WakeWaiters, Is
<1>29. ASSUME NEW p \in Procs, Crash(p) PROVE TableTypes'
  BY <1>29 DEF Crash
<1>30. ASSUME NEW p \in Procs, Claim(p) PROVE TableTypes'
  BY <1>30 DEF Claim
<1> QED
  BY <1>1, <1>2, <1>3, <1>4, <1>5, <1>6, <1>7, <1>8, <1>9, <1>10, <1>11,
     <1>12, <1>13, <1>14, <1>15, <1>16, <1>17, <1>18, <1>19, <1>20, <1>21,
     <1>22, <1>23, <1>24, <1>25, <1>26, <1>27, <1>28, <1>29, <1>30
     DEF Next, Begins, Proceeds


\* A handle is of a slot and of a generation that is not zero.
LEMMA HandleTypesKept ==
    ASSUME IInv, Next
    PROVE  HandleTypes'
<1> USE Bounds, CapacityAssumption DEF HandleTypes, Types, IInv, Goes, Idle,
        Running, ownVars, threadVars
<1>1. ASSUME NEW t \in Threads, AllocTakes(t) PROVE HandleTypes'
  BY <1>1 DEF AllocTakes, FirstFree
<1>2. ASSUME NEW t \in Threads, AllocReclaims(t) PROVE HandleTypes'
  BY <1>2 DEF AllocReclaims, Dead
<1>3. ASSUME NEW t \in Threads, AllocFull(t) PROVE HandleTypes'
  BY <1>3 DEF AllocFull
<1>4. ASSUME NEW t \in Threads, InstallFields(t) PROVE HandleTypes'
  BY <1>4, InstallFieldsEffect DEF Changes
<1>5. ASSUME NEW t \in Threads, InstallState(t) PROVE HandleTypes'
  <2>1. [slot |-> on[t], gen |-> slot[on[t]].gen] \in Handles
    <3>1. slot[on[t]].gen \in 0 .. MaxGen /\ slot[on[t]].gen > 0
      BY <1>5 DEF InstallState, InstallInv, Building, SlotTypes, SlotType
    <3> QED BY <3>1 DEF Handles
  <2> QED BY <1>5, <2>1 DEF InstallState
<1>6. ASSUME NEW t \in Threads, Open(t) PROVE HandleTypes'
  <2>1. PICK i \in Slots :
           /\ slot[i].state = "occupied"
           /\ handle' = [handle EXCEPT ![t] =
                           [slot |-> i, gen |-> slot[i].gen]]
    BY <1>6 DEF Open
  <2>2. [slot |-> i, gen |-> slot[i].gen] \in Handles
    <3>1. slot[i].gen \in 0 .. MaxGen /\ slot[i].gen > 0
      BY <2>1 DEF OccInv, SlotTypes, SlotType
    <3> QED BY <3>1 DEF Handles
  <2> QED BY <1>6, <2>1, <2>2 DEF Open
<1>7. ASSUME NEW t \in Threads, Retire(t) PROVE HandleTypes'
  BY <1>7 DEF Retire
<1>8. ASSUME NEW t \in Threads, DropHandle(t) PROVE HandleTypes'
  BY <1>8 DEF DropHandle, Handles
<1>9. ASSUME NEW t \in Threads, WriteChecks(t) PROVE HandleTypes'
  BY <1>9 DEF WriteChecks, Checks, Handles
<1>10. ASSUME NEW t \in Threads, AddChecks(t) PROVE HandleTypes'
  BY <1>10 DEF AddChecks, Checks, Handles
<1>11. ASSUME NEW t \in Threads, Write(t) PROVE HandleTypes'
  BY <1>11 DEF Write
<1>12. ASSUME NEW t \in Threads, AddLoads(t) PROVE HandleTypes'
  BY <1>12 DEF AddLoads
<1>13. ASSUME NEW t \in Threads, AddSwaps(t) PROVE HandleTypes'
  BY <1>13, AddSwapsEffect DEF Changes
<1>14. ASSUME NEW t \in Threads, CountChange(t) PROVE HandleTypes'
  BY <1>14 DEF CountChange
<1>15. ASSUME NEW t \in Threads, LookForWaiters(t) PROVE HandleTypes'
  BY <1>15 DEF LookForWaiters, WriteReturns
<1>16. ASSUME NEW t \in Threads, BumpSequence(t) PROVE HandleTypes'
  BY <1>16 DEF BumpSequence
<1>17. ASSUME NEW t \in Threads, WakeOn(t) PROVE HandleTypes'
  BY <1>17 DEF WakeOn, ParkedOn
<1>18. ASSUME NEW t \in Threads, TakeVersion(t) PROVE HandleTypes'
  BY <1>18 DEF TakeVersion, Handles
<1>19. ASSUME NEW t \in Threads, WaitLoops(t) PROVE HandleTypes'
  BY <1>19 DEF WaitLoops, WaitReturns, Over
<1>20. ASSUME NEW t \in Threads, Register(t) PROVE HandleTypes'
  BY <1>20 DEF Register
<1>21. ASSUME NEW t \in Threads, Snapshot(t) PROVE HandleTypes'
  BY <1>21 DEF Snapshot
<1>22. ASSUME NEW t \in Threads, Recheck(t) PROVE HandleTypes'
  BY <1>22 DEF Recheck, ShouldWait
<1>23. ASSUME NEW t \in Threads, Park(t) PROVE HandleTypes'
  BY <1>23 DEF Park
<1>24. ASSUME NEW t \in Threads, Interrupted(t) PROVE HandleTypes'
  BY <1>24 DEF Interrupted
<1>25. ASSUME NEW t \in Threads, Leave(t) PROVE HandleTypes'
  BY <1>25 DEF Leave, Deregister
<1>26. ASSUME NEW t \in Threads, LeaveExhausted(t) PROVE HandleTypes'
  BY <1>26 DEF LeaveExhausted, Deregister
<1>27. ASSUME NEW t \in Threads, SetInterrupt(t) PROVE HandleTypes'
  BY <1>27 DEF SetInterrupt, Handles
<1>28. ASSUME NEW t \in Threads, WakeWaiters(t) PROVE HandleTypes'
  BY <1>28 DEF WakeWaiters, Is
<1>29. ASSUME NEW p \in Procs, Crash(p) PROVE HandleTypes'
  <2>1. 0 \in Slots BY DEF Slots
  <2>2. NoHandle \in Handles BY DEF Handles
  <2> QED BY <1>29, <2>1, <2>2 DEF Crash
<1>30. ASSUME NEW p \in Procs, Claim(p) PROVE HandleTypes'
  BY <1>30 DEF Claim
<1> QED
  BY <1>1, <1>2, <1>3, <1>4, <1>5, <1>6, <1>7, <1>8, <1>9, <1>10, <1>11,
     <1>12, <1>13, <1>14, <1>15, <1>16, <1>17, <1>18, <1>19, <1>20, <1>21,
     <1>22, <1>23, <1>24, <1>25, <1>26, <1>27, <1>28, <1>29, <1>30
     DEF Next, Begins, Proceeds


\* A thread is at one of its places and remembers numbers.
LEMMA ThreadTypesKept ==
    ASSUME IInv, Next
    PROVE  ThreadTypes'
<1> USE Bounds DEF ThreadTypes, Types, Places, Waiting, IInv, Goes, Idle,
        Running, ownVars, threadVars
<1>1. ASSUME NEW t \in Threads, AllocTakes(t) PROVE ThreadTypes'
  BY <1>1 DEF AllocTakes, LeaseOn, FirstFree, Free
<1>2. ASSUME NEW t \in Threads, AllocReclaims(t) PROVE ThreadTypes'
  BY <1>2 DEF AllocReclaims, Dead
<1>3. ASSUME NEW t \in Threads, AllocFull(t) PROVE ThreadTypes'
  BY <1>3 DEF AllocFull
<1>4. ASSUME NEW t \in Threads, InstallFields(t) PROVE ThreadTypes'
  BY <1>4, InstallFieldsEffect DEF Changes
<1>5. ASSUME NEW t \in Threads, InstallState(t) PROVE ThreadTypes'
  BY <1>5 DEF InstallState
<1>6. ASSUME NEW t \in Threads, Open(t) PROVE ThreadTypes'
  BY <1>6 DEF Open, LeaseOn
<1>7. ASSUME NEW t \in Threads, Retire(t) PROVE ThreadTypes'
  BY <1>7 DEF Retire
<1>8. ASSUME NEW t \in Threads, DropHandle(t) PROVE ThreadTypes'
  BY <1>8 DEF DropHandle
<1>9. ASSUME NEW t \in Threads, WriteChecks(t) PROVE ThreadTypes'
  BY <1>9 DEF WriteChecks, Checks
<1>10. ASSUME NEW t \in Threads, AddChecks(t) PROVE ThreadTypes'
  BY <1>10 DEF AddChecks, Checks
<1>11. ASSUME NEW t \in Threads, Write(t) PROVE ThreadTypes'
  BY <1>11 DEF Write
<1>12. ASSUME NEW t \in Threads, AddLoads(t) PROVE ThreadTypes'
  BY <1>12 DEF AddLoads, HandleTypes, SlotTypes, SlotType
<1>13. ASSUME NEW t \in Threads, AddSwaps(t) PROVE ThreadTypes'
  BY <1>13, AddSwapsEffect DEF Changes
<1>14. ASSUME NEW t \in Threads, CountChange(t) PROVE ThreadTypes'
  BY <1>14 DEF CountChange
<1>15. ASSUME NEW t \in Threads, LookForWaiters(t) PROVE ThreadTypes'
  BY <1>15 DEF LookForWaiters, WriteReturns
<1>16. ASSUME NEW t \in Threads, BumpSequence(t) PROVE ThreadTypes'
  BY <1>16 DEF BumpSequence
<1>17. ASSUME NEW t \in Threads, WakeOn(t) PROVE ThreadTypes'
  BY <1>17 DEF WakeOn, ParkedOn
<1>18. ASSUME NEW t \in Threads, TakeVersion(t) PROVE ThreadTypes'
  <2>1. slot[handle[t].slot].changes \in Nat
    BY <1>18 DEF TakeVersion, HandleTypes, Handles, SlotTypes, SlotType
  <2> QED BY <1>18, <2>1 DEF TakeVersion
<1>19. ASSUME NEW t \in Threads, WaitLoops(t) PROVE ThreadTypes'
  <2>1. CASE Over(t)
    <3>1. stop' = [stop EXCEPT ![t] = FALSE]
      BY <1>19, <2>1 DEF WaitLoops, WaitReturns
    <3>2. stop' \in [Threads -> BOOLEAN] BY <3>1
    <3>3. /\ pc' \in [Threads -> Places] /\ since' \in [Threads -> Nat]
          /\ UNCHANGED <<observed, current>>
      BY <1>19, <2>1 DEF WaitLoops, WaitReturns
    <3> QED BY <3>2, <3>3
  <2>2. CASE ~Over(t)
    BY <1>19, <2>2 DEF WaitLoops
  <2> QED BY <2>1, <2>2
<1>20. ASSUME NEW t \in Threads, Register(t) PROVE ThreadTypes'
  BY <1>20 DEF Register
<1>21. ASSUME NEW t \in Threads, Snapshot(t) PROVE ThreadTypes'
  BY <1>21 DEF Snapshot, HandleTypes, SlotTypes, SlotType
<1>22. ASSUME NEW t \in Threads, Recheck(t) PROVE ThreadTypes'
  BY <1>22 DEF Recheck, ShouldWait
<1>23. ASSUME NEW t \in Threads, Park(t) PROVE ThreadTypes'
  BY <1>23 DEF Park
<1>24. ASSUME NEW t \in Threads, Interrupted(t) PROVE ThreadTypes'
  BY <1>24 DEF Interrupted
<1>25. ASSUME NEW t \in Threads, Leave(t) PROVE ThreadTypes'
  BY <1>25 DEF Leave, Deregister
<1>26. ASSUME NEW t \in Threads, LeaveExhausted(t) PROVE ThreadTypes'
  BY <1>26 DEF LeaveExhausted, Deregister
<1>27. ASSUME NEW t \in Threads, SetInterrupt(t) PROVE ThreadTypes'
  BY <1>27 DEF SetInterrupt
<1>28. ASSUME NEW t \in Threads, WakeWaiters(t) PROVE ThreadTypes'
  BY <1>28 DEF WakeWaiters, Is
<1>29. ASSUME NEW p \in Procs, Crash(p) PROVE ThreadTypes'
  <2>1. pc' \in [Threads -> Places] BY <1>29 DEF Crash
  <2>2. /\ since' \in [Threads -> Nat]
        /\ observed' \in [Threads -> 0 .. MaxSeq]
        /\ current' \in [Threads -> Nat]
    BY <1>29 DEF Crash
  <2>3. stop' \in [Threads -> BOOLEAN] BY <1>29 DEF Crash
  <2> QED BY <2>1, <2>2, <2>3
<1>30. ASSUME NEW p \in Procs, Claim(p) PROVE ThreadTypes'
  BY <1>30 DEF Claim
<1> QED
  BY <1>1, <1>2, <1>3, <1>4, <1>5, <1>6, <1>7, <1>8, <1>9, <1>10, <1>11,
     <1>12, <1>13, <1>14, <1>15, <1>16, <1>17, <1>18, <1>19, <1>20, <1>21,
     <1>22, <1>23, <1>24, <1>25, <1>26, <1>27, <1>28, <1>29, <1>30
     DEF Next, Begins, Proceeds

-----------------------------------------------------------------------------
(***************************************************************************)
(* The count of waiters                                                    *)
(***************************************************************************)

\* A step at which nobody registers, leaves or dies.
CountStays ==
    /\ crashes' = crashes
    /\ \A i \in Slots : /\ Registered(i)' = Registered(i)
                        /\ slot'[i].waiters = slot[i].waiters

\* Such a step leaves the count right.
LEMMA StayCounted ==
    ASSUME IInv, CountStays
    PROVE  WaitersCounted'
  BY DEF IInv, CountStays, WaitersCounted

\* The registered threads of a slot are finitely many.
LEMMA RegisteredFinite ==
    ASSUME NEW i
    PROVE  /\ IsFiniteSet(Registered(i))
           /\ Cardinality(Registered(i)) \in Nat
  BY ThreadsAssumption, FS_Subset, FS_CardinalityType DEF Registered

\* wait_if: one more is registered and one more is counted.
LEMMA RegisterCounted ==
    ASSUME IInv, NEW t \in Threads, Register(t)
    PROVE  WaitersCounted'
<1>1. on[t] \in Slots /\ on' = on /\ crashes' = crashes
  BY DEF IInv, Types, HandleTypes, Register
<1>2. \A i \in Slots \ {on[t]} : Registered(i)' = Registered(i)
  BY DEF Registered, Register, Goes, IInv, Types, ThreadTypes
<1>3. /\ Registered(on[t])' = Registered(on[t]) \cup {t}
      /\ t \notin Registered(on[t])
  BY DEF Registered, Register, Goes, IInv, Types, ThreadTypes
<1>4. Cardinality(Registered(on[t])') = Cardinality(Registered(on[t])) + 1
  BY <1>3, RegisteredFinite, FS_AddElement
<1>5. /\ slot'[on[t]].waiters = slot[on[t]].waiters + 1
      /\ \A i \in Slots \ {on[t]} : slot'[i] = slot[i]
  BY RegisterEffect DEF Changes
<1>6. slot[on[t]].waiters \in Nat
  BY <1>1 DEF IInv, Types, SlotTypes, SlotType
<1>7. ASSUME NEW i \in Slots
      PROVE  /\ slot'[i].waiters >= Cardinality(Registered(i)')
             /\ crashes = 0 => slot'[i].waiters = Cardinality(Registered(i)')
  <2>1. /\ slot[i].waiters >= Cardinality(Registered(i))
        /\ crashes = 0 => slot[i].waiters = Cardinality(Registered(i))
    BY DEF IInv, WaitersCounted
  <2>2. CASE i = on[t]
    <3>1. Cardinality(Registered(on[t])) \in Nat BY RegisteredFinite
    <3> QED BY <1>1, <1>4, <1>5, <1>6, <2>1, <2>2, <3>1
  <2>3. CASE i # on[t]
    BY <1>2, <1>5, <2>1, <2>3
  <2> QED BY <2>2, <2>3
<1> QED BY <1>1, <1>7 DEF WaitersCounted

\* Registration::drop: one less is registered and one less is counted.
LEMMA LeaveCounted ==
    ASSUME IInv, NEW t \in Threads, Leave(t) \/ LeaveExhausted(t)
    PROVE  WaitersCounted'
<1>1. on[t] \in Slots /\ on' = on /\ crashes' = crashes
  BY DEF IInv, Types, HandleTypes, Leave, LeaveExhausted
<1>2. \A i \in Slots \ {on[t]} : Registered(i)' = Registered(i)
  BY DEF Registered, Leave, LeaveExhausted, Goes, IInv, Types, ThreadTypes
<1>3. /\ Registered(on[t])' = Registered(on[t]) \ {t}
      /\ t \in Registered(on[t])
  BY DEF Registered, Leave, LeaveExhausted, Goes, IInv, Types, ThreadTypes
<1>4. Cardinality(Registered(on[t])') = Cardinality(Registered(on[t])) - 1
  BY <1>3, RegisteredFinite, FS_RemoveElement
<1>5. /\ slot'[on[t]].waiters = slot[on[t]].waiters - 1
      /\ \A i \in Slots \ {on[t]} : slot'[i] = slot[i]
  BY LeaveEffect, LeaveExhaustedEffect DEF Changes
<1>6. slot[on[t]].waiters \in Nat
  BY <1>1 DEF IInv, Types, SlotTypes, SlotType
<1>7. ASSUME NEW i \in Slots
      PROVE  /\ slot'[i].waiters >= Cardinality(Registered(i)')
             /\ crashes = 0 => slot'[i].waiters = Cardinality(Registered(i)')
  <2>1. /\ slot[i].waiters >= Cardinality(Registered(i))
        /\ crashes = 0 => slot[i].waiters = Cardinality(Registered(i))
    BY DEF IInv, WaitersCounted
  <2>2. CASE i = on[t]
    <3>1. Cardinality(Registered(on[t])) \in Nat BY RegisteredFinite
    <3> QED BY <1>1, <1>4, <1>5, <1>6, <2>1, <2>2, <3>1
  <2>3. CASE i # on[t]
    BY <1>2, <1>5, <2>1, <2>3
  <2> QED BY <2>2, <2>3
<1> QED BY <1>1, <1>7 DEF WaitersCounted

\* install counts from zero again, in a slot nobody waits on.
LEMMA InstallCounted ==
    ASSUME IInv, NEW t \in Threads, InstallFields(t)
    PROVE  WaitersCounted'
<1>1. /\ on[t] \in Slots /\ on' = on /\ crashes' = crashes
      /\ pc[t] = "install" /\ pc' = [pc EXCEPT ![t] = "occupy"]
  BY InstallFieldsEffect DEF IInv, Types, HandleTypes
<1>2. \A i \in Slots : Registered(i)' = Registered(i)
  BY <1>1 DEF Registered, IInv, Types, ThreadTypes
<1>3. Registered(on[t]) = {}
  BY <1>1 DEF Registered, IInv, OpInv, InstallInv, Building, Waiting
<1>4. /\ slot'[on[t]].waiters = 0
      /\ \A i \in Slots \ {on[t]} : slot'[i] = slot[i]
  BY InstallFieldsEffect DEF Changes
<1>5. ASSUME NEW i \in Slots
      PROVE  /\ slot'[i].waiters >= Cardinality(Registered(i)')
             /\ crashes = 0 => slot'[i].waiters = Cardinality(Registered(i)')
  <2>1. CASE i = on[t]
    BY <1>2, <1>3, <1>4, <2>1, FS_EmptySet
  <2>2. CASE i # on[t]
    BY <1>2, <1>4, <2>2 DEF IInv, WaitersCounted
  <2> QED BY <2>1, <2>2
<1> QED BY <1>1, <1>5 DEF WaitersCounted

\* A death leaves the count of its waiters behind: it is too large then.
LEMMA CrashCounted ==
    ASSUME IInv, NEW p \in Procs, Crash(p)
    PROVE  WaitersCounted'
<1>1. slot' = slot /\ crashes' = crashes + 1 /\ crashes \in Nat
  BY DEF Crash, IInv, Types, TableTypes
<1>2. ASSUME NEW i \in Slots
      PROVE  slot[i].waiters >= Cardinality(Registered(i)')
  <2>1. Registered(i)' \subseteq Registered(i) BY DEF Registered, Crash
  <2>2. Cardinality(Registered(i)') <= Cardinality(Registered(i))
        /\ Cardinality(Registered(i)') \in Nat
    BY <2>1, RegisteredFinite, FS_Subset, FS_CardinalityType
  <2>3. slot[i].waiters >= Cardinality(Registered(i))
        /\ slot[i].waiters \in Nat
    BY DEF IInv, WaitersCounted, Types, SlotTypes, SlotType
  <2> QED BY <2>2, <2>3, RegisteredFinite
<1> QED BY <1>1, <1>2 DEF WaitersCounted

\* The count of waiters never misses one.
LEMMA CountKept ==
    ASSUME IInv, Next
    PROVE  WaitersCounted'
<1> USE DEF Types, SlotTypes, SlotType, HandleTypes, ThreadTypes, IInv, Goes,
        Idle, Running, ownVars, threadVars
<1>1. ASSUME NEW t \in Threads, AllocTakes(t) PROVE WaitersCounted'
  <2>1. CountStays
    BY <1>1 DEF AllocTakes, LeaseOn, FirstFree, Free, CountStays, Registered
  <2> QED BY <2>1, StayCounted
<1>2. ASSUME NEW t \in Threads, AllocReclaims(t) PROVE WaitersCounted'
  <2>1. CountStays
    BY <1>2 DEF AllocReclaims, Dead, CountStays, Registered
  <2> QED BY <2>1, StayCounted
<1>3. ASSUME NEW t \in Threads, AllocFull(t) PROVE WaitersCounted'
  <2>1. CountStays
    BY <1>3 DEF AllocFull, CountStays, Registered
  <2> QED BY <2>1, StayCounted
<1>4. ASSUME NEW t \in Threads, InstallFields(t) PROVE WaitersCounted'
  BY <1>4, InstallCounted
<1>5. ASSUME NEW t \in Threads, InstallState(t) PROVE WaitersCounted'
  <2>1. CountStays
    BY <1>5, InstallStateEffect DEF InstallState, CountStays, Registered,
       Changes
  <2> QED BY <2>1, StayCounted
<1>6. ASSUME NEW t \in Threads, Open(t) PROVE WaitersCounted'
  <2>1. CountStays
    BY <1>6 DEF Open, LeaseOn, CountStays, Registered
  <2> QED BY <2>1, StayCounted
<1>7. ASSUME NEW t \in Threads, Retire(t) PROVE WaitersCounted'
  <2>1. CountStays
    BY <1>7, RetireEffect DEF Retire, CountStays, Registered, Changes
  <2> QED BY <2>1, StayCounted
<1>8. ASSUME NEW t \in Threads, DropHandle(t) PROVE WaitersCounted'
  <2>1. CountStays
    BY <1>8 DEF DropHandle, CountStays, Registered
  <2> QED BY <2>1, StayCounted
<1>9. ASSUME NEW t \in Threads, WriteChecks(t) PROVE WaitersCounted'
  <2>1. CountStays
    BY <1>9 DEF WriteChecks, Checks, CountStays, Registered
  <2> QED BY <2>1, StayCounted
<1>10. ASSUME NEW t \in Threads, AddChecks(t) PROVE WaitersCounted'
  <2>1. CountStays
    BY <1>10 DEF AddChecks, Checks, CountStays, Registered
  <2> QED BY <2>1, StayCounted
<1>11. ASSUME NEW t \in Threads, Write(t) PROVE WaitersCounted'
  <2>1. CountStays
    BY <1>11, WriteEffect DEF Write, CountStays, Registered, Changes
  <2> QED BY <2>1, StayCounted
<1>12. ASSUME NEW t \in Threads, AddLoads(t) PROVE WaitersCounted'
  <2>1. CountStays
    BY <1>12 DEF AddLoads, CountStays, Registered
  <2> QED BY <2>1, StayCounted
<1>13. ASSUME NEW t \in Threads, AddSwaps(t) PROVE WaitersCounted'
  <2>1. /\ Changes(on[t], {"from", "value"})
        /\ \E s \in {"load", "count"} : pc' = [pc EXCEPT ![t] = s]
        /\ pc[t] = "swap" /\ on' = on /\ crashes' = crashes
    BY <1>13, AddSwapsEffect
  <2>2. CountStays BY <2>1 DEF CountStays, Registered, Changes
  <2> QED BY <2>2, StayCounted
<1>14. ASSUME NEW t \in Threads, CountChange(t) PROVE WaitersCounted'
  <2>1. CountStays
    BY <1>14, CountChangeEffect DEF CountChange, CountStays, Registered,
       Changes
  <2> QED BY <2>1, StayCounted
<1>15. ASSUME NEW t \in Threads, LookForWaiters(t) PROVE WaitersCounted'
  <2>1. CountStays
    BY <1>15 DEF LookForWaiters, WriteReturns, CountStays, Registered
  <2> QED BY <2>1, StayCounted
<1>16. ASSUME NEW t \in Threads, BumpSequence(t) PROVE WaitersCounted'
  <2>1. CountStays
    BY <1>16, BumpSequenceEffect DEF BumpSequence, CountStays, Registered,
       Changes
  <2> QED BY <2>1, StayCounted
<1>17. ASSUME NEW t \in Threads, WakeOn(t) PROVE WaitersCounted'
  <2>1. CountStays
    BY <1>17 DEF WakeOn, ParkedOn, CountStays, Registered
  <2> QED BY <2>1, StayCounted
<1>18. ASSUME NEW t \in Threads, TakeVersion(t) PROVE WaitersCounted'
  <2>1. CountStays
    BY <1>18 DEF TakeVersion, Is, CountStays, Registered
  <2> QED BY <2>1, StayCounted
<1>19. ASSUME NEW t \in Threads, WaitLoops(t) PROVE WaitersCounted'
  <2>1. CountStays
    BY <1>19 DEF WaitLoops, WaitReturns, Over, CountStays, Registered
  <2> QED BY <2>1, StayCounted
<1>20. ASSUME NEW t \in Threads, Register(t) PROVE WaitersCounted'
  BY <1>20, RegisterCounted
<1>21. ASSUME NEW t \in Threads, Snapshot(t) PROVE WaitersCounted'
  <2>1. CountStays
    BY <1>21 DEF Snapshot, CountStays, Registered
  <2> QED BY <2>1, StayCounted
<1>22. ASSUME NEW t \in Threads, Recheck(t) PROVE WaitersCounted'
  <2>1. CountStays
    BY <1>22 DEF Recheck, ShouldWait, CountStays, Registered
  <2> QED BY <2>1, StayCounted
<1>23. ASSUME NEW t \in Threads, Park(t) PROVE WaitersCounted'
  <2>1. CountStays
    BY <1>23 DEF Park, CountStays, Registered
  <2> QED BY <2>1, StayCounted
<1>24. ASSUME NEW t \in Threads, Interrupted(t) PROVE WaitersCounted'
  <2>1. CountStays
    BY <1>24 DEF Interrupted, CountStays, Registered
  <2> QED BY <2>1, StayCounted
<1>25. ASSUME NEW t \in Threads, Leave(t) PROVE WaitersCounted'
  BY <1>25, LeaveCounted
<1>26. ASSUME NEW t \in Threads, LeaveExhausted(t) PROVE WaitersCounted'
  BY <1>26, LeaveCounted
<1>27. ASSUME NEW t \in Threads, SetInterrupt(t) PROVE WaitersCounted'
  <2>1. CountStays
    BY <1>27 DEF SetInterrupt, CountStays, Registered
  <2> QED BY <2>1, StayCounted
<1>28. ASSUME NEW t \in Threads, WakeWaiters(t) PROVE WaitersCounted'
  <2>1. CountStays
    BY <1>28 DEF WakeWaiters, Is, CountStays, Registered
  <2> QED BY <2>1, StayCounted
<1>29. ASSUME NEW p \in Procs, Crash(p) PROVE WaitersCounted'
  BY <1>29, CrashCounted
<1>30. ASSUME NEW p \in Procs, Claim(p) PROVE WaitersCounted'
  <2>1. CountStays
    BY <1>30 DEF Claim, CountStays, Registered
  <2> QED BY <2>1, StayCounted
<1> QED
  BY <1>1, <1>2, <1>3, <1>4, <1>5, <1>6, <1>7, <1>8, <1>9, <1>10, <1>11,
     <1>12, <1>13, <1>14, <1>15, <1>16, <1>17, <1>18, <1>19, <1>20, <1>21,
     <1>22, <1>23, <1>24, <1>25, <1>26, <1>27, <1>28, <1>29, <1>30
     DEF Next, Begins, Proceeds

-----------------------------------------------------------------------------
(***************************************************************************)
(* Nobody sleeps over a change                                             *)
(***************************************************************************)

\* A step that concerns neither those who wake nor those who are to be woken.
Quiet ==
    /\ crashes' = crashes
    /\ \A w \in Threads :
          pc[w] \in Wakers => pc'[w] = pc[w] /\ on'[w] = on[w]
    /\ \A w \in Threads : pc'[w] \in InWait =>
          /\ pc[w] \in InWait /\ on'[w] = on[w] /\ on[w] \in Slots
          /\ since'[w] = since[w] /\ stop'[w] = stop[w]
          /\ slot'[on[w]].state = slot[on[w]].state
          /\ slot'[on[w]].changes = slot[on[w]].changes
          /\ slot'[on[w]].seq = slot[on[w]].seq
    /\ \A w \in Threads : pc'[w] \in {"park", "asleep"} =>
          pc'[w] = pc[w] /\ observed'[w] = observed[w]

\* Those who will wake are there after a quiet step.
LEMMA QuietWakers ==
    ASSUME Quiet, NEW i
    PROVE  /\ WillCount(i) => WillCount(i)'
           /\ WillWake(i) => WillWake(i)'
           /\ WillBump(i) => WillBump(i)'
           /\ WillRouse(i) => WillRouse(i)'
           /\ WillNotify(i) => WillNotify(i)'
  BY DEF Quiet, Wakers, WillCount, WillWake, WillBump, WillRouse, WillNotify

\* A quiet step loses no wake.
LEMMA QuietKeeps ==
    ASSUME Wakeful, Quiet
    PROVE  Wakeful'
<1> SUFFICES ASSUME crashes = 0
             PROVE  (/\ RetiredCounts /\ SleeperWoken /\ ParkerStopped
                     /\ SleeperRoused /\ ParkerRoused)'
  BY DEF Wakeful, Quiet
<1> USE QuietWakers DEF Quiet, Wakeful, InWait
<1>1. RetiredCounts' BY DEF RetiredCounts
<1>2. SleeperWoken' BY DEF SleeperWoken
<1>3. ParkerStopped' BY DEF ParkerStopped
<1>4. SleeperRoused' BY DEF SleeperRoused
<1>5. ParkerRoused' BY DEF ParkerRoused
<1> QED BY <1>1, <1>2, <1>3, <1>4, <1>5

\* What a step of t does to the others as wakers: nothing.
OthersWake(t) ==
    \A w \in Threads \ {t} :
        pc[w] \in Wakers => pc'[w] = pc[w] /\ on'[w] = on[w]

\* A waker is there after a step, unless the step was its own.
LEMMA WakersRemain ==
    ASSUME NEW t \in Threads, OthersWake(t)
    PROVE  \A i \in Slots :
        /\ WillCount(i) => WillCount(i)' \/ (on[t] = i /\ pc[t] = "count")
        /\ WillWake(i) => \/ WillWake(i)'
                          \/ on[t] = i /\ pc[t] \in {"look", "bump", "wake"}
        /\ WillBump(i) => \/ WillBump(i)'
                          \/ on[t] = i /\ pc[t] \in {"look", "bump"}
        /\ WillRouse(i) => \/ WillRouse(i)'
                           \/ on[t] = i /\ pc[t] \in {"rouse", "bump", "wake"}
        /\ WillNotify(i) => \/ WillNotify(i)'
                            \/ on[t] = i /\ pc[t] \in {"rouse", "bump"}
<1> TAKE i \in Slots
<1> USE DEF OthersWake, Wakers
<1>1. WillCount(i) => WillCount(i)' \/ (on[t] = i /\ pc[t] = "count")
  BY DEF WillCount
<1>2. WillWake(i) => \/ WillWake(i)'
                     \/ on[t] = i /\ pc[t] \in {"look", "bump", "wake"}
  BY DEF WillWake
<1>3. WillBump(i) => \/ WillBump(i)'
                     \/ on[t] = i /\ pc[t] \in {"look", "bump"}
  BY DEF WillBump
<1>4. WillRouse(i) => \/ WillRouse(i)'
                      \/ on[t] = i /\ pc[t] \in {"rouse", "bump", "wake"}
  BY DEF WillRouse
<1>5. WillNotify(i) => \/ WillNotify(i)'
                       \/ on[t] = i /\ pc[t] \in {"rouse", "bump"}
  BY DEF WillNotify
<1> QED BY <1>1, <1>2, <1>3, <1>4, <1>5

\* And the thread that has stepped may be one now.
LEMMA WakerNow ==
    ASSUME NEW t \in Threads, NEW i, on'[t] = i
    PROVE  /\ pc'[t] = "count" => WillCount(i)'
           /\ pc'[t] \in {"look", "bump", "wake"} => WillWake(i)'
           /\ pc'[t] \in {"look", "bump"} => WillBump(i)'
           /\ pc'[t] \in {"rouse", "bump", "wake"} => WillRouse(i)'
           /\ pc'[t] \in {"rouse", "bump"} => WillNotify(i)'
  BY DEF WillCount, WillWake, WillBump, WillRouse, WillNotify

\* The writer that has counted a change goes on to look for waiters.
LEMMA CountChangeWakeful ==
    ASSUME IInv, NEW t \in Threads, CountChange(t)
    PROVE  Wakeful'
<1> SUFFICES ASSUME crashes = 0
             PROVE  (/\ RetiredCounts /\ SleeperWoken /\ ParkerStopped
                     /\ SleeperRoused /\ ParkerRoused)'
  BY DEF Wakeful, CountChange
<1>1. /\ RetiredCounts /\ SleeperWoken /\ ParkerStopped
      /\ SleeperRoused /\ ParkerRoused
  BY DEF IInv, Wakeful
<1>2. /\ pc[t] = "count" /\ pc' = [pc EXCEPT ![t] = "look"]
      /\ UNCHANGED <<on, since, observed, stop>>
      /\ slot'[on[t]].changes = slot[on[t]].changes + 1
      /\ Changes(on[t], {"changes"})
      /\ pc \in [Threads -> Places]
      /\ \A w \in Threads : on[w] \in Slots
  BY CountChangeEffect DEF CountChange, Goes, IInv, Types, HandleTypes,
     ThreadTypes
<1>3. OthersWake(t) BY <1>2 DEF OthersWake
<1>4. \A u \in Threads : pc[u] \in InWait /\ on[u] = on[t] =>
         slot'[on[u]].changes # since[u]
  <2> SUFFICES ASSUME NEW u \in Threads, pc[u] \in InWait, on[u] = on[t]
               PROVE  slot'[on[u]].changes # since[u]
    OBVIOUS
  <2>1. since[u] <= slot[on[u]].changes
    BY DEF IInv, SinceInv, InWait, Waiting
  <2>2. since[u] \in Nat /\ slot[on[u]].changes \in Nat
    BY DEF IInv, Types, SlotTypes, SlotType, HandleTypes, ThreadTypes
  <2> QED BY <1>2, <2>1, <2>2
<1>5. RetiredCounts'
  BY <1>1, <1>2, <1>3, <1>4, WakersRemain, WakerNow DEF RetiredCounts, InWait,
     Changes
<1>6. SleeperWoken'
  BY <1>1, <1>2, <1>3, <1>4, WakersRemain, WakerNow DEF SleeperWoken, InWait,
     Changes
<1>7. ParkerStopped'
  BY <1>1, <1>2, <1>3, <1>4, WakersRemain, WakerNow DEF ParkerStopped, InWait,
     Changes
<1>8. SleeperRoused'
  BY <1>1, <1>2, <1>3, <1>4, WakersRemain, WakerNow DEF SleeperRoused, InWait,
     Changes
<1>9. ParkerRoused'
  BY <1>1, <1>2, <1>3, <1>4, WakersRemain, WakerNow DEF ParkerRoused, InWait,
     Changes
<1> QED BY <1>5, <1>6, <1>7, <1>8, <1>9


\* Once the sequence has moved, whoever is about to park will not.
LEMMA BumpSequenceWakeful ==
    ASSUME IInv, NEW t \in Threads, BumpSequence(t)
    PROVE  Wakeful'
<1> SUFFICES ASSUME crashes = 0
             PROVE  (/\ RetiredCounts /\ SleeperWoken /\ ParkerStopped
                     /\ SleeperRoused /\ ParkerRoused)'
  BY DEF Wakeful, BumpSequence
<1>1. /\ RetiredCounts /\ SleeperWoken /\ ParkerStopped
      /\ SleeperRoused /\ ParkerRoused
  BY DEF IInv, Wakeful
<1>2. /\ pc[t] = "bump" /\ pc' = [pc EXCEPT ![t] = "wake"]
      /\ UNCHANGED <<on, since, observed, stop>>
      /\ Changes(on[t], {"seq"})
      /\ pc \in [Threads -> Places]
      /\ \A w \in Threads : on[w] \in Slots
  BY BumpSequenceEffect DEF BumpSequence, Goes, IInv, Types, HandleTypes,
     ThreadTypes
<1>3. OthersWake(t) BY <1>2 DEF OthersWake
<1>4. \A u \in Threads : pc[u] = "park" /\ on[u] = on[t] =>
         slot'[on[u]].seq # observed[u]
  <2> SUFFICES ASSUME NEW u \in Threads, pc[u] = "park", on[u] = on[t]
               PROVE  slot'[on[u]].seq # observed[u]
    OBVIOUS
  <2>1. observed[u] <= slot[on[u]].seq /\ observed[u] # MaxSeq
    BY DEF IInv, SinceInv
  <2>2. observed[u] \in 0 .. MaxSeq /\ slot[on[u]].seq \in 0 .. MaxSeq
    BY DEF IInv, Types, SlotTypes, SlotType, HandleTypes, ThreadTypes
  <2>3. slot'[on[u]].seq = IF slot[on[u]].seq < MaxSeq
                           THEN slot[on[u]].seq + 1 ELSE slot[on[u]].seq
    BY BumpSequenceEffect
  <2> QED BY <2>1, <2>2, <2>3, Bounds
<1>5. RetiredCounts'
  BY <1>1, <1>2, <1>3, <1>4, WakersRemain, WakerNow DEF RetiredCounts, InWait,
     Changes
<1>6. SleeperWoken'
  BY <1>1, <1>2, <1>3, <1>4, WakersRemain, WakerNow DEF SleeperWoken, InWait,
     Changes
<1>7. ParkerStopped'
  BY <1>1, <1>2, <1>3, <1>4, WakersRemain, WakerNow DEF ParkerStopped, InWait,
     Changes
<1>8. SleeperRoused'
  BY <1>1, <1>2, <1>3, <1>4, WakersRemain, WakerNow DEF SleeperRoused, InWait,
     Changes
<1>9. ParkerRoused'
  BY <1>1, <1>2, <1>3, <1>4, WakersRemain, WakerNow DEF ParkerRoused, InWait,
     Changes
<1> QED BY <1>5, <1>6, <1>7, <1>8, <1>9


\* The writer that looks finds every sleeper counted.
LEMMA LookForWaitersWakeful ==
    ASSUME IInv, NEW t \in Threads, LookForWaiters(t)
    PROVE  Wakeful'
<1> SUFFICES ASSUME crashes = 0
             PROVE  (/\ RetiredCounts /\ SleeperWoken /\ ParkerStopped
                     /\ SleeperRoused /\ ParkerRoused)'
  BY DEF Wakeful, LookForWaiters
<1>1. /\ RetiredCounts /\ SleeperWoken /\ ParkerStopped
      /\ SleeperRoused /\ ParkerRoused
  BY DEF IInv, Wakeful
<1>2. /\ pc[t] = "look"
      /\ pc' = [pc EXCEPT ![t] = IF slot[on[t]].waiters = 0
                  THEN "idle" ELSE "bump"]
      /\ UNCHANGED <<slot, on, since, observed, stop>>
      /\ pc \in [Threads -> Places]
      /\ \A w \in Threads : on[w] \in Slots
  BY DEF LookForWaiters, WriteReturns, Goes, IInv, Types, HandleTypes,
     ThreadTypes
<1>3. OthersWake(t) BY <1>2 DEF OthersWake
<1>4. \A u \in Threads : pc[u] \in {"park", "asleep"} /\ on[u] = on[t] =>
         pc'[t] = "bump"
  BY <1>2, RegisteredAreCounted
<1>5. RetiredCounts'
  BY <1>1, <1>2, <1>3, <1>4, WakersRemain, WakerNow DEF RetiredCounts, InWait
<1>6. SleeperWoken'
  BY <1>1, <1>2, <1>3, <1>4, WakersRemain, WakerNow DEF SleeperWoken, InWait
<1>7. ParkerStopped'
  BY <1>1, <1>2, <1>3, <1>4, WakersRemain, WakerNow DEF ParkerStopped, InWait
<1>8. SleeperRoused'
  BY <1>1, <1>2, <1>3, <1>4, WakersRemain, WakerNow DEF SleeperRoused, InWait
<1>9. ParkerRoused'
  BY <1>1, <1>2, <1>3, <1>4, WakersRemain, WakerNow DEF ParkerRoused, InWait
<1> QED BY <1>5, <1>6, <1>7, <1>8, <1>9


\* wake_on leaves nobody asleep on its slot.
LEMMA WakeOnWakeful ==
    ASSUME IInv, NEW t \in Threads, WakeOn(t)
    PROVE  Wakeful'
<1> SUFFICES ASSUME crashes = 0
             PROVE  (/\ RetiredCounts /\ SleeperWoken /\ ParkerStopped
                     /\ SleeperRoused /\ ParkerRoused)'
  BY DEF Wakeful, WakeOn
<1>1. /\ RetiredCounts /\ SleeperWoken /\ ParkerStopped
      /\ SleeperRoused /\ ParkerRoused
  BY DEF IInv, Wakeful
<1>2. /\ pc[t] = "wake"
      /\ pc' = [w \in Threads |-> IF w = t THEN "idle"
                                 ELSE IF ParkedOn(w, on[t]) THEN "leave"
                                 ELSE pc[w]]
      /\ UNCHANGED <<slot, on, since, observed, stop>>
      /\ \A w \in Threads : on[w] \in Slots
  BY DEF WakeOn, IInv, Types, HandleTypes
<1>3. OthersWake(t) BY <1>2 DEF OthersWake, Wakers, ParkedOn
<1>4. \A u \in Threads : pc'[u] \in InWait =>
         pc'[u] = pc[u] /\ (pc[u] = "asleep" => on[u] # on[t])
  BY <1>2 DEF InWait, ParkedOn
<1>5. RetiredCounts'
  BY <1>1, <1>2, <1>3, <1>4, WakersRemain, WakerNow DEF RetiredCounts, InWait
<1>6. SleeperWoken'
  BY <1>1, <1>2, <1>3, <1>4, WakersRemain, WakerNow DEF SleeperWoken, InWait
<1>7. ParkerStopped'
  BY <1>1, <1>2, <1>3, <1>4, WakersRemain, WakerNow DEF ParkerStopped, InWait
<1>8. SleeperRoused'
  BY <1>1, <1>2, <1>3, <1>4, WakersRemain, WakerNow DEF SleeperRoused, InWait
<1>9. ParkerRoused'
  BY <1>1, <1>2, <1>3, <1>4, WakersRemain, WakerNow DEF ParkerRoused, InWait
<1> QED BY <1>5, <1>6, <1>7, <1>8, <1>9


\* The loop goes on to register only over a live cell without a change.
LEMMA WaitLoopsWakeful ==
    ASSUME IInv, NEW t \in Threads, WaitLoops(t)
    PROVE  Wakeful'
<1> SUFFICES ASSUME crashes = 0
             PROVE  (/\ RetiredCounts /\ SleeperWoken /\ ParkerStopped
                     /\ SleeperRoused /\ ParkerRoused)'
  BY DEF Wakeful, WaitLoops
<1>1. /\ RetiredCounts /\ SleeperWoken /\ ParkerStopped
      /\ SleeperRoused /\ ParkerRoused
  BY DEF IInv, Wakeful
<1>2. /\ pc[t] = "top"
      /\ \E s \in {"idle", "register"} : pc' = [pc EXCEPT ![t] = s]
      /\ \A u \in Threads \ {t} : since'[u] = since[u] /\ stop'[u] = stop[u]
      /\ UNCHANGED <<slot, on, observed>>
      /\ pc \in [Threads -> Places]
      /\ \A w \in Threads : on[w] \in Slots
  BY DEF WaitLoops, WaitReturns, Goes, IInv, Types, HandleTypes, ThreadTypes
<1>3. OthersWake(t) BY <1>2 DEF OthersWake
<1>4. pc'[t] = "register" => slot[on[t]].state = "occupied"
  BY <1>2 DEF WaitLoops, WaitReturns, Goes, Over, Is, IInv, OpInv, Holds,
     Waiting
<1>5. RetiredCounts'
  BY <1>1, <1>2, <1>3, <1>4, WakersRemain, WakerNow DEF RetiredCounts, InWait
<1>6. SleeperWoken'
  BY <1>1, <1>2, <1>3, <1>4, WakersRemain, WakerNow DEF SleeperWoken, InWait
<1>7. ParkerStopped'
  BY <1>1, <1>2, <1>3, <1>4, WakersRemain, WakerNow DEF ParkerStopped, InWait
<1>8. SleeperRoused'
  BY <1>1, <1>2, <1>3, <1>4, WakersRemain, WakerNow DEF SleeperRoused, InWait
<1>9. ParkerRoused'
  BY <1>1, <1>2, <1>3, <1>4, WakersRemain, WakerNow DEF ParkerRoused, InWait
<1> QED BY <1>5, <1>6, <1>7, <1>8, <1>9


\* A waiter goes on to park only when it has seen neither.
LEMMA RecheckWakeful ==
    ASSUME IInv, NEW t \in Threads, Recheck(t)
    PROVE  Wakeful'
<1> SUFFICES ASSUME crashes = 0
             PROVE  (/\ RetiredCounts /\ SleeperWoken /\ ParkerStopped
                     /\ SleeperRoused /\ ParkerRoused)'
  BY DEF Wakeful, Recheck
<1>1. /\ RetiredCounts /\ SleeperWoken /\ ParkerStopped
      /\ SleeperRoused /\ ParkerRoused
  BY DEF IInv, Wakeful
<1>2. /\ pc[t] = "recheck"
      /\ \E s \in {"leave", "fail", "park"} : pc' = [pc EXCEPT ![t] = s]
      /\ UNCHANGED <<slot, on, since, observed, stop>>
      /\ pc \in [Threads -> Places]
      /\ \A w \in Threads : on[w] \in Slots
  BY DEF Recheck, Goes, IInv, Types, HandleTypes, ThreadTypes
<1>3. OthersWake(t) BY <1>2 DEF OthersWake
<1>4. pc'[t] = "park" => slot[on[t]].changes = since[t] /\ ~stop[t]
  BY <1>2 DEF Recheck, Goes, ShouldWait
<1>5. RetiredCounts'
  BY <1>1, <1>2, <1>3, <1>4, WakersRemain, WakerNow DEF RetiredCounts, InWait
<1>6. SleeperWoken'
  BY <1>1, <1>2, <1>3, <1>4, WakersRemain, WakerNow DEF SleeperWoken, InWait
<1>7. ParkerStopped'
  BY <1>1, <1>2, <1>3, <1>4, WakersRemain, WakerNow DEF ParkerStopped, InWait
<1>8. SleeperRoused'
  BY <1>1, <1>2, <1>3, <1>4, WakersRemain, WakerNow DEF SleeperRoused, InWait
<1>9. ParkerRoused'
  BY <1>1, <1>2, <1>3, <1>4, WakersRemain, WakerNow DEF ParkerRoused, InWait
<1> QED BY <1>5, <1>6, <1>7, <1>8, <1>9


\* The kernel parks only while the sequence is the one that was taken.
LEMMA ParkWakeful ==
    ASSUME IInv, NEW t \in Threads, Park(t)
    PROVE  Wakeful'
<1> SUFFICES ASSUME crashes = 0
             PROVE  (/\ RetiredCounts /\ SleeperWoken /\ ParkerStopped
                     /\ SleeperRoused /\ ParkerRoused)'
  BY DEF Wakeful, Park
<1>1. /\ RetiredCounts /\ SleeperWoken /\ ParkerStopped
      /\ SleeperRoused /\ ParkerRoused
  BY DEF IInv, Wakeful
<1>2. /\ pc[t] = "park"
      /\ \E s \in {"leave", "asleep"} : pc' = [pc EXCEPT ![t] = s]
      /\ UNCHANGED <<slot, on, since, observed, stop>>
      /\ pc \in [Threads -> Places]
      /\ \A w \in Threads : on[w] \in Slots
  BY DEF Park, Goes, IInv, Types, HandleTypes, ThreadTypes
<1>3. OthersWake(t) BY <1>2 DEF OthersWake
<1>4. /\ pc'[t] = "asleep" => slot[on[t]].seq = observed[t]
      /\ \A i : WillBump(i)' => WillWake(i)'
      /\ \A i : WillNotify(i)' => WillRouse(i)'
  <2>1. pc'[t] = "asleep" => slot[on[t]].seq = observed[t]
    BY <1>2 DEF Park, Goes
  <2>2. \A i : WillBump(i)' => WillWake(i)' BY DEF WillBump, WillWake
  <2>3. \A i : WillNotify(i)' => WillRouse(i)' BY DEF WillNotify, WillRouse
  <2> QED BY <2>1, <2>2, <2>3
<1>5. RetiredCounts'
  BY <1>1, <1>2, <1>3, <1>4, WakersRemain, WakerNow DEF RetiredCounts, InWait
<1>6. SleeperWoken'
  BY <1>1, <1>2, <1>3, <1>4, WakersRemain, WakerNow DEF SleeperWoken, InWait,
     ParkerStopped
<1>7. ParkerStopped'
  BY <1>1, <1>2, <1>3, <1>4, WakersRemain, WakerNow DEF ParkerStopped, InWait
<1>8. SleeperRoused'
  BY <1>1, <1>2, <1>3, <1>4, WakersRemain, WakerNow DEF SleeperRoused, InWait,
     ParkerRoused
<1>9. ParkerRoused'
  BY <1>1, <1>2, <1>3, <1>4, WakersRemain, WakerNow DEF ParkerRoused, InWait
<1> QED BY <1>5, <1>6, <1>7, <1>8, <1>9


\* wake_waiters gives up only when the cell is gone.
LEMMA WakeWaitersWakeful ==
    ASSUME IInv, NEW t \in Threads, WakeWaiters(t)
    PROVE  Wakeful'
<1> SUFFICES ASSUME crashes = 0
             PROVE  (/\ RetiredCounts /\ SleeperWoken /\ ParkerStopped
                     /\ SleeperRoused /\ ParkerRoused)'
  BY DEF Wakeful, WakeWaiters
<1>1. /\ RetiredCounts /\ SleeperWoken /\ ParkerStopped
      /\ SleeperRoused /\ ParkerRoused
  BY DEF IInv, Wakeful
<1>2. /\ pc[t] = "rouse"
      /\ \E s \in {"bump", "idle"} : pc' = [pc EXCEPT ![t] = s]
      /\ UNCHANGED <<slot, on, since, observed, stop>>
      /\ pc \in [Threads -> Places]
      /\ \A w \in Threads : on[w] \in Slots
  BY DEF WakeWaiters, Goes, IInv, Types, HandleTypes, ThreadTypes
<1>3. OthersWake(t) BY <1>2 DEF OthersWake
<1>4. pc'[t] = "idle" => slot[on[t]].state # "occupied"
  <2>1. handle[t] # NoHandle /\ handle[t].slot = on[t]
    BY <1>2 DEF IInv, OpInv, Holds
  <2>2. slot[on[t]].gen = handle[t].gen BY <2>1 DEF IInv, HandleInv
  <2>3. pc'[t] = "idle" => ~Is(handle[t]) BY <1>2 DEF WakeWaiters, Goes
  <2> QED BY <2>1, <2>2, <2>3 DEF Is
<1>5. RetiredCounts'
  BY <1>1, <1>2, <1>3, <1>4, WakersRemain, WakerNow DEF RetiredCounts, InWait
<1>6. SleeperWoken'
  BY <1>1, <1>2, <1>3, <1>4, WakersRemain, WakerNow DEF SleeperWoken, InWait
<1>7. ParkerStopped'
  BY <1>1, <1>2, <1>3, <1>4, WakersRemain, WakerNow DEF ParkerStopped, InWait
<1>8. SleeperRoused'
  BY <1>1, <1>2, <1>3, <1>4, WakersRemain, WakerNow DEF SleeperRoused, InWait
<1>9. ParkerRoused'
  BY <1>1, <1>2, <1>3, <1>4, WakersRemain, WakerNow DEF ParkerRoused, InWait
<1> QED BY <1>5, <1>6, <1>7, <1>8, <1>9


\* Whoever sets the flag of a waiter is about to rouse its slot.
LEMMA SetInterruptWakeful ==
    ASSUME IInv, NEW t \in Threads, SetInterrupt(t)
    PROVE  Wakeful'
<1> SUFFICES ASSUME crashes = 0
             PROVE  (/\ RetiredCounts /\ SleeperWoken /\ ParkerStopped
                     /\ SleeperRoused /\ ParkerRoused)'
  BY DEF Wakeful, SetInterrupt
<1>1. /\ RetiredCounts /\ SleeperWoken /\ ParkerStopped
      /\ SleeperRoused /\ ParkerRoused
  BY DEF IInv, Wakeful
<1>2. /\ pc[t] = "idle" /\ pc' = [pc EXCEPT ![t] = "rouse"]
      /\ on' = [on EXCEPT ![t] = handle[t].slot]
      /\ UNCHANGED <<slot, since, observed>>
      /\ pc \in [Threads -> Places] /\ on \in [Threads -> Slots]
      /\ \A w \in Threads : on[w] \in Slots
  BY DEF SetInterrupt, Idle, Goes, IInv, Types, HandleTypes, ThreadTypes
<1>3. OthersWake(t) BY <1>2 DEF OthersWake
<1>4. \A u \in Threads \ {t} : pc[u] \in InWait =>
         stop'[u] = stop[u] \/ on[u] = on'[t]
  <2>1. PICK w \in Threads :
           /\ pc[w] \in Waiting /\ handle[w] = handle[t]
           /\ stop' = [stop EXCEPT ![w] = TRUE]
    BY DEF SetInterrupt
  <2>2. on[w] = handle[w].slot BY <2>1 DEF IInv, OpInv, Holds
  <2>3. on'[t] = handle[t].slot BY <1>2
  <2>4. \A u \in Threads : u # w => stop'[u] = stop[u]
    BY <2>1 DEF IInv, Types, ThreadTypes
  <2> QED BY <2>1, <2>2, <2>3, <2>4
<1>5. RetiredCounts'
  BY <1>1, <1>2, <1>3, <1>4, WakersRemain, WakerNow DEF RetiredCounts, InWait
<1>6. SleeperWoken'
  BY <1>1, <1>2, <1>3, <1>4, WakersRemain, WakerNow DEF SleeperWoken, InWait
<1>7. ParkerStopped'
  BY <1>1, <1>2, <1>3, <1>4, WakersRemain, WakerNow DEF ParkerStopped, InWait
<1>8. SleeperRoused'
  BY <1>1, <1>2, <1>3, <1>4, WakersRemain, WakerNow DEF SleeperRoused, InWait
<1>9. ParkerRoused'
  BY <1>1, <1>2, <1>3, <1>4, WakersRemain, WakerNow DEF ParkerRoused, InWait
<1> QED BY <1>5, <1>6, <1>7, <1>8, <1>9


\* Whoever retires a cell is about to count the change.
LEMMA RetireWakeful ==
    ASSUME IInv, NEW t \in Threads, Retire(t)
    PROVE  Wakeful'
<1> SUFFICES ASSUME crashes = 0
             PROVE  (/\ RetiredCounts /\ SleeperWoken /\ ParkerStopped
                     /\ SleeperRoused /\ ParkerRoused)'
  BY DEF Wakeful, Retire
<1>1. /\ RetiredCounts /\ SleeperWoken /\ ParkerStopped
      /\ SleeperRoused /\ ParkerRoused
  BY DEF IInv, Wakeful
<1>4. PICK i \in Slots :
         /\ Changes(i, {"state"}) /\ slot'[i].state = "retired"
         /\ on' = [on EXCEPT ![t] = i]
  BY RetireEffect
<1>2. /\ pc[t] = "idle" /\ pc' = [pc EXCEPT ![t] = "count"]
      /\ UNCHANGED <<since, observed, stop>>
      /\ pc \in [Threads -> Places] /\ on \in [Threads -> Slots]
      /\ \A w \in Threads : on[w] \in Slots
  BY DEF Retire, Idle, Goes, IInv, Types, HandleTypes, ThreadTypes
<1>3. OthersWake(t) BY <1>2, <1>4 DEF OthersWake
<1>5. RetiredCounts'
  BY <1>1, <1>2, <1>3, <1>4, WakersRemain, WakerNow DEF RetiredCounts, InWait,
     Changes
<1>6. SleeperWoken'
  BY <1>1, <1>2, <1>3, <1>4, WakersRemain, WakerNow DEF SleeperWoken, InWait,
     Changes
<1>7. ParkerStopped'
  BY <1>1, <1>2, <1>3, <1>4, WakersRemain, WakerNow DEF ParkerStopped, InWait,
     Changes
<1>8. SleeperRoused'
  BY <1>1, <1>2, <1>3, <1>4, WakersRemain, WakerNow DEF SleeperRoused, InWait,
     Changes
<1>9. ParkerRoused'
  BY <1>1, <1>2, <1>3, <1>4, WakersRemain, WakerNow DEF ParkerRoused, InWait,
     Changes
<1> QED BY <1>5, <1>6, <1>7, <1>8, <1>9


\* Nobody sleeps over a change or an interrupt: whoever made it is still
\* between its update and the wake.
LEMMA WakefulKept ==
    ASSUME IInv, Next
    PROVE  Wakeful'
<1> USE DEF Types, HandleTypes, ThreadTypes, InWait, Wakers, IInv, Goes, Idle,
        Running, ownVars, threadVars
<1>1. ASSUME NEW t \in Threads, AllocTakes(t) PROVE Wakeful'
  <2>1. Quiet
    BY <1>1 DEF AllocTakes, LeaseOn, FirstFree, Free, Quiet
  <2> QED BY <2>1, QuietKeeps
<1>2. ASSUME NEW t \in Threads, AllocReclaims(t) PROVE Wakeful'
  <2>1. Quiet
    BY <1>2 DEF AllocReclaims, Dead, Quiet
  <2> QED BY <2>1, QuietKeeps
<1>3. ASSUME NEW t \in Threads, AllocFull(t) PROVE Wakeful'
  <2>1. Quiet
    BY <1>3 DEF AllocFull, Quiet
  <2> QED BY <2>1, QuietKeeps
<1>4. ASSUME NEW t \in Threads, InstallFields(t) PROVE Wakeful'
  <2>1. Quiet
    BY <1>4, InstallFieldsEffect DEF Quiet, Changes, OpInv, Holds, InstallInv,
       Building, Waiting
  <2> QED BY <2>1, QuietKeeps
<1>5. ASSUME NEW t \in Threads, InstallState(t) PROVE Wakeful'
  <2>1. Quiet
    BY <1>5, InstallStateEffect DEF InstallState, Quiet, Changes, OpInv, Holds,
       InstallInv, Building, Waiting
  <2> QED BY <2>1, QuietKeeps
<1>6. ASSUME NEW t \in Threads, Open(t) PROVE Wakeful'
  <2>1. Quiet
    BY <1>6 DEF Open, LeaseOn, Quiet
  <2> QED BY <2>1, QuietKeeps
<1>7. ASSUME NEW t \in Threads, Retire(t) PROVE Wakeful'
  BY <1>7, RetireWakeful
<1>8. ASSUME NEW t \in Threads, DropHandle(t) PROVE Wakeful'
  <2>1. Quiet
    BY <1>8 DEF DropHandle, Quiet
  <2> QED BY <2>1, QuietKeeps
<1>9. ASSUME NEW t \in Threads, WriteChecks(t) PROVE Wakeful'
  <2>1. Quiet
    BY <1>9 DEF WriteChecks, Checks, Quiet
  <2> QED BY <2>1, QuietKeeps
<1>10. ASSUME NEW t \in Threads, AddChecks(t) PROVE Wakeful'
  <2>1. Quiet
    BY <1>10 DEF AddChecks, Checks, Quiet
  <2> QED BY <2>1, QuietKeeps
<1>11. ASSUME NEW t \in Threads, Write(t) PROVE Wakeful'
  <2>1. Quiet
    BY <1>11, WriteEffect DEF Write, Quiet, Changes
  <2> QED BY <2>1, QuietKeeps
<1>12. ASSUME NEW t \in Threads, AddLoads(t) PROVE Wakeful'
  <2>1. Quiet
    BY <1>12 DEF AddLoads, Quiet
  <2> QED BY <2>1, QuietKeeps
<1>13. ASSUME NEW t \in Threads, AddSwaps(t) PROVE Wakeful'
  <2>1. Quiet
    BY <1>13, AddSwapsEffect DEF Quiet, Changes
  <2> QED BY <2>1, QuietKeeps
<1>14. ASSUME NEW t \in Threads, CountChange(t) PROVE Wakeful'
  BY <1>14, CountChangeWakeful
<1>15. ASSUME NEW t \in Threads, LookForWaiters(t) PROVE Wakeful'
  BY <1>15, LookForWaitersWakeful
<1>16. ASSUME NEW t \in Threads, BumpSequence(t) PROVE Wakeful'
  BY <1>16, BumpSequenceWakeful
<1>17. ASSUME NEW t \in Threads, WakeOn(t) PROVE Wakeful'
  BY <1>17, WakeOnWakeful
<1>18. ASSUME NEW t \in Threads, TakeVersion(t) PROVE Wakeful'
  <2>1. Quiet
    BY <1>18 DEF TakeVersion, Is, Quiet
  <2> QED BY <2>1, QuietKeeps
<1>19. ASSUME NEW t \in Threads, WaitLoops(t) PROVE Wakeful'
  BY <1>19, WaitLoopsWakeful
<1>20. ASSUME NEW t \in Threads, Register(t) PROVE Wakeful'
  <2>1. Quiet
    BY <1>20, RegisterEffect DEF Register, Quiet, Changes
  <2> QED BY <2>1, QuietKeeps
<1>21. ASSUME NEW t \in Threads, Snapshot(t) PROVE Wakeful'
  <2>1. Quiet
    BY <1>21 DEF Snapshot, Quiet
  <2> QED BY <2>1, QuietKeeps
<1>22. ASSUME NEW t \in Threads, Recheck(t) PROVE Wakeful'
  BY <1>22, RecheckWakeful
<1>23. ASSUME NEW t \in Threads, Park(t) PROVE Wakeful'
  BY <1>23, ParkWakeful
<1>24. ASSUME NEW t \in Threads, Interrupted(t) PROVE Wakeful'
  <2>1. Quiet
    BY <1>24 DEF Interrupted, Quiet
  <2> QED BY <2>1, QuietKeeps
<1>25. ASSUME NEW t \in Threads, Leave(t) PROVE Wakeful'
  <2>1. Quiet
    BY <1>25, LeaveEffect DEF Leave, Deregister, Quiet, Changes
  <2> QED BY <2>1, QuietKeeps
<1>26. ASSUME NEW t \in Threads, LeaveExhausted(t) PROVE Wakeful'
  <2>1. Quiet
    BY <1>26, LeaveExhaustedEffect DEF LeaveExhausted, Deregister, Quiet,
       Changes
  <2> QED BY <2>1, QuietKeeps
<1>27. ASSUME NEW t \in Threads, SetInterrupt(t) PROVE Wakeful'
  BY <1>27, SetInterruptWakeful
<1>28. ASSUME NEW t \in Threads, WakeWaiters(t) PROVE Wakeful'
  BY <1>28, WakeWaitersWakeful
<1>29. ASSUME NEW p \in Procs, Crash(p) PROVE Wakeful'
  <2>1. crashes' # 0 BY <1>29 DEF Crash, TableTypes
  <2> QED BY <2>1 DEF Wakeful
<1>30. ASSUME NEW p \in Procs, Claim(p) PROVE Wakeful'
  <2>1. Quiet
    BY <1>30 DEF Claim, Quiet
  <2> QED BY <2>1, QuietKeeps
<1> QED
  BY <1>1, <1>2, <1>3, <1>4, <1>5, <1>6, <1>7, <1>8, <1>9, <1>10, <1>11,
     <1>12, <1>13, <1>14, <1>15, <1>16, <1>17, <1>18, <1>19, <1>20, <1>21,
     <1>22, <1>23, <1>24, <1>25, <1>26, <1>27, <1>28, <1>29, <1>30
     DEF Next, Begins, Proceeds

-----------------------------------------------------------------------------
(***************************************************************************)
(* The theorem                                                             *)
(***************************************************************************)

\* The table starts empty, nobody has a handle and no process is attached.
LEMMA InitIInv == Init => IInv
<1> SUFFICES ASSUME Init PROVE IInv
  OBVIOUS
<1> USE DEF Init
<1>1. 0 \in Slots BY CapacityAssumption DEF Slots
<1>2. EmptySlot \in SlotType BY Bounds DEF EmptySlot, SlotType
<1>3. SlotTypes BY <1>2 DEF SlotTypes
<1>4. TableTypes /\ PinTypes BY <1>1 DEF TableTypes, PinTypes
<1>5. HandleTypes BY <1>1 DEF HandleTypes, Handles
<1>6. ThreadTypes
  <2>1. stop \in [Threads -> BOOLEAN] OBVIOUS
  <2> QED BY <2>1, Bounds DEF ThreadTypes, Places
<1>7. RowsInv BY ProcAssumption DEF RowsInv
<1>8. LockInv /\ OpInv /\ HandleInv /\ InstallInv /\ Wakeful
  <2>1. LockInv /\ OpInv BY DEF LockInv, OpInv, Waiting
  <2>2. HandleInv /\ InstallInv BY DEF HandleInv, InstallInv, Building
  <2>3. Wakeful
    BY DEF Wakeful, RetiredCounts, SleeperWoken, ParkerStopped,
       SleeperRoused, ParkerRoused, InWait
  <2> QED BY <2>1, <2>2, <2>3
<1>9. OccInv BY DEF OccInv, EmptySlot
<1>10. PinsInv BY DEF PinsInv
<1>11. ValueInv
  BY AddAssumption DEF ValueInv, EmptySlot
<1>12. SinceInv BY DEF SinceInv, Waiting
<1>13. WaitersCounted
  <2>1. \A i \in Slots : Registered(i) = {} BY DEF Registered
  <2>2. \A i \in Slots : slot[i].waiters = 0 BY DEF EmptySlot
  <2> QED BY <2>1, <2>2, FS_EmptySet DEF WaitersCounted
<1> QED
  BY <1>3, <1>4, <1>5, <1>6, <1>7, <1>8, <1>9, <1>10, <1>11, <1>12, <1>13
     DEF IInv, Types

\* Every step of every thread and process preserves the invariant.
LEMMA NextIInv == IInv /\ [Next]_vars => IInv'
<1> SUFFICES ASSUME IInv, [Next]_vars PROVE IInv'
  OBVIOUS
<1>1. CASE Next
  BY <1>1, SlotTypesKept, TableTypesKept, PinsKept, HandleTypesKept,
     ThreadTypesKept, RowsKept, LockKept, OpKept, HandleKept, InstallKept,
     OccupiedKept, ValueKept, SinceKept, CountKept, WakefulKept
     DEF IInv, Types
<1>2. CASE UNCHANGED vars
  <2>1. /\ UNCHANGED <<slot, hint, lock, row, pins, pc, handle, on, since>>
        /\ UNCHANGED <<observed, current, stop, granted, crashes>>
    BY <1>2 DEF vars, ownVars, threadVars
  <2>2. Types'
    BY <2>1 DEF IInv, Types, SlotTypes, TableTypes, PinTypes, HandleTypes,
       ThreadTypes
  <2>3. (RowsInv /\ LockInv /\ OpInv /\ HandleInv)'
    BY <2>1 DEF IInv, RowsInv, LockInv, OpInv, HandleInv, Holds
  <2>4. (InstallInv /\ OccInv /\ ValueInv /\ SinceInv)'
    BY <2>1 DEF IInv, InstallInv, OccInv, ValueInv, SinceInv, Holds, Building
  <2>5. PinsInv'
    BY <2>1 DEF IInv, PinsInv, Pinners, Pinning, Holds, Building
  <2>6. WaitersCounted'
    BY <2>1 DEF IInv, WaitersCounted, Registered
  <2>7. Wakeful'
    <3>1. Quiet
      BY <2>1 DEF Quiet, IInv, Types, HandleTypes
    <3> QED BY <3>1, QuietKeeps DEF IInv
  <2> QED BY <2>2, <2>3, <2>4, <2>5, <2>6, <2>7 DEF IInv
<1> QED BY <1>1, <1>2

\* What the invariant says of the table as its users see it.
LEMMA IInvCellsSound == IInv => CellsSound
<1> SUFFICES ASSUME IInv PROVE CellsSound
  OBVIOUS
<1>1. TypeOK
  BY DEF TypeOK, IInv, Types, SlotTypes, SlotType, TableTypes, PinTypes,
     HandleTypes, RowsInv
<1>2. WritesStayInGeneration
  BY DEF WritesStayInGeneration, IInv, ValueInv
<1>3. ClaimsAddUp BY DEF ClaimsAddUp, IInv, ValueInv
<1>4. NoLostWake
  <2> SUFFICES ASSUME NEW t \in Threads,
                      pc[t] = "asleep", Over(t), crashes = 0
               PROVE  \E w \in Threads : on[w] = on[t] /\ pc[w] \in Wakers
    BY DEF NoLostWake, Wakers
  <2>1. /\ slot[on[t]].state # "occupied" =>
             slot[on[t]].changes # since[t] \/ WillCount(on[t])
        /\ slot[on[t]].changes # since[t] => WillWake(on[t])
        /\ stop[t] => slot[on[t]].state # "occupied" \/ WillRouse(on[t])
    BY DEF IInv, Wakeful, RetiredCounts, SleeperWoken, SleeperRoused, InWait
  <2>2. stop[t] \/ slot[on[t]].state # "occupied"
           \/ slot[on[t]].changes # since[t]
    <3>1. handle[t] # NoHandle /\ handle[t].slot = on[t]
      BY DEF IInv, OpInv, Waiting, Holds
    <3>2. slot[on[t]].gen = handle[t].gen BY <3>1 DEF IInv, HandleInv
    <3> QED BY <3>1, <3>2 DEF Over, Is
  <2>3. WillCount(on[t]) \/ WillWake(on[t]) \/ WillRouse(on[t])
    BY <2>1, <2>2
  <2> QED BY <2>3 DEF WillCount, WillWake, WillRouse, Wakers
<1> QED BY <1>1, <1>2, <1>3, <1>4 DEF CellsSound, IInv

\* For any threads and processes that share a table of any capacity: writes
\* stay in the generation of their handle, no unit of a limit is handed out
\* twice, no live waiter is uncounted and none sleeps over a change, a release
\* or an interrupt (lib.rs, lifetime.rs and wake.rs of orbit-cell).
THEOREM CellsAreSound == Spec => []CellsSound
<1>1. Spec => []IInv BY InitIInv, NextIInv, PTL DEF Spec
<1> QED BY <1>1, IInvCellsSound, PTL

=============================================================================
