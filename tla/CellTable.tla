----------------------------- MODULE CellTable -----------------------------
(***************************************************************************)
(* The shared cells of orbit-cell (cell/src/lib.rs, wake.rs, lifetime.rs). *)
(*                                                                         *)
(* A fixed table of slots holds one 64-bit value each.  Slots are given    *)
(* out, opened and retired under a structural lock; the value operations   *)
(* take no lock at all: they check the generation of their handle and then *)
(* touch the slot.  What keeps such an operation from landing in the next  *)
(* cell of its slot is the pin each handle holds in the row of its         *)
(* process; the row of a dead process is cleared, when slots run out, by   *)
(* whoever gets hold of its kernel lock.                                   *)
(*                                                                         *)
(* A write is followed by a count of the change and a wake.  A waiter      *)
(* parks on a sequence of its own (Wake), which is bumped before every     *)
(* wake and never wraps.                                                   *)
(*                                                                         *)
(* A flag stands for the cells that are written (store, swap, set,         *)
(* compare_exchange, fetch_add: one atomic update each); what it holds is  *)
(* reduced to the generation of the handle that wrote it.  A tally stands  *)
(* for the cells work is divided with (add_until).                         *)
(***************************************************************************)
EXTENDS Naturals, FiniteSets

CONSTANTS
    Threads,     \* threads using the table, each with at most one handle
    Procs,       \* processes
    ProcOf,      \* the process of each thread
    Capacity,    \* CELL_CAPACITY
    Tags,        \* types of cells allocated: "flag", "tally"
    By,          \* what callers of add_until ask for
    Limit,       \* the limit they pass
    MaxGen,      \* u32::MAX for generations
    MaxSeq,      \* u32::MAX for the parking sequence
    MaxChanges,  \* bound: writes to one cell
    MaxCrashes,  \* bound: process deaths
    NoOne        \* holder of the free lock

ASSUME CapacityAssumption == Capacity \in Nat \ {0}
ASSUME ProcAssumption     == ProcOf \in [Threads -> Procs]
ASSUME TagAssumption      == Tags \subseteq {"flag", "tally"}
ASSUME AddAssumption      == By \in Nat \ {0} /\ Limit \in Nat
ASSUME BoundAssumption    ==
    {MaxGen, MaxSeq, MaxChanges, MaxCrashes} \subseteq Nat
ASSUME NoOneAssumption    == NoOne \notin Threads
ASSUME ProcsAssumption    == IsFiniteSet(Procs)
ASSUME ThreadsAssumption  == IsFiniteSet(Threads)

VARIABLES
    slot,      \* the slots
    hint,      \* CellStateHeader.hint
    lock,      \* the thread inside with_structure
    row,       \* the owner row each process holds, 0 for one not attached
    pins,      \* handles counted per owner row and slot
    pc,        \* where each thread is
    handle,    \* the Orbital it holds
    on,        \* the slot its operation is about
    since,     \* wait_changed: the version it waits to leave
    observed,  \* wait_if: the parking sequence it took
    current,   \* add_until: the value it loaded
    stop,      \* the interrupt flag of a waiting thread
    granted,   \* history: units handed out by the cell in each slot
    crashes    \* history: process deaths

threadVars == <<pc, handle, on, since, observed, current, stop>>
ownVars    == <<row, pins>>
vars == <<slot, hint, lock, ownVars, threadVars, granted, crashes>>

Slots == 0 .. Capacity - 1
Rows  == 1 .. Cardinality(Procs)
NoRow == 0
NoHandle == [gen |-> 0]

EmptySlot ==
    [state |-> "empty", tag |-> "flag", gen |-> 0, from |-> 0, value |-> 0,
     changes |-> 0, seq |-> 0, waiters |-> 0]

Init ==
    /\ slot = [i \in Slots |-> EmptySlot]
    /\ hint = 0
    /\ lock = NoOne
    /\ row = [p \in Procs |-> NoRow]
    /\ pins = [r \in Rows |-> [i \in Slots |-> 0]]
    /\ pc = [t \in Threads |-> "idle"]
    /\ handle = [t \in Threads |-> NoHandle]
    /\ on = [t \in Threads |-> 0]
    /\ since = [t \in Threads |-> 0]
    /\ observed = [t \in Threads |-> 0]
    /\ current = [t \in Threads |-> 0]
    /\ stop = [t \in Threads |-> FALSE]
    /\ granted = [i \in Slots |-> 0]
    /\ crashes = 0

-----------------------------------------------------------------------------
(***************************************************************************)
(* The structure: allocate, open, release                                  *)
(***************************************************************************)

Goes(t, s) == pc' = [pc EXCEPT ![t] = s]

Running(t) == row[ProcOf[t]] # NoRow

Idle(t) == pc[t] = "idle" /\ Running(t)

\* CellSlot::is: the slot still holds the cell of the handle.
Is(h) == slot[h.slot].state = "occupied" /\ slot[h.slot].gen = h.gen

\* Owners::pinned.
Pinned(i) == \E r \in Rows : pins[r][i] # 0

\* A slot a new cell may be installed in.
Free(i) ==
    /\ slot[i].state \in {"empty", "retired"}
    /\ slot[i].gen # MaxGen
    /\ ~Pinned(i)

\* The first free slot from the hint on, as a set of at most one.
FirstFree ==
    {i \in Slots : Free(i) /\ \A j \in Slots : Free(j) =>
        (i + Capacity - hint) % Capacity <= (j + Capacity - hint) % Capacity}

\* Owners::lease: the handle is counted in the row of its process.
LeaseOn(t, i) == pins' = [pins EXCEPT ![row[ProcOf[t]]][i] = @ + 1]

\* allocate has found a slot and pinned it.
AllocTakes(t) ==
    /\ \/ Idle(t) /\ lock = NoOne /\ handle[t] = NoHandle
       \/ pc[t] = "again"
    /\ \E i \in FirstFree :
          /\ LeaseOn(t, i)
          /\ on' = [on EXCEPT ![t] = i]
    /\ lock' = t
    /\ Goes(t, "install")
    /\ UNCHANGED <<slot, hint, row, handle, since, observed, current, stop,
                   granted, crashes>>

\* try_hold_lane on the row of another process succeeds: nobody holds it.
Dead(t, r) == r # row[ProcOf[t]] /\ \A p \in Procs : row[p] # r

\* allocate has found nothing: reclaim_dead clears the rows of the dead.
AllocReclaims(t) ==
    /\ Idle(t) /\ lock = NoOne /\ handle[t] = NoHandle /\ FirstFree = {}
    /\ \E r \in Rows, i \in Slots : Dead(t, r) /\ pins[r][i] # 0
    /\ pins' = [r \in Rows |->
                  IF Dead(t, r) THEN [i \in Slots |-> 0] ELSE pins[r]]
    /\ lock' = t
    /\ Goes(t, "again")
    /\ UNCHANGED <<slot, hint, row, handle, on, since, observed, current,
                   stop, granted, crashes>>

\* Nothing is free after the recovery either: Error::Full.
AllocFull(t) ==
    /\ pc[t] = "again" /\ FirstFree = {}
    /\ lock' = NoOne
    /\ Goes(t, "idle")
    /\ UNCHANGED <<slot, hint, ownVars, handle, on, since, observed, current,
                   stop, granted, crashes>>

\* install, everything but the state: the cell cannot be opened yet.
InstallFields(t) ==
    /\ pc[t] = "install"
    /\ \E tag \in Tags :
          slot' = [slot EXCEPT ![on[t]] =
                     [EmptySlot EXCEPT !.state = slot[on[t]].state, !.tag = tag,
                                       !.gen = slot[on[t]].gen + 1,
                                       !.from = slot[on[t]].gen + 1]]
    /\ granted' = [granted EXCEPT ![on[t]] = 0]
    /\ Goes(t, "occupy")
    /\ UNCHANGED <<hint, lock, ownVars, handle, on, since, observed, current,
                   stop, crashes>>

\* install: the cell is there, and its handle is returned.
InstallState(t) ==
    /\ pc[t] = "occupy"
    /\ slot' = [slot EXCEPT ![on[t]].state = "occupied"]
    /\ handle' = [handle EXCEPT ![t] =
                    [slot |-> on[t], gen |-> slot[on[t]].gen]]
    /\ hint' = (on[t] + 1) % Capacity
    /\ lock' = NoOne
    /\ Goes(t, "idle")
    /\ UNCHANGED <<ownVars, on, since, observed, current, stop, granted,
                   crashes>>

\* open: an id names a live cell.  The id of a cell that is gone is refused
\* and nothing changes.
Open(t) ==
    /\ Idle(t) /\ lock = NoOne /\ handle[t] = NoHandle
    /\ \E i \in Slots :
          /\ slot[i].state = "occupied"
          /\ LeaseOn(t, i)
          /\ handle' = [handle EXCEPT ![t] =
                          [slot |-> i, gen |-> slot[i].gen]]
    /\ UNCHANGED <<slot, hint, lock, row, pc, on, since, observed, current,
                   stop, granted, crashes>>

\* release, by anybody who knows the id: the cell is retired and then the
\* change is counted, all of it under the lock.
Retire(t) ==
    /\ Idle(t) /\ lock = NoOne
    /\ \E i \in Slots :
          /\ slot[i].state = "occupied" /\ slot[i].changes < MaxChanges
          /\ slot' = [slot EXCEPT ![i].state = "retired"]
          /\ on' = [on EXCEPT ![t] = i]
    /\ lock' = t
    /\ Goes(t, "count")
    /\ UNCHANGED <<hint, ownVars, handle, since, observed, current, stop,
                   granted, crashes>>

\* The last clone of the handle is dropped.
DropHandle(t) ==
    /\ Idle(t) /\ handle[t] # NoHandle
    /\ pins' = [pins EXCEPT ![row[ProcOf[t]]][handle[t].slot] = @ - 1]
    /\ handle' = [handle EXCEPT ![t] = NoHandle]
    /\ UNCHANGED <<slot, hint, lock, row, pc, on, since, observed, current,
                   stop, granted, crashes>>

-----------------------------------------------------------------------------
(***************************************************************************)
(* Writes: the check, the update, the count of the change, the wake        *)
(***************************************************************************)

\* self.slot(): the handle is still good.  on is where the write will land.
Checks(t, tag, s) ==
    /\ Idle(t) /\ handle[t] # NoHandle
    /\ Is(handle[t]) /\ slot[handle[t].slot].tag = tag
    /\ slot[handle[t].slot].changes < MaxChanges
    /\ on' = [on EXCEPT ![t] = handle[t].slot]
    /\ Goes(t, s)
    /\ UNCHANGED <<slot, hint, lock, ownVars, handle, since, observed,
                   current, stop, granted, crashes>>

WriteChecks(t) == Checks(t, "flag", "write")
AddChecks(t)   == Checks(t, "tally", "load")

\* The atomic update of store, swap, compare_exchange or fetch_add.
Write(t) ==
    /\ pc[t] = "write"
    /\ slot' = [slot EXCEPT ![on[t]].from = handle[t].gen]
    /\ Goes(t, "count")
    /\ UNCHANGED <<hint, lock, ownVars, handle, on, since, observed, current,
                   stop, granted, crashes>>

\* add_until: the value is loaded; at the limit the answer is Exhausted.
AddLoads(t) ==
    /\ pc[t] = "load"
    /\ current' = [current EXCEPT ![t] =
                     IF slot[on[t]].value >= Limit THEN 0
                     ELSE slot[on[t]].value]
    /\ Goes(t, IF slot[on[t]].value >= Limit THEN "idle" ELSE "swap")
    /\ UNCHANGED <<slot, hint, lock, ownVars, handle, on, since, observed,
                   stop, granted, crashes>>

\* What add_until takes: what was asked for, or what is left.
Taken(v) == IF By <= Limit - v THEN By ELSE Limit - v

\* The value has moved since it was loaded, ignored (a mutation of Moved).
MovedIgnored(t) == FALSE

\* compare_exchange finds another value than the one that was loaded.
Moved(t) == slot[on[t]].value # current[t]

\* add_until: the exchange, which counts as a write, or another round.
AddSwaps(t) ==
    /\ pc[t] = "swap"
    /\ IF Moved(t)
       THEN Goes(t, "load") /\ UNCHANGED <<slot, granted>>
       ELSE /\ slot' = [slot EXCEPT ![on[t]] =
                          [@ EXCEPT !.from = handle[t].gen,
                                    !.value = current[t] + Taken(current[t])]]
            /\ granted' = [granted EXCEPT ![on[t]] = @ + Taken(current[t])]
            /\ Goes(t, "count")
    /\ current' = [current EXCEPT ![t] = 0]
    /\ UNCHANGED <<hint, lock, ownVars, handle, on, since, observed, stop,
                   crashes>>

\* The write or the release returns; a release gives up the lock.
WriteReturns(t) ==
    /\ Goes(t, "idle")
    /\ lock' = IF lock = t THEN NoOne ELSE lock

\* CellSlot::changed: the version.
CountChange(t) ==
    /\ pc[t] = "count"
    /\ slot' = [slot EXCEPT ![on[t]].changes = @ + 1]
    /\ Goes(t, "look")
    /\ UNCHANGED <<hint, lock, ownVars, handle, on, since, observed, current,
                   stop, granted, crashes>>

\* Wake::changed: is anybody waiting?
LookForWaiters(t) ==
    /\ pc[t] = "look"
    /\ IF slot[on[t]].waiters = 0 THEN WriteReturns(t)
       ELSE Goes(t, "bump") /\ UNCHANGED lock
    /\ UNCHANGED <<slot, hint, ownVars, handle, on, since, observed, current,
                   stop, granted, crashes>>

\* A wake that is not retained (a mutation of BumpSequence).
BumpSequenceNot(t) ==
    /\ pc[t] = "bump"
    /\ Goes(t, "wake")
    /\ UNCHANGED <<slot, hint, lock, ownVars, handle, on, since, observed,
                   current, stop, granted, crashes>>

\* Wake::notify: the sequence moves, and stays at its maximum.
BumpSequence(t) ==
    /\ pc[t] = "bump"
    /\ slot' = [slot EXCEPT ![on[t]].seq = IF @ < MaxSeq THEN @ + 1 ELSE @]
    /\ Goes(t, "wake")
    /\ UNCHANGED <<hint, lock, ownVars, handle, on, since, observed, current,
                   stop, granted, crashes>>

\* Is thread w parked on slot i?
ParkedOn(w, i) == pc[w] = "asleep" /\ on[w] = i

\* wake_on: everybody parked on the slot goes on.
WakeOn(t) ==
    /\ pc[t] = "wake"
    /\ pc' = [w \in Threads |-> IF w = t THEN "idle"
                                ELSE IF ParkedOn(w, on[t]) THEN "leave"
                                ELSE pc[w]]
    /\ lock' = IF lock = t THEN NoOne ELSE lock
    /\ UNCHANGED <<slot, hint, ownVars, handle, on, since, observed, current,
                   stop, granted, crashes>>

-----------------------------------------------------------------------------
(***************************************************************************)
(* Waiters                                                                 *)
(***************************************************************************)

\* version(), taken some time before the wait.
TakeVersion(t) ==
    /\ Idle(t) /\ handle[t] # NoHandle /\ Is(handle[t])
    /\ since' = [since EXCEPT ![t] = slot[handle[t].slot].changes]
    /\ on' = [on EXCEPT ![t] = handle[t].slot]
    /\ Goes(t, "top")
    /\ UNCHANGED <<slot, hint, lock, ownVars, handle, observed, current, stop,
                   granted, crashes>>

\* The wait is over: the flag, the version and the sequence are forgotten.
WaitReturns(t) ==
    /\ Goes(t, "idle")
    /\ stop' = [stop EXCEPT ![t] = FALSE]
    /\ since' = [since EXCEPT ![t] = 0]
    /\ UNCHANGED observed

\* What ends a wait: the interrupt, a stale handle, a new version.
Over(t) ==
    stop[t] \/ ~Is(handle[t]) \/ slot[on[t]].changes # since[t]

\* The head of the loop of wait_changed and wait_changed_until.
WaitLoops(t) ==
    /\ pc[t] = "top"
    /\ IF Over(t) THEN WaitReturns(t)
       ELSE Goes(t, "register") /\ UNCHANGED <<stop, since, observed>>
    /\ UNCHANGED <<slot, hint, lock, ownVars, handle, on, current, granted,
                   crashes>>

\* wait_if: the waiter counts itself in.
Register(t) ==
    /\ pc[t] = "register"
    /\ slot' = [slot EXCEPT ![on[t]].waiters = @ + 1]
    /\ Goes(t, "snapshot")
    /\ UNCHANGED <<hint, lock, ownVars, handle, on, since, observed, current,
                   stop, granted, crashes>>

\* wait_if: the sequence the kernel will compare with.
Snapshot(t) ==
    /\ pc[t] = "snapshot"
    /\ observed' = [observed EXCEPT ![t] = slot[on[t]].seq]
    /\ Goes(t, "recheck")
    /\ UNCHANGED <<slot, hint, lock, ownVars, handle, on, since, current,
                   stop, granted, crashes>>

\* The condition wait_if is called with, evaluated once registered.
ShouldWait(t) == slot[on[t]].changes = since[t] /\ ~stop[t]

\* wait_if: look again; an exhausted sequence is an error, not a park.
Recheck(t) ==
    /\ pc[t] = "recheck"
    /\ Goes(t, IF ~ShouldWait(t) THEN "leave"
               ELSE IF observed[t] = MaxSeq THEN "fail" ELSE "park")
    /\ UNCHANGED <<slot, hint, lock, ownVars, handle, on, since, observed,
                   current, stop, granted, crashes>>

\* wait_on: the kernel parks only if the sequence has not moved.
Park(t) ==
    /\ pc[t] = "park"
    /\ Goes(t, IF slot[on[t]].seq = observed[t] THEN "asleep" ELSE "leave")
    /\ UNCHANGED <<slot, hint, lock, ownVars, handle, on, since, observed,
                   current, stop, granted, crashes>>

\* A park may end for no reason.
Interrupted(t) ==
    /\ pc[t] = "asleep"
    /\ Goes(t, "leave")
    /\ UNCHANGED <<slot, hint, lock, ownVars, handle, on, since, observed,
                   current, stop, granted, crashes>>

\* Registration::drop.
Deregister(t) == slot' = [slot EXCEPT ![on[t]].waiters = @ - 1]

\* wait_if returns: the waiter counts itself out and loops.
Leave(t) ==
    /\ pc[t] = "leave"
    /\ Deregister(t)
    /\ observed' = [observed EXCEPT ![t] = 0]
    /\ Goes(t, "top")
    /\ UNCHANGED <<hint, lock, ownVars, handle, on, since, current, stop,
                   granted, crashes>>

\* wait_if returns WakeExhausted, and so does the wait.
LeaveExhausted(t) ==
    /\ pc[t] = "fail"
    /\ Deregister(t)
    /\ observed' = [observed EXCEPT ![t] = 0]
    /\ Goes(t, "idle")
    /\ stop' = [stop EXCEPT ![t] = FALSE]
    /\ since' = [since EXCEPT ![t] = 0]
    /\ UNCHANGED <<hint, lock, ownVars, handle, on, current, granted, crashes>>

Waiting == {"top", "register", "snapshot", "recheck", "park", "asleep",
            "leave"}

\* A canceller sets the flag of a waiter on the cell of its own handle ...
SetInterrupt(t) ==
    /\ Idle(t) /\ handle[t] # NoHandle
    /\ \E w \in Threads :
          /\ pc[w] \in Waiting /\ handle[w] = handle[t] /\ ~stop[w]
          /\ stop' = [stop EXCEPT ![w] = TRUE]
    /\ on' = [on EXCEPT ![t] = handle[t].slot]
    /\ Goes(t, "rouse")
    /\ UNCHANGED <<slot, hint, lock, ownVars, handle, since, observed,
                   current, granted, crashes>>

\* ... and then calls wake_waiters, which refuses a stale handle.
WakeWaiters(t) ==
    /\ pc[t] = "rouse"
    /\ Goes(t, IF Is(handle[t]) THEN "bump" ELSE "idle")
    /\ UNCHANGED <<slot, hint, lock, ownVars, handle, on, since, observed,
                   current, stop, granted, crashes>>

-----------------------------------------------------------------------------
(***************************************************************************)
(* Processes                                                               *)
(***************************************************************************)

\* A process dies.  What it pinned and where it waited stays counted; the
\* kernel frees the structural lock and the lock of its row.
Crash(p) ==
    LET gone(t) == ProcOf[t] = p IN
    /\ row[p] # NoRow /\ crashes < MaxCrashes
    /\ crashes' = crashes + 1
    /\ row' = [row EXCEPT ![p] = NoRow]
    /\ lock' = IF lock # NoOne /\ gone(lock) THEN NoOne ELSE lock
    /\ pc' = [t \in Threads |-> IF gone(t) THEN "idle" ELSE pc[t]]
    /\ handle' = [t \in Threads |-> IF gone(t) THEN NoHandle ELSE handle[t]]
    /\ on' = [t \in Threads |-> IF gone(t) THEN 0 ELSE on[t]]
    /\ since' = [t \in Threads |-> IF gone(t) THEN 0 ELSE since[t]]
    /\ observed' = [t \in Threads |-> IF gone(t) THEN 0 ELSE observed[t]]
    /\ current' = [t \in Threads |-> IF gone(t) THEN 0 ELSE current[t]]
    /\ stop' = [t \in Threads |-> IF gone(t) THEN FALSE ELSE stop[t]]
    /\ UNCHANGED <<slot, hint, pins, granted>>

\* A process opens the table: it takes the first row nobody holds, under the
\* structural lock, and clears the pins it finds there.
Claim(p) ==
    /\ row[p] = NoRow /\ lock = NoOne
    /\ \E r \in Rows :
          /\ \A q \in Procs : row[q] # r
          /\ \A s \in 1 .. r - 1 : \E q \in Procs : row[q] = s
          /\ row' = [row EXCEPT ![p] = r]
          /\ pins' = [pins EXCEPT ![r] = [i \in Slots |-> 0]]
    /\ UNCHANGED <<slot, hint, lock, threadVars, granted, crashes>>

\* Everything a thread that is inside an operation does next.
Proceeds(t) ==
    \/ AllocFull(t) \/ InstallFields(t) \/ InstallState(t)
    \/ Write(t) \/ AddLoads(t) \/ AddSwaps(t)
    \/ CountChange(t) \/ LookForWaiters(t) \/ BumpSequence(t) \/ WakeOn(t)
    \/ WaitLoops(t) \/ Register(t) \/ Snapshot(t) \/ Recheck(t) \/ Park(t)
    \/ Leave(t) \/ LeaveExhausted(t) \/ WakeWaiters(t)

\* The operations a thread begins, and a park that ends by itself.
Begins(t) ==
    \/ AllocTakes(t) \/ AllocReclaims(t) \/ Open(t) \/ Retire(t)
    \/ DropHandle(t) \/ WriteChecks(t) \/ AddChecks(t) \/ TakeVersion(t)
    \/ SetInterrupt(t) \/ Interrupted(t)

Next ==
    \/ \E t \in Threads : Begins(t) \/ Proceeds(t)
    \/ \E p \in Procs : Crash(p) \/ Claim(p)

Spec == Init /\ [][Next]_vars

\* Threads that are scheduled at all finish the operation they are in.
FairSpec == Spec /\ \A t \in Threads : WF_vars(Proceeds(t))

-----------------------------------------------------------------------------
(***************************************************************************)
(* Properties                                                              *)
(***************************************************************************)

Handles == [slot : Slots, gen : 1 .. MaxGen] \cup {NoHandle}

\* Generations and sequences never pass their 32 bits, no count goes below
\* zero, and a row is held by one process at most.
TypeOK ==
    /\ \A i \in Slots :
          /\ slot[i].state \in {"empty", "occupied", "retired"}
          /\ slot[i].gen \in 0 .. MaxGen /\ slot[i].seq \in 0 .. MaxSeq
          /\ slot[i].waiters \in Nat /\ slot[i].changes \in Nat
    /\ \A r \in Rows, i \in Slots : pins[r][i] \in Nat
    /\ \A p, q \in Procs : row[p] = row[q] /\ row[p] # NoRow => p = q
    /\ handle \in [Threads -> Handles]
    /\ lock \in Threads \cup {NoOne}

\* "No released id ever matches again" (install), also for a write that has
\* passed its check: a cell only ever holds what was written through handles
\* of its own generation.
WritesStayInGeneration ==
    \A i \in Slots :
        slot[i].state = "occupied" => slot[i].from = slot[i].gen

\* "The value never passes limit however many callers race" (add_until), and
\* every unit it stands for was handed to exactly one caller.
ClaimsAddUp ==
    \A i \in Slots : slot[i].tag = "tally" =>
        slot[i].value <= Limit /\ slot[i].value = granted[i]

\* Threads between counting themselves in and out on slot i.
Registered(i) ==
    {t \in Threads : on[t] = i /\ pc[t] \in {"snapshot", "recheck", "park",
                                             "asleep", "leave", "fail"}}

\* The count a writer looks at never misses a waiter: it is exact while
\* nobody has died, and a dead waiter only makes it too large.
WaitersCounted ==
    \A i \in Slots :
        /\ slot[i].waiters >= Cardinality(Registered(i))
        /\ crashes = 0 => slot[i].waiters = Cardinality(Registered(i))

\* "A waiter either sees the flag or cannot park on the old generation", and
\* the same for writes and for a release: a thread asleep although its wait is
\* over still has somebody who is about to wake it, unless that one has died.
NoLostWake ==
    \A t \in Threads :
        pc[t] = "asleep" /\ Over(t) /\ crashes = 0 =>
            \E w \in Threads :
                /\ on[w] = on[t]
                /\ pc[w] \in {"count", "look", "bump", "wake", "rouse"}

\* "A released cell wakes every waiter", and so do a write and an interrupt: a
\* wait that is over does not stay asleep.
WaitsEnd ==
    \A t \in Threads :
        (pc[t] = "asleep" /\ Over(t)) ~> (pc[t] # "asleep" \/ crashes > 0)

\* The cells of a table under all that shares it: no write crosses generations,
\* no unit of a limit is handed out twice, no live waiter is uncounted, and
\* none sleeps over a change (lib.rs, lifetime.rs and wake.rs of the cells).
CellsSound ==
    TypeOK /\ WritesStayInGeneration /\ ClaimsAddUp /\ WaitersCounted /\ NoLostWake
=============================================================================
