------------------------------- MODULE Quota -------------------------------
(***************************************************************************)
(* One shard of a fleet quota (quota/src/shm, gcra.rs, retention.rs):       *)
(* callers of several processes find a key's slot under a pin of their      *)
(* process, charge its theoretical arrival time with a compare and swap, or *)
(* install the key in the bank that a frozen slot does not use.  Processes  *)
(* die anywhere; what they leave is repaired by whoever needs the slot.  An *)
(* instance with memory is the store of one process (memory.rs): one gate   *)
(* counts the pins of a slot or keeps it for its writer.                    *)
(*                                                                          *)
(* An action is one atomic access.  A repair is one step, because it stores *)
(* one word under the lock of the shard.                                    *)
(***************************************************************************)
EXTENDS Integers, FiniteSets, FiniteSetsExt

CONSTANTS
    Callers,        \* threads that admit
    RowOf(_),       \* the owner row of a caller's process
    Keys,
    Setup           \* instances: retention, slots, policy, bounds

None == "none"

VARIABLES
    control,        \* Slot.control: generation, frozen
    bank,           \* the two banks of each slot
    pins,           \* the pin counter of each row and slot
    lock,           \* the caller that holds the kernel lock of the shard
    watermark,      \* Shard.watermark
    clock,          \* CLOCK_MONOTONIC
    up,             \* rows whose process runs
    pc, job,        \* where each caller is in admit, and its locals
    admitted,       \* history: units admitted for each key
    epoch,          \* history: units admitted under the identity of each slot
    answer,         \* history: the last answer
    calls, crashes, \* history, bounded
    setup

vars == <<control, bank, pins, lock, watermark, clock, up, pc, job, admitted,
          epoch, answer, calls, crashes, setup>>

Rows == {RowOf(t) : t \in Callers}
Slots == 1..setup.slots
NoBank == [key |-> None, tat |-> 0, seen |-> 0]
NoCandidate == [slot |-> 0, gen |-> 0, debt |-> FALSE, tat |-> 0, seen |-> 0]
NoJob == [key |-> None, cost |-> 0, probe |-> 1, second |-> FALSE, gen |-> 0,
          now |-> 0, prev |-> 0, recovery |-> 0, free |-> NoCandidate,
          cold |-> NoCandidate, pick |-> NoCandidate, row |-> 1]

Init ==
    /\ setup \in Setup
    /\ control = [s \in Slots |-> [gen |-> 0, frozen |-> FALSE]]
    /\ bank = [s \in Slots |-> [b \in 0..1 |-> NoBank]]
    /\ pins = [r \in Rows |-> [s \in Slots |-> 0]]
    /\ lock = None /\ watermark = 0 /\ clock = 0 /\ up = Rows
    /\ pc = [t \in Callers |-> "idle"] /\ job = [t \in Callers |-> NoJob]
    /\ admitted = [k \in Keys |-> 0]
    /\ epoch = [s \in Slots |-> [units |-> 0, since |-> 0]]
    /\ answer = [kind |-> None] /\ calls = 0 /\ crashes = 0

-----------------------------------------------------------------------------
(***************************************************************************)
(* Gcra: time is scaled by the sustained units, so a unit costs a period    *)
(***************************************************************************)

Scale(now) == now * setup.units
Capacity == setup.period * setup.burst
Charge(cost) == setup.period * cost

\* Prepared::evaluate
Arrival(now, previous, cost) == Max({previous, now}) + Charge(cost)
Allows(now, previous, cost) == Arrival(now, previous, cost) <= now + Capacity

\* Gcra::retry_after of the debt above the ceiling, in clock units.
RetryRoundedDown(debt) == debt \div setup.units
RetryAfter(debt) == (debt + setup.units - 1) \div setup.units

\* Gcra::snapshot
Remaining(now, tat) == (Capacity - (tat - now)) \div setup.period

-----------------------------------------------------------------------------
(***************************************************************************)
(* Helpers                                                                  *)
(***************************************************************************)

Up(t) == RowOf(t) \in up
Goes(t, a, b, j) ==
    /\ Up(t) /\ pc[t] = a
    /\ pc' = [pc EXCEPT ![t] = b] /\ job' = [job EXCEPT ![t] = j]
History == <<admitted, epoch, answer, calls, crashes, setup>>

\* The slot a probe looks at; every key starts at slot 1.
SlotOf(t) == job[t].probe
\* The bank of a generation; a slot in memory has one.
BankOf(gen) == IF setup.memory THEN 0 ELSE gen % 2
Active(s) == bank[s][BankOf(control[s].gen)]

\* Busy, and every other error: no permission, nothing kept.
Fails(t) == Goes(t, pc[t], "idle", NoJob)
Unlocked(t) == IF lock = t THEN None ELSE lock
Pinned(t, s, d) == [pins EXCEPT ![RowOf(t)][s] = @ + d]

-----------------------------------------------------------------------------
(***************************************************************************)
(* admit: the optimistic lookup, and the lookup under the shard's lock      *)
(***************************************************************************)

Admit(t, k, c) ==
    /\ calls < setup.calls
    /\ Goes(t, "idle", "probe", [NoJob EXCEPT !.key = k, !.cost = c,
                                              !.recovery = setup.recovery])
    /\ calls' = calls + 1
    /\ UNCHANGED <<control, bank, pins, lock, watermark, clock, up, admitted,
                   epoch, answer, crashes, setup>>

Thawed(s) == [control EXCEPT ![s].frozen = FALSE]

\* A frozen slot is repaired by whoever gets the shard's lock, which no live
\* writer holds then; the lookup under the lock thaws without asking.
Probe(t) ==
    LET s == SlotOf(t)
        stuck == control[s].frozen /\ ~job[t].second
    IN  /\ Up(t) /\ pc[t] = "probe" /\ ~setup.memory
        /\ IF stuck /\ (job[t].recovery = 0 \/ lock # None)
           THEN Fails(t) /\ UNCHANGED control
           ELSE /\ control' = Thawed(s)
                /\ Goes(t, "probe", "pin", [job[t] EXCEPT
                           !.recovery = IF stuck THEN @ - 1 ELSE @])
        /\ UNCHANGED <<bank, pins, lock, watermark, clock, up, History>>

\* pin: the descriptor, then the counter, then the descriptor again.
PinLook(t) ==
    LET s == SlotOf(t) IN
    /\ Up(t) /\ pc[t] = "pin"
    /\ IF control[s].frozen
       THEN Fails(t) /\ lock' = Unlocked(t)
       ELSE Goes(t, "pin", "count", [job[t] EXCEPT !.gen = control[s].gen])
            /\ UNCHANGED lock
    /\ UNCHANGED <<control, bank, pins, watermark, clock, up, History>>

PinCount(t) ==
    /\ Goes(t, "count", "validate", job[t])
    /\ pins' = Pinned(t, SlotOf(t), 1)
    /\ UNCHANGED <<control, bank, lock, watermark, clock, up, History>>

\* Slot::pin of a store in memory: one compare and swap of the gate.
PinGate(t) ==
    LET s == SlotOf(t) IN
    /\ Up(t) /\ pc[t] = "probe" /\ setup.memory
    /\ IF control[s].frozen
       THEN Fails(t) /\ lock' = Unlocked(t) /\ UNCHANGED pins
       ELSE /\ Goes(t, "probe", "validate",
                    [job[t] EXCEPT !.gen = control[s].gen])
            /\ pins' = Pinned(t, s, 1) /\ UNCHANGED lock
    /\ UNCHANGED <<control, bank, watermark, clock, up, History>>

\* Selection::consider, in probe order.
Considered(t) ==
    LET s == SlotOf(t)
        b == bank[s][BankOf(job[t].gen)]
        c == [slot |-> s, gen |-> job[t].gen, tat |-> b.tat, seen |-> b.seen,
              debt |-> ~(job[t].gen = 0 \/ b.tat <= job[t].now)]
    IN  IF ~c.debt
        THEN [job[t] EXCEPT !.free = IF @ = NoCandidate THEN c ELSE @]
        ELSE [job[t] EXCEPT !.cold =
                 IF /\ setup.guard
                    /\ @ = NoCandidate \/ b.seen < job[t].cold.seen
                 THEN c ELSE @]

\* After a pin that did not match: the next probe, or the end of this lookup.
Onward(t) ==
    LET j == IF job[t].second THEN Considered(t) ELSE job[t]
        last == job[t].probe = setup.slots
        pick == IF j.free # NoCandidate THEN j.free ELSE j.cold
    IN  IF ~last
        THEN Goes(t, "validate", "probe", [j EXCEPT !.probe = @ + 1])
             /\ UNCHANGED lock
        ELSE IF ~job[t].second
        THEN Goes(t, "validate", "lock", j) /\ UNCHANGED lock
        ELSE IF pick = NoCandidate
        THEN Fails(t) /\ lock' = None       \* CapacityFull
        ELSE Goes(t, "validate", "freeze", [j EXCEPT !.pick = pick])
             /\ UNCHANGED lock

Matches(t) == /\ job[t].gen # 0
              /\ bank[SlotOf(t)][BankOf(job[t].gen)].key = job[t].key

\* validate_pin, Pin::matches, and the drop of a pin that is not kept.
PinValidateNever(t) ==
    /\ Up(t) /\ pc[t] = "validate"
    /\ IF Matches(t)
       THEN /\ Goes(t, "validate", "read", job[t])
            /\ lock' = Unlocked(t) /\ UNCHANGED pins
       ELSE Onward(t) /\ pins' = Pinned(t, SlotOf(t), -1)
    /\ UNCHANGED <<control, bank, watermark, clock, up, History>>

PinValidate(t) ==
    LET s == SlotOf(t) IN
    /\ Up(t) /\ pc[t] = "validate"
    /\ IF control[s] # [gen |-> job[t].gen, frozen |-> FALSE]
       THEN Fails(t) /\ pins' = Pinned(t, s, -1) /\ lock' = Unlocked(t)
       ELSE IF Matches(t)
       THEN /\ Goes(t, "validate", "read", job[t])
            /\ lock' = Unlocked(t) /\ UNCHANGED pins
       ELSE Onward(t) /\ pins' = Pinned(t, s, -1)
    /\ UNCHANGED <<control, bank, watermark, clock, up, History>>

\* sample: a clock that is behind the watermark is refused.
Samples == clock >= watermark /\ watermark' = clock

LockShard(t) ==
    /\ Up(t) /\ pc[t] = "lock"
    /\ IF lock = None
       THEN /\ lock' = t /\ Samples
            /\ Goes(t, "lock", "probe", [job[t] EXCEPT !.probe = 1,
                       !.second = TRUE, !.now = Scale(clock)])
       ELSE Fails(t) /\ UNCHANGED <<lock, watermark>>
    /\ UNCHANGED <<control, bank, pins, clock, up, History>>

-----------------------------------------------------------------------------
(***************************************************************************)
(* consume: the charge of a key that is there                               *)
(***************************************************************************)

ConsumeRead(t) ==
    /\ Goes(t, "read", "sample",
            [job[t] EXCEPT !.prev = bank[SlotOf(t)][BankOf(job[t].gen)].tat])
    /\ UNCHANGED <<control, bank, pins, lock, watermark, clock, up, History>>

\* The clock is read after the state it is compared with; a guard notes the
\* access before the decision.
ConsumeSample(t) ==
    LET s == SlotOf(t)
        b == BankOf(job[t].gen)
        now == Scale(clock)
    IN  /\ Samples
        /\ Goes(t, "sample", "decide", [job[t] EXCEPT !.now = now])
        /\ bank' = IF setup.guard
                   THEN [bank EXCEPT ![s][b].seen = Max({@, now})] ELSE bank
        /\ UNCHANGED <<control, pins, lock, clock, up, History>>

Granted(t, s, tat) ==
    /\ admitted' = [admitted EXCEPT ![job[t].key] = @ + job[t].cost]
    /\ answer' = [kind |-> "allowed", now |-> job[t].now, tat |-> tat,
                  remaining |-> Remaining(job[t].now, tat)]

Limited(t) ==
    answer' = [kind |-> "limited", now |-> job[t].now, prev |-> job[t].prev,
               cost |-> job[t].cost,
               retry |-> RetryAfter(Arrival(job[t].now, job[t].prev, job[t].cost)
                                    - (job[t].now + Capacity))]

\* The compare and swap of the arrival time commits the charge; one that fails
\* is tried again until the budget of the call is spent.
ConsumeDecide(t) ==
    LET s == SlotOf(t)
        b == BankOf(job[t].gen)
        tat == Arrival(job[t].now, job[t].prev, job[t].cost)
    IN  /\ \/ /\ Allows(job[t].now, job[t].prev, job[t].cost)
              /\ bank[s][b].tat = job[t].prev
              /\ Goes(t, "decide", "idle", NoJob)
              /\ bank' = [bank EXCEPT ![s][b].tat = tat]
              /\ Granted(t, s, tat)
              /\ epoch' = [epoch EXCEPT ![s].units = @ + job[t].cost]
              /\ pins' = Pinned(t, s, -1)
           \/ /\ Allows(job[t].now, job[t].prev, job[t].cost)
              /\ bank[s][b].tat # job[t].prev
              /\ \/ Goes(t, "decide", "read", job[t]) /\ UNCHANGED pins
                 \/ Goes(t, "decide", "idle", NoJob) /\ pins' = Pinned(t, s, -1)
              /\ UNCHANGED <<bank, admitted, epoch, answer>>
           \/ /\ ~Allows(job[t].now, job[t].prev, job[t].cost)
              /\ Goes(t, "decide", "idle", NoJob)
              /\ pins' = Pinned(t, s, -1)
              /\ Limited(t) /\ UNCHANGED <<bank, admitted, epoch>>
        /\ UNCHANGED <<control, lock, watermark, clock, up, calls, crashes, setup>>

-----------------------------------------------------------------------------
(***************************************************************************)
(* install: freeze, look for pins, write the other bank, publish            *)
(***************************************************************************)

Freeze(t) ==
    LET c == job[t].pick IN
    /\ Up(t) /\ pc[t] = "freeze" /\ ~setup.memory
    /\ IF control[c.slot] = [gen |-> c.gen, frozen |-> FALSE]
       THEN /\ control' = [control EXCEPT ![c.slot].frozen = TRUE]
            /\ Goes(t, "freeze", "scan", [job[t] EXCEPT !.row = Min(Rows)])
            /\ UNCHANGED lock
       ELSE Fails(t) /\ lock' = None /\ UNCHANGED control
    /\ UNCHANGED <<bank, pins, watermark, clock, up, History>>

\* Slot::reserve of a store in memory: a gate that nobody has pinned.
Reserve(t) ==
    LET c == job[t].pick IN
    /\ Up(t) /\ pc[t] = "freeze" /\ setup.memory
    /\ IF /\ control[c.slot] = [gen |-> c.gen, frozen |-> FALSE]
          /\ \A r \in Rows : pins[r][c.slot] = 0
       THEN /\ control' = [control EXCEPT ![c.slot].frozen = TRUE]
            /\ Goes(t, "freeze", "check", job[t]) /\ UNCHANGED lock
       ELSE Fails(t) /\ lock' = None /\ UNCHANGED control
    /\ UNCHANGED <<bank, pins, watermark, clock, up, History>>

\* Frozen::drop restores the descriptor.
Thaws(t) == /\ Fails(t) /\ lock' = None
            /\ control' = Thawed(job[t].pick.slot)

\* clear_dead_pin: the row of another process that cannot be locked is alive.
ClearsDeadPin(t, r) == r # RowOf(t) /\ job[t].recovery > 0 /\ r \notin up

ScanPins(t) ==
    LET s == job[t].pick.slot
        r == job[t].row
        j == IF r = Max(Rows) THEN job[t] ELSE [job[t] EXCEPT !.row = @ + 1]
        next == IF r = Max(Rows) THEN "check" ELSE "scan"
    IN  /\ Up(t) /\ pc[t] = "scan"
        /\ \/ /\ pins[r][s] = 0
              /\ Goes(t, "scan", next, j) /\ UNCHANGED <<control, pins, lock>>
           \/ /\ pins[r][s] # 0 /\ ClearsDeadPin(t, r)
              /\ pins' = [pins EXCEPT ![r][s] = 0]
              /\ Goes(t, "scan", next, [j EXCEPT !.recovery = @ - 1])
              /\ UNCHANGED <<control, lock>>
           \/ /\ pins[r][s] # 0 /\ ~ClearsDeadPin(t, r)
              /\ Thaws(t) /\ UNCHANGED pins
        /\ UNCHANGED <<bank, watermark, clock, up, History>>

\* A key that was charged or touched since it was chosen is kept.
StillFree(c, now) ==
    LET b == bank[c.slot][BankOf(c.gen)] IN
    c.gen = 0 \/ IF c.debt THEN b.tat = c.tat /\ b.seen = c.seen ELSE b.tat <= now

Recheck(t) ==
    LET c == job[t].pick IN
    /\ Up(t) /\ pc[t] = "check" /\ Samples
    /\ IF StillFree(c, Scale(clock))
       THEN Goes(t, "check", "copy", [job[t] EXCEPT !.now = Scale(clock)])
            /\ UNCHANGED <<control, lock>>
       ELSE Thaws(t)
    /\ UNCHANGED <<bank, pins, clock, up, History>>

NextBank(c) == BankOf(c.gen + 1)
\* The key's bytes are copied first; a copy that stops half way is no key.
CopyKey(t) ==
    LET c == job[t].pick IN
    /\ Goes(t, "copy", "charge", job[t])
    /\ bank' = [bank EXCEPT ![c.slot][NextBank(c)].key = "torn"]
    /\ UNCHANGED <<control, pins, lock, watermark, clock, up, History>>

ChargeBank(t) ==
    LET c == job[t].pick IN
    /\ Goes(t, "charge", "publish", job[t])
    /\ bank' = [bank EXCEPT ![c.slot][NextBank(c)] =
                   [key |-> job[t].key,
                    tat |-> Arrival(job[t].now, job[t].now, job[t].cost),
                    seen |-> IF setup.guard THEN job[t].now ELSE 0]]
    /\ UNCHANGED <<control, pins, lock, watermark, clock, up, History>>

\* One store commits identity, generation and first charge.
Publish(t) ==
    LET c == job[t].pick
        tat == Arrival(job[t].now, job[t].now, job[t].cost)
    IN  /\ Goes(t, "publish", "unlock", job[t])
        /\ control' = [control EXCEPT ![c.slot] =
                          [gen |-> c.gen + 1, frozen |-> FALSE]]
        /\ Granted(t, c.slot, tat)
        /\ epoch' = [epoch EXCEPT ![c.slot] =
                        [units |-> job[t].cost, since |-> job[t].now]]
        /\ UNCHANGED <<bank, pins, lock, watermark, clock, up, calls, crashes,
                       setup>>

Unlock(t) ==
    /\ Goes(t, "unlock", "idle", NoJob) /\ lock' = None
    /\ UNCHANGED <<control, bank, pins, watermark, clock, up, History>>

-----------------------------------------------------------------------------
(***************************************************************************)
(* Processes die and are opened again; time passes                          *)
(***************************************************************************)

\* The kernel gives back the locks of a process that died; its pins and what
\* it froze stay.
Crash(r) ==
    /\ r \in up /\ crashes < setup.crashes
    /\ up' = up \ {r} /\ crashes' = crashes + 1
    /\ pc' = [t \in Callers |-> IF RowOf(t) = r THEN "idle" ELSE pc[t]]
    /\ job' = [t \in Callers |-> IF RowOf(t) = r THEN NoJob ELSE job[t]]
    /\ lock' = IF lock # None /\ RowOf(lock) = r THEN None ELSE lock
    /\ UNCHANGED <<control, bank, pins, watermark, clock, admitted, epoch,
                   answer, calls, setup>>

\* An opener takes a row whose hold is free and clears the pins of its row.
Open(r) ==
    /\ r \notin up
    /\ up' = up \cup {r}
    /\ pins' = [pins EXCEPT ![r] = [s \in Slots |-> 0]]
    /\ UNCHANGED <<control, bank, lock, watermark, clock, pc, job, History>>

Tick ==
    /\ clock < setup.ticks
    /\ clock' = clock + 1
    /\ UNCHANGED <<control, bank, pins, lock, watermark, up, pc, job, History>>

Call(t) ==
    \/ Probe(t) \/ PinGate(t) \/ Reserve(t) \/ PinLook(t) \/ PinCount(t) \/ PinValidate(t) \/ LockShard(t)
    \/ ConsumeRead(t) \/ ConsumeSample(t) \/ ConsumeDecide(t)
    \/ Freeze(t) \/ ScanPins(t) \/ Recheck(t) \/ CopyKey(t) \/ ChargeBank(t)
    \/ Publish(t) \/ Unlock(t)

Next ==
    \/ \E t \in Callers :
          Call(t) \/ \E k \in Keys, c \in setup.costs : Admit(t, k, c)
    \/ \E r \in Rows : Crash(r) \/ Open(r)
    \/ Tick

Spec == Init /\ [][Next]_vars

-----------------------------------------------------------------------------
(***************************************************************************)
(* Properties                                                               *)
(***************************************************************************)

\* A strict quota never admits more of a key than its burst and what the rate
\* has brought since, whoever asks, races, dies half way or replaces whom; a
\* guard never does so while it retains the key.  No key has two slots, and no
\* published bank holds half a key.
WithinEnvelope ==
    /\ ~setup.guard => \A k \in Keys :
          Charge(admitted[k]) <= Capacity + Scale(clock)
    /\ \A s \in Slots :
          Charge(epoch[s].units) <= Capacity + (Scale(clock) - epoch[s].since)
    /\ \A s, u \in Slots :
          /\ control[s].gen > 0 /\ ~(setup.memory /\ control[s].frozen)
                => Active(s).key \in Keys
          /\ control[s].gen > 0 /\ control[u].gen > 0 /\ s # u
                => Active(s).key # Active(u).key \/ Active(s).key = "torn"

\* An answer is exact: a caller that is limited would be admitted after the
\* delay it was given and not an instant earlier, if nobody else came; what an
\* admission reports as remaining would be admitted at once, and no unit more.
HonestAnswer ==
    /\ answer.kind = "limited" =>
          /\ Allows(answer.now + Scale(answer.retry), answer.prev, answer.cost)
          /\ ~Allows(answer.now + Scale(answer.retry - 1), answer.prev, answer.cost)
    /\ answer.kind = "allowed" =>
          /\ answer.remaining \in 0..setup.burst
          /\ answer.remaining > 0 => Allows(answer.now, answer.tat, answer.remaining)
          /\ ~Allows(answer.now, answer.tat, answer.remaining + 1)

=============================================================================
