---------------------------- MODULE SessionStore ----------------------------
(***************************************************************************)
(* The table behind the rustls session storage (rustls/src/session): sets  *)
(* of slots in a shared segment, one entry a slot.  A server table is used *)
(* under a claim of the key's set, which names the registration of its     *)
(* owner and is never waited for; a client table is used under one lock    *)
(* that is waited for.  An operation may die at any store: a claim it left *)
(* is taken back by whoever can take the lock of its registration.         *)
(***************************************************************************)
EXTENDS Integers, FiniteSets, SequencesExt

CONSTANTS Threads,        \* who calls
          HandleOf(_),    \* the handle of a thread, one to a process
          SetOf(_),       \* the set a key hashes to
          NOwners,        \* registrations of the table
          GenerationMax,  \* of a registration; one that reached it is spent
          NWays,          \* slots of a set
          ValueMax,       \* bytes of a slot's value
          Setup           \* exclusion, who, kinds, keys, sets, lens, ttls, bad and
                          \* the bounds stores, crashes, ticks

VARIABLES setup, now, stores, crashes,
          slot,           \* set, way -> the slot in the segment
          claim,          \* set -> the registration that claimed it
          gens,           \* owner -> generation of the registration
          held,           \* owner -> who holds the registration's lock file
          table,          \* who holds the lock of the table
          handle, ttl,    \* handle -> its registration, its retention
          job,            \* thread -> the operation it is in
          taken           \* values a take has answered

vars == <<setup, now, stores, crashes, slot, claim, gens, held, table, handle,
          ttl, job, taken>>

Handles == {HandleOf(t) : t \in Threads}
Owners == 1..NOwners
Ways == 1..NWays
Sets == 1..setup.sets
Nobody == "nobody"
FREE == <<0, 0>>
Closed == [owner |-> 0, gen |-> 0]
Blank == [i \in 1..ValueMax |-> 0]

Empty == [state |-> "empty", key |-> "", len |-> 0, ins |-> 0, exp |-> 0,
          bytes |-> Blank]

Idle == [pc |-> "idle", kind |-> "", key |-> "", val |-> 0, len |-> 0,
         now |-> 0, exp |-> 0, set |-> 0, seen |-> FREE, own |-> 0,
         way |-> 0, then |-> "", ext |-> 0, tries |-> 0, all |-> FALSE,
         out |-> Blank]

\* validate_ttl: neither zero nor over MAX_SESSION_TTL, here a tick more than
\* the longest retention that is used.
MaxSessionTtl == 3
ValidTtl(d) == d \in 1..MaxSessionTtl

Init ==
    /\ setup \in Setup
    /\ now = 0 /\ stores = 0 /\ crashes = 0
    /\ slot = [s \in Sets |-> [w \in Ways |-> Empty]]
    /\ claim = [s \in Sets |-> FREE]
    /\ gens = [o \in Owners |-> 0]
    /\ held = [o \in Owners |-> Nobody]
    /\ table = Nobody
    /\ handle = [h \in Handles |-> Closed]
    /\ ttl \in [Handles -> {d \in setup.ttls : ValidTtl(d)}]
    /\ job = [t \in Threads |-> Idle]
    /\ taken = {}

Identity(t) == <<handle[HandleOf(t)].owner, handle[HandleOf(t)].gen>>
Step(t, j) == job' = [job EXCEPT ![t] = j]
At(t, pc) == job[t].pc = pc
Shared == setup.exclusion = "set"
Slot(t) == slot[job[t].set][job[t].way]
Put(t, v) == slot' = [slot EXCEPT ![job[t].set][job[t].way] = v]

-----------------------------------------------------------------------------
(* Opening: a registration nobody holds, and the claims its last holder    *)
(* left.                                                                   *)

\* A handle is opened by one of its threads before any other uses it.
Open(t) ==
    /\ At(t, "idle") /\ handle[HandleOf(t)] = Closed
    /\ \A u \in Threads : HandleOf(u) = HandleOf(t) => At(u, "idle")
    /\ \/ /\ Shared
          /\ Step(t, [Idle EXCEPT !.pc = "register", !.own = 1])
          /\ UNCHANGED handle
       \/ /\ ~Shared
          /\ handle' = [handle EXCEPT ![HandleOf(t)] = [owner |-> 1, gen |-> 1]]
          /\ UNCHANGED job
    /\ UNCHANGED <<setup, now, stores, crashes, slot, claim, gens, held, table, ttl, taken>>

\* The first registration whose lock is free; none of them is an error.
Register(t) ==
    LET h == HandleOf(t)
        o == job[t].own IN
    /\ At(t, "register")
    /\ \/ /\ held[o] # Nobody \/ gens[o] = GenerationMax
          /\ Step(t, IF o = NOwners THEN Idle ELSE [job[t] EXCEPT !.own = o + 1])
          /\ UNCHANGED <<held, gens, handle>>
       \/ /\ held[o] = Nobody /\ gens[o] < GenerationMax
          /\ held' = [held EXCEPT ![o] = h]
          /\ gens' = [gens EXCEPT ![o] = @ + 1]
          /\ handle' = [handle EXCEPT ![h] = [owner |-> o, gen |-> gens[o] + 1]]
          /\ Step(t, [job[t] EXCEPT !.pc = "own", !.set = 1])
    /\ UNCHANGED <<setup, now, stores, crashes, slot, claim, table, ttl, taken>>

NextOwnSet(t) ==
    IF job[t].set = setup.sets THEN Idle
    ELSE [job[t] EXCEPT !.pc = "own", !.set = @ + 1]

OwnLookNot(t) ==
    /\ At(t, "own")
    /\ Step(t, NextOwnSet(t))
    /\ UNCHANGED <<setup, now, stores, crashes, slot, claim, gens, held, table,
                   handle, ttl, taken>>

\* The claim of one set, as the new holder of the registration finds it.
OwnLook(t) ==
    /\ At(t, "own")
    /\ Step(t, IF claim[job[t].set][1] # job[t].own THEN NextOwnSet(t)
               ELSE [job[t] EXCEPT !.pc = "owntake", !.seen = claim[job[t].set]])
    /\ UNCHANGED <<setup, now, stores, crashes, slot, claim, gens, held, table,
                   handle, ttl, taken>>

OwnTake(t) ==
    LET s == job[t].set IN
    /\ At(t, "owntake")
    /\ IF claim[s] = job[t].seen
       THEN /\ claim' = [claim EXCEPT ![s] = Identity(t)]
            /\ Step(t, [job[t] EXCEPT !.pc = "erase", !.way = 1, !.then = "ownfree"])
       ELSE UNCHANGED claim /\ Step(t, NextOwnSet(t))
    /\ UNCHANGED <<setup, now, stores, crashes, slot, gens, held, table, handle,
                   ttl, taken>>

OwnFree(t) ==
    /\ At(t, "ownfree")
    /\ claim' = [claim EXCEPT ![job[t].set] = FREE]
    /\ Step(t, NextOwnSet(t))
    /\ UNCHANGED <<setup, now, stores, crashes, slot, gens, held, table, handle,
                   ttl, taken>>

\* The handle is dropped: its registration's lock goes with it.
Close(h) ==
    /\ handle[h] # Closed
    /\ \A t \in Threads : HandleOf(t) = h => At(t, "idle")
    /\ handle' = [handle EXCEPT ![h] = Closed]
    /\ held' = [o \in Owners |-> IF held[o] = h THEN Nobody ELSE held[o]]
    /\ UNCHANGED <<setup, now, stores, crashes, slot, claim, gens, table, ttl, job, taken>>

\* A process ends at any point: the kernel lets its locks go, nothing else.
Crash(h) ==
    LET mine == {t \in Threads : HandleOf(t) = h} IN
    /\ crashes < setup.crashes /\ handle[h] # Closed
    /\ crashes' = crashes + 1
    /\ handle' = [handle EXCEPT ![h] = Closed]
    /\ held' = [o \in Owners |-> IF held[o] \in {h} \cup mine THEN Nobody ELSE held[o]]
    /\ table' = IF table \in mine THEN Nobody ELSE table
    /\ job' = [t \in Threads |-> IF t \in mine THEN Idle ELSE job[t]]
    /\ UNCHANGED <<setup, now, stores, slot, claim, gens, ttl, taken>>

-----------------------------------------------------------------------------
(* Calls.  The clock and the retention are read before the set is claimed. *)

SetTtl(h, d) ==
    /\ handle[h] # Closed /\ ValidTtl(d) /\ d # ttl[h]
    /\ ttl' = [ttl EXCEPT ![h] = d]
    /\ UNCHANGED <<setup, now, stores, crashes, slot, claim, gens, held, table,
                   handle, job, taken>>

\* A thread of an open handle that has no operation under way.
Ready(t) ==
    /\ At(t, "idle") /\ handle[HandleOf(t)] # Closed
    /\ \A u \in Threads : HandleOf(u) = HandleOf(t) =>
           job[u].pc \notin {"own", "owntake", "ownfree"} /\ job[u].then # "ownfree"

EntryFits(n) == n \in 1..ValueMax

\* A store of a value never stored before.
Store(t, kind, k, n) ==
    /\ Ready(t) /\ EntryFits(n) /\ stores < setup.stores
    /\ stores' = stores + 1
    /\ Step(t, [Idle EXCEPT !.pc = "claim", !.kind = kind, !.key = k, !.val = stores + 1,
                            !.len = n, !.now = now, !.exp = now + ttl[HandleOf(t)],
                            !.set = SetOf(k)])
    /\ UNCHANGED <<setup, now, crashes, slot, claim, gens, held, table, handle,
                   ttl, taken>>

\* tries counts the takes of one take_tls13_ticket.
Fetch(t, kind, k, tries) ==
    /\ Ready(t)
    /\ Step(t, [Idle EXCEPT !.pc = "claim", !.kind = kind, !.key = k, !.now = now,
                            !.set = SetOf(k), !.tries = tries])
    /\ UNCHANGED <<setup, now, stores, crashes, slot, claim, gens, held, table,
                   handle, ttl, taken>>

\* What rustls calls on a server: a store that replaces, a look, a look that
\* consumes.
PutBytes(t, k, n) == Shared /\ Store(t, "put", k, n)
GetBytes(t, k) == Shared /\ Fetch(t, "get", k, 0)
TakeBytes(t, k) == Shared /\ Fetch(t, "take", k, 0)

\* And on a client: hints and TLS 1.2 sessions replace, tickets queue up. One
\* that this build cannot decode (setup.bad) is discarded.
SetTls12Session(t, k, n) == ~Shared /\ Store(t, "put", k, n)
Tls12Session(t, k) == ~Shared /\ Fetch(t, "get", k, 0)
RemoveTls12Session(t, k) == ~Shared /\ Fetch(t, "take", k, 0)
InsertTls13Ticket(t, k, n) == ~Shared /\ Store(t, "push", k, n)
TakeTls13Ticket(t, k) == ~Shared /\ Fetch(t, "take", k, 1)

Reset(t) ==
    /\ Ready(t)
    /\ Step(t, [Idle EXCEPT !.pc = "claim", !.kind = "reset", !.set = 1])
    /\ UNCHANGED <<setup, now, stores, crashes, slot, claim, gens, held, table,
                   handle, ttl, taken>>

Recovers(t) == job[t].kind \in {"put", "push", "reset"}
Begun(j) == IF j.kind = "reset" THEN [j EXCEPT !.pc = "erase", !.way = 1, !.then = "finish"]
            ELSE [j EXCEPT !.pc = "work"]

ClaimAnyway(t) ==
    /\ At(t, "claim") /\ Shared
    /\ claim' = [claim EXCEPT ![job[t].set] = Identity(t)]
    /\ Step(t, Begun(job[t]))
    /\ UNCHANGED <<setup, now, stores, crashes, slot, gens, held, table, handle,
                   ttl, taken>>

\* One compare-and-swap; only a store or a reset asks who stands behind it.
Claim(t) ==
    LET s == job[t].set IN
    /\ At(t, "claim") /\ Shared
    /\ gens[handle[HandleOf(t)].owner] = handle[HandleOf(t)].gen
    /\ \/ /\ claim[s] = FREE
          /\ claim' = [claim EXCEPT ![s] = Identity(t)]
          /\ Step(t, Begun(job[t]))
       \/ /\ claim[s] # FREE
          /\ Step(t, IF Recovers(t) THEN [job[t] EXCEPT !.pc = "back", !.seen = claim[s]]
                     ELSE Idle)
          /\ UNCHANGED claim
    /\ UNCHANGED <<setup, now, stores, crashes, slot, gens, held, table, handle,
                   ttl, taken>>

\* take_back asks for the registration's lock: a live owner answers by it.
TakeBackHold(t) ==
    LET o == job[t].seen[1] IN
    /\ At(t, "back")
    /\ IF o = Identity(t)[1] \/ held[o] # Nobody
       THEN UNCHANGED held /\ Step(t, Idle)
       ELSE /\ held' = [held EXCEPT ![o] = t]
            /\ Step(t, [job[t] EXCEPT !.pc = "backtake", !.own = o])
    /\ UNCHANGED <<setup, now, stores, crashes, slot, claim, gens, table, handle,
                   ttl, taken>>

\* The same claim is still there: the set is this handle's, to erase.
TakeBackSwap(t) ==
    LET s == job[t].set IN
    /\ At(t, "backtake") /\ gens[job[t].own] >= job[t].seen[2]
    /\ IF claim[s] = job[t].seen
       THEN /\ claim' = [claim EXCEPT ![s] = Identity(t)]
            /\ Step(t, [job[t] EXCEPT !.pc = "erase", !.way = 1, !.then = "backdone"])
            /\ UNCHANGED held
       ELSE /\ held' = [held EXCEPT ![job[t].own] = Nobody]
            /\ Step(t, Idle)
            /\ UNCHANGED claim
    /\ UNCHANGED <<setup, now, stores, crashes, slot, gens, table, handle, ttl, taken>>

TakeBackDone(t) ==
    /\ At(t, "backdone")
    /\ held' = [held EXCEPT ![job[t].own] = Nobody]
    /\ Step(t, Begun([job[t] EXCEPT !.own = 0]))
    /\ UNCHANGED <<setup, now, stores, crashes, slot, claim, gens, table, handle,
                   ttl, taken>>

\* A client table: the local mutex and the lock file, waited for.
Enter(t) ==
    /\ At(t, "claim") /\ ~Shared /\ table = Nobody
    /\ table' = t
    /\ Step(t, Begun(job[t]))
    /\ UNCHANGED <<setup, now, stores, crashes, slot, claim, gens, held, handle,
                   ttl, taken>>

-----------------------------------------------------------------------------
(* The work on a set, by its only user.                                    *)

Live(v, n) == v.state = "occupied" /\ v.exp > n
Matches(v, k) == v.state = "occupied" /\ v.key = k
First(P(_)) == IF \E w \in Ways : P(w)
               THEN CHOOSE w \in Ways : P(w) /\ \A u \in 1..(w - 1) : ~P(u) ELSE 0
Oldest(set, W) == CHOOSE w \in W : \A u \in W :
                      set[w].ins < set[u].ins \/ (set[w].ins = set[u].ins /\ w <= u)

\* The entry itself or a slot to reuse, whichever the scan meets first.
PutTarget(set, k, n) ==
    LET w == First(LAMBDA u : Matches(set[u], k) \/ ~Live(set[u], n)) IN
    IF w # 0 THEN w ELSE Oldest(set, Ways)

\* Another value beside the earlier ones, up to as many as a set has ways.
PushTarget(set, k, n) ==
    LET own == {w \in Ways : Live(set[w], n) /\ Matches(set[w], k)}
        dead == First(LAMBDA u : ~Live(set[u], n)) IN
    IF Cardinality(own) >= NWays THEN Oldest(set, own)
    ELSE IF dead # 0 THEN dead ELSE Oldest(set, Ways)

\* Slots a push releases on its way, one after the other.
Spent(t) ==
    {w \in Ways : LET v == slot[job[t].set][w] IN
                  job[t].kind = "push" /\ v.state # "empty" /\ ~Live(v, job[t].now)}

Target(t) ==
    LET j == job[t] IN
    IF j.kind = "put" THEN PutTarget(slot[j.set], j.key, j.now)
    ELSE PushTarget(slot[j.set], j.key, j.now)

WorkStoreOver(t) ==
    LET j == job[t] IN
    /\ At(t, "work") /\ j.kind \in {"put", "push"}
    /\ Step(t, IF Spent(t) # {}
               THEN [j EXCEPT !.pc = "release", !.then = "work", !.way = Min(Spent(t))]
               ELSE [j EXCEPT !.pc = "write", !.way = Target(t)])
    /\ UNCHANGED <<setup, now, stores, crashes, slot, claim, gens, held, table,
                   handle, ttl, taken>>

\* The slot that is written is released first.
WorkStore(t) ==
    LET j == job[t] IN
    /\ At(t, "work") /\ j.kind \in {"put", "push"}
    /\ Step(t, IF Spent(t) # {}
               THEN [j EXCEPT !.pc = "release", !.then = "work", !.way = Min(Spent(t))]
               ELSE [j EXCEPT !.pc = "release", !.then = "write", !.way = Target(t)])
    /\ UNCHANGED <<setup, now, stores, crashes, slot, claim, gens, held, table,
                   handle, ttl, taken>>

\* The first match decides, an expired one as a miss.
WorkRead(t) ==
    LET j == job[t]
        w == First(LAMBDA u : Matches(slot[j.set][u], j.key)) IN
    /\ At(t, "work") /\ j.kind \in {"get", "take"}
    /\ Step(t, IF w = 0 THEN [j EXCEPT !.pc = "finish"]
               ELSE IF slot[j.set][w].exp <= j.now
               THEN [j EXCEPT !.pc = "release", !.way = w, !.then = "finish"]
               ELSE [j EXCEPT !.pc = "copy", !.way = w])
    /\ UNCHANGED <<setup, now, stores, crashes, slot, claim, gens, held, table,
                   handle, ttl, taken>>

\* slot.value(), and the release of a value that is consumed.
Copy(t) ==
    LET v == Slot(t) IN
    /\ At(t, "copy")
    /\ Step(t, [job[t] EXCEPT !.len = v.len, !.val = v.bytes[1], !.then = "finish",
                    !.out = [i \in 1..ValueMax |-> IF i <= v.len THEN v.bytes[i] ELSE 0],
                    !.pc = IF job[t].kind = "take" THEN "release" ELSE "finish"])
    /\ UNCHANGED <<setup, now, stores, crashes, slot, claim, gens, held, table,
                   handle, ttl, taken>>

\* The bytes a committed entry wrote; zero when nothing can be trusted.
Extents(v) == IF v.state = "occupied" /\ v.len \in 1..ValueMax THEN v.len ELSE 0

\* release: an empty slot needs nothing, any other is first marked.
Release(t) ==
    LET v == Slot(t) IN
    /\ At(t, "release")
    /\ IF v.state = "empty"
       THEN Step(t, [job[t] EXCEPT !.pc = job[t].then]) /\ UNCHANGED slot
       ELSE /\ Put(t, [v EXCEPT !.state = "writing"])
            /\ Step(t, [job[t] EXCEPT !.pc = "erasing",
                            !.ext = IF Extents(v) = 0 THEN ValueMax ELSE Extents(v)])
    /\ UNCHANGED <<setup, now, stores, crashes, claim, gens, held, table, handle,
                   ttl, taken>>

\* The bytes of the extents, or of the whole slot; the order is not the
\* code's to say.
EraseByte(t) ==
    LET j == job[t] IN
    /\ At(t, "erasing")
    /\ Put(t, [Slot(t) EXCEPT !.bytes[j.ext] = 0])
    /\ Step(t, [j EXCEPT !.ext = @ - 1, !.pc = IF j.ext = 1 THEN "forget" ELSE @])
    /\ UNCHANGED <<setup, now, stores, crashes, claim, gens, held, table, handle,
                   ttl, taken>>

\* The metadata, which nobody trusts of a slot that is marked, and the mark.
Forget(t) ==
    LET j == job[t] IN
    /\ At(t, "forget")
    /\ Put(t, [Empty EXCEPT !.bytes = Slot(t).bytes])
    /\ Step(t, IF ~j.all THEN [j EXCEPT !.pc = j.then]
               ELSE IF j.way < NWays THEN [j EXCEPT !.pc = "erase", !.way = @ + 1]
               ELSE [j EXCEPT !.pc = j.then, !.way = 0, !.all = FALSE])
    /\ UNCHANGED <<setup, now, stores, crashes, claim, gens, held, table, handle,
                   ttl, taken>>

\* write: marked as writing, then the metadata, which nothing reads yet.
WriteBegin(t) ==
    LET j == job[t] IN
    /\ At(t, "write")
    /\ Put(t, [Slot(t) EXCEPT !.state = "writing", !.key = j.key, !.len = j.len,
                              !.ins = j.now, !.exp = j.exp])
    /\ Step(t, [j EXCEPT !.pc = "bytes", !.ext = 1])
    /\ UNCHANGED <<setup, now, stores, crashes, claim, gens, held, table, handle,
                   ttl, taken>>

WriteByte(t) ==
    LET j == job[t] IN
    /\ At(t, "bytes")
    /\ Put(t, [Slot(t) EXCEPT !.bytes[j.ext] = j.val])
    /\ Step(t, IF j.ext = j.len THEN [j EXCEPT !.pc = "commit", !.ext = 0]
               ELSE [j EXCEPT !.ext = @ + 1])
    /\ UNCHANGED <<setup, now, stores, crashes, claim, gens, held, table, handle,
                   ttl, taken>>

WriteCommit(t) ==
    /\ At(t, "commit")
    /\ Put(t, [Slot(t) EXCEPT !.state = "occupied"])
    /\ Step(t, [job[t] EXCEPT !.pc = "finish"])
    /\ UNCHANGED <<setup, now, stores, crashes, claim, gens, held, table, handle,
                   ttl, taken>>

\* clear, of every slot of the set: the whole of it, after it is marked.
EraseWay(t) ==
    /\ At(t, "erase")
    /\ Put(t, [Slot(t) EXCEPT !.state = "writing"])
    /\ Step(t, [job[t] EXCEPT !.pc = "erasing", !.ext = ValueMax, !.all = TRUE])
    /\ UNCHANGED <<setup, now, stores, crashes, claim, gens, held, table, handle,
                   ttl, taken>>

\* A client that could not decode what it got takes it out, or the next one.
Discards(j) ==
    /\ ~Shared /\ j.out # Blank /\ j.val \in setup.bad
    /\ j.kind = "get" \/ (j.kind = "take" /\ j.tries \in 1..(NWays - 1))

\* The set is free again; a reset goes on with the next one.
Finish(t) ==
    LET j == job[t]
        more == j.kind = "reset" /\ j.set < setup.sets IN
    /\ At(t, "finish")
    /\ IF Shared THEN claim' = [claim EXCEPT ![j.set] = FREE] /\ UNCHANGED table
       ELSE /\ UNCHANGED claim
            /\ table' = IF more THEN t ELSE Nobody
    /\ taken' = IF j.kind = "take" /\ j.out # Blank THEN taken \cup {j.val} ELSE taken
    /\ Step(t, IF more /\ Shared THEN [j EXCEPT !.pc = "claim", !.set = @ + 1]
               ELSE IF more THEN [j EXCEPT !.pc = "erase", !.way = 1, !.set = @ + 1]
               ELSE IF Discards(j)
               THEN [Idle EXCEPT !.pc = "claim", !.kind = "take", !.key = j.key, !.now = now,
                        !.set = j.set, !.tries = IF j.kind = "get" THEN 0 ELSE j.tries + 1]
               ELSE Idle)
    /\ UNCHANGED <<setup, now, stores, crashes, slot, gens, held, handle, ttl>>

Tick ==
    /\ now < setup.ticks
    /\ now' = now + 1
    /\ UNCHANGED <<setup, stores, crashes, slot, claim, gens, held, table, handle,
                   ttl, job, taken>>

Next ==
    \/ \E t \in setup.who :
        \/ Open(t) \/ Register(t) \/ OwnLook(t) \/ OwnTake(t) \/ OwnFree(t)
        \/ \E k \in setup.keys, n \in setup.lens :
               \/ PutBytes(t, k, n)
               \/ "put" \in setup.kinds /\ SetTls12Session(t, k, n)
               \/ InsertTls13Ticket(t, k, n)
        \/ \E k \in setup.keys :
               \/ GetBytes(t, k) \/ TakeBytes(t, k)
               \/ Tls12Session(t, k) \/ RemoveTls12Session(t, k) \/ TakeTls13Ticket(t, k)
        \/ "reset" \in setup.kinds /\ Reset(t)
        \/ Claim(t) \/ TakeBackHold(t) \/ TakeBackSwap(t) \/ TakeBackDone(t) \/ Enter(t)
        \/ WorkStore(t) \/ WorkRead(t) \/ Copy(t) \/ Release(t) \/ EraseByte(t) \/ Forget(t)
        \/ WriteBegin(t) \/ WriteByte(t) \/ WriteCommit(t) \/ EraseWay(t) \/ Finish(t)
    \/ \E h \in Handles : Close(h) \/ Crash(h) \/ \E d \in setup.ttls : SetTtl(h, d)
    \/ Tick

Spec == Init /\ [][Next]_vars

-----------------------------------------------------------------------------
\* Working in a set: its slots are this thread's alone.
Inside(t) == job[t].pc \in {"work", "copy", "release", "erasing", "forget", "write", "bytes",
                            "commit", "erase", "finish", "ownfree", "backdone"}

\* What a read answers is what one store wrote, whole, and a value that a
\* take has answered is answered to nobody else, whoever died in between
\* (session/store/claim.rs:8-11, "which is what keeps a ticket single use").
SingleUse ==
    \A t \in Threads :
        (job[t].pc \in {"release", "erasing", "forget", "finish"} /\ job[t].out # Blank) =>
            /\ \A i \in 1..job[t].len : job[t].out[i] = job[t].val
            /\ job[t].val \notin taken
            /\ \A u \in Threads \ {t} : job[u].out # Blank => job[u].val # job[t].val

\* No byte of a session is left in a slot that nobody is writing, but the
\* bytes of the entry it holds: not after a take, an expiry, a write or an
\* erasure that was cut short (SessionSlot::release, "leaving no byte of what
\* it held").
NoTrace ==
    \A s \in Sets, w \in Ways :
        LET v == slot[s][w] IN
        /\ v.state = "empty" => v = Empty
        /\ v.state = "occupied" =>
               \A i \in 1..ValueMax : v.bytes[i] # 0 <=> i <= v.len

\* A claim is always somebody's: of a thread at work in the set, or of a
\* registration whose lock says that nobody stands behind it, or is about to
\* be taken back by the registration's new holder. No set is lost for good
\* by a death (take_back, take_back_own).
NoSetStuck ==
    \A s \in Sets : claim[s] # FREE =>
        \/ \E t \in Threads :
               Inside(t) /\ job[t].set = s /\ Identity(t) = claim[s]
        \/ held[claim[s][1]] = Nobody
        \/ held[claim[s][1]] \in Threads
        \/ \E t \in Threads :
               /\ HandleOf(t) = held[claim[s][1]]
               /\ job[t].pc \in {"own", "owntake"} \/ job[t].then = "ownfree"
               /\ job[t].set <= s

\* Two stores of one key do not leave two entries of it in a table the
\* stores of which replace (session/store/claim.rs:9-11).
OneEntryPerKey ==
    Shared => \A s \in Sets : claim[s] = FREE =>
        \A v, w \in Ways : v # w /\ Live(slot[s][v], now) /\ Live(slot[s][w], now)
                           => slot[s][v].key # slot[s][w].key
=============================================================================
