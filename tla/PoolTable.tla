----------------------------- MODULE PoolTable -----------------------------
(***************************************************************************)
(* The fleet-wide pool of orbit-pool (pool/src/lib.rs, table.rs,           *)
(* layout.rs, policy.rs), for one key.                                     *)
(*                                                                         *)
(* A node registers resources in the slots of its own lane.  Any node      *)
(* reserves a unit of one, gets a lease (plain data, which may be brought  *)
(* to the owner any number of times), and the owner turns it into an       *)
(* Execution that gives the unit back.  Nothing here takes a lock across   *)
(* processes: every action below is one atomic access of the shared        *)
(* memory, and threads interleave between any two of them.                 *)
(*                                                                         *)
(* The key counts live resources and creations under way (counts), free    *)
(* units (available) and admitted requests (admitted); nodes count the     *)
(* claims and admissions they hold, and node_dead gives back those of a    *)
(* dead node.  The version of the key is reduced to whether it has moved   *)
(* since a thread took it.  Callers block (wait_capacity); the doorbells   *)
(* of asynchronous callers are not part of this module.                    *)
(***************************************************************************)
EXTENDS Integers, FiniteSets, FiniteSetsExt

CONSTANTS
    Threads, Nodes,
    NodeOf,       \* the node of each thread
    SlotCount,    \* resource slots of the table
    LaneOf,       \* the node whose lane a slot is in
    Cap,          \* capacity callers register with
    Entries,      \* PENDING_RESERVATIONS
    GenLimit,     \* GENERATION_LIMIT
    MaxLive, MinIdle, MaxIdle, MaxConcurrency,   \* what callers pass
    Mixes,        \* the operations and options used together in one run
    MaxInstalls,  \* bound: registrations
    MaxLeases,    \* bound: leases after which no attempt begins
    MaxFence,     \* bound: fences of one resource
    MaxCrashes    \* bound: deaths of nodes

Slots == 1 .. SlotCount
Entry == 1 .. Entries

ASSUME FunctionsAssumption ==
    NodeOf \in [Threads -> Nodes] /\ LaneOf \in [Slots -> Nodes]
ASSUME NumbersAssumption ==
    /\ {SlotCount, Cap, Entries, GenLimit} \subseteq Nat \ {0}
    /\ {MaxLive, MinIdle, MaxIdle, MaxConcurrency, MaxInstalls,
        MaxLeases, MaxFence, MaxCrashes} \subseteq Nat
ASSUME MixesAssumption ==
    \A m \in Mixes :
       m \subseteq {"acquire", "versionFirst", "availability", "warm", "accept",
                    "cancel", "idle", "drain", "unregister", "reconcile",
                    "admit", "timeout", "crash", "active", "attempts", "remote"}

VARIABLES
    uses,        \* the operations and options of this run
    slot,        \* the resource slots
    members,     \* KeySlot members: slots registered under the key
    key,         \* KeySlot: the counts of the key
    claims,      \* creation claims counted per node
    admissions,  \* admissions counted per node
    pc, job,     \* where each thread is, and what it works on
    permit,      \* its CreationPermit: "none", "held", or "used" to register
    admitted,    \* does it hold an AdmissionPermit?
    moved,       \* has the key changed since it took the version?
    leases,      \* leases ever handed out
    running,     \* Executions
    ran,         \* history: leases that were ever accepted
    status,      \* per node: "up", "dead" or "buried"
    life,        \* the incarnation of each node
    crashes,     \* history: deaths
    torn,        \* history: a death inside an update of the creation budget
    ended,       \* history: a resource was drained or closed
    overlapped,  \* history: a slot was reused under a thread at work on it
    stale        \* history: a reconcile wrote a number of executions that had
                 \* changed since its caller counted them

resVars  == <<slot, members>>
useVars  == <<leases, running, ran>>
heldVars == <<permit, admitted>>
nodeVars == <<claims, admissions, status, life>>
histVars == <<uses, crashes, torn, ended, overlapped, stale>>
vars == <<resVars, key, pc, job, heldVars, moved, useVars, nodeVars, histVars>>

Placing == -1
NoJob ==
    [slot |-> 0, gen |-> 0, fence |-> 0, n |-> 0, active |-> 0, aged |-> 0,
     back |-> "idle"]

EmptySlot ==
    [state |-> "empty", gen |-> 0, life |-> 0, reserved |-> 0, active |-> 0,
     fence |-> 0, pending |-> [e \in Entry |-> 0]]

Init ==
    /\ uses \in Mixes
    /\ slot = [s \in Slots |-> EmptySlot]
    /\ members = {}
    /\ key = [live |-> 0, creating |-> 0, available |-> 0, admitted |-> 0,
              waiters |-> 0]
    /\ claims = [n \in Nodes |-> 0] /\ admissions = [n \in Nodes |-> 0]
    /\ pc = [t \in Threads |-> "idle"] /\ job = [t \in Threads |-> NoJob]
    /\ permit = [t \in Threads |-> "none"]
    /\ admitted = [t \in Threads |-> FALSE]
    /\ moved = [t \in Threads |-> FALSE]
    /\ leases = {} /\ running = {} /\ ran = {}
    /\ status = [n \in Nodes |-> "up"] /\ life = [n \in Nodes |-> 1]
    /\ crashes = 0 /\ torn = FALSE /\ ended = FALSE
    /\ overlapped = FALSE /\ stale = FALSE

-----------------------------------------------------------------------------
(***************************************************************************)
(* Helpers                                                                 *)
(***************************************************************************)

\* saturating_sub
Less(a, b) == IF a > b THEN a - b ELSE 0

Goes(t, s) == pc' = [pc EXCEPT ![t] = s]

\* A thread that is at a goes to b.
Moves(t, a, b) == pc[t] = a /\ Goes(t, b)

\* An operation of the mix begins at b.
Starts(t, op, b) ==
    status[NodeOf[t]] = "up" /\ op \in uses /\ Moves(t, "idle", b)

Works(t, j) == job' = [job EXCEPT ![t] = j]

S(t) == job[t].slot

\* The lease, or the execution of the lease, that a job is about.
Lease(j) == [slot |-> j.slot, gen |-> j.gen, fence |-> j.fence]

\* ResourceSlot::is
Is(s, g) == slot[s].state \in {"live", "draining"} /\ slot[s].gen = g

\* Pool::owned
Owned(t, s, g) ==
    /\ Is(s, g)
    /\ LaneOf[s] = NodeOf[t] /\ slot[s].life = life[NodeOf[t]]

FreeOf(s) == Less(Cap, slot[s].reserved + slot[s].active)

\* The threads that chose slot s, and those of them that depend on it staying
\* what it is: they hold a unit of it, or have checked its generation.
At(s) == {t \in Threads : pc[t] # "idle" /\ S(t) = s}
Dependent(s) ==
    {t \in At(s) : pc[t] \notin {"scan", "decide", "reserve", "take", "unit",
                                "giveAvailable", "bury"}}

Availability == "availability" \in uses

\* The thread goes from a to b, and only its own place changes.
Steps(t, a, b) ==
    /\ Moves(t, a, b)
    /\ UNCHANGED <<resVars, key, job, heldVars, moved, useVars, nodeVars,
                   histVars>>

\* The thread goes from a to b and changes the counts of the key.
Counts(t, a, b, k) ==
    /\ Moves(t, a, b)
    /\ key' = k
    /\ UNCHANGED <<resVars, job, heldVars, moved, useVars, nodeVars, histVars>>

\* The thread goes from a to b and changes the slot it works on.
Changes(t, a, b, r) ==
    /\ Moves(t, a, b)
    /\ slot' = [slot EXCEPT ![S(t)] = r]
    /\ UNCHANGED <<members, key, job, heldVars, moved, useVars, nodeVars,
                   histVars>>

-----------------------------------------------------------------------------
(***************************************************************************)
(* key_changed_with: count the change, then wake one waiter or all         *)
(***************************************************************************)

Notify(t) ==
    /\ \/ Moves(t, "notifyAll", "ringAll") \/ Moves(t, "notifyOne", "ringOne")
    /\ moved' = [w \in Threads |-> TRUE]
    /\ UNCHANGED <<resVars, key, job, heldVars, useVars, nodeVars, histVars>>

Asleep == {w \in Threads : pc[w] = "asleep"}

\* Who is woken when the caller wakes one waiter, or all of them.
Woken(t) ==
    IF key.waiters = 0 \/ Asleep = {} THEN {{}}
    ELSE IF pc[t] = "ringOne" THEN {{w} : w \in Asleep} ELSE {Asleep}

\* The operation is over, unless it is one step of a longer one.
Ring(t) ==
    /\ pc[t] \in {"ringAll", "ringOne"}
    /\ \E W \in Woken(t) :
          pc' = [w \in Threads |-> IF w = t THEN job[t].back
                                   ELSE IF w \in W THEN "leave" ELSE pc[w]]
    /\ IF job[t].back = "idle" THEN Works(t, NoJob) ELSE UNCHANGED job
    /\ UNCHANGED <<resVars, key, heldVars, moved, useVars, nodeVars, histVars>>

-----------------------------------------------------------------------------
(***************************************************************************)
(* acquire: snapshot, LocalFirst, then reserve, claim or wait.  A caller   *)
(* either takes the version before the attempt (versionFirst), or waits on *)
(* the one that Plan::Wait carries, which acquire takes at its end.  With  *)
(* "remote" (a bound) a node that owns a resource leaves acquiring to      *)
(* others.                                                                 *)
(***************************************************************************)

First == "versionFirst" \in uses

\* Where an attempt begins, and where one that found nothing goes.
Begin == IF First THEN "version" ELSE "scan"
GiveUp == IF First THEN "wait" ELSE "version"

Scan1 == [NoJob EXCEPT !.n = 1]

Attempt(t) ==
    /\ permit[t] = "none" /\ Cardinality(leases) < MaxLeases
    /\ "remote" \in uses => \A s \in members : LaneOf[s] # NodeOf[t]
    /\ Starts(t, "acquire", Begin)
    /\ Works(t, Scan1)
    /\ UNCHANGED <<resVars, key, heldVars, moved, useVars, nodeVars, histVars>>

TakeVersion(t) ==
    /\ Moves(t, "version", IF First THEN "scan" ELSE "wait")
    /\ moved' = [moved EXCEPT ![t] = FALSE]
    /\ UNCHANGED <<resVars, key, job, heldVars, useVars, nodeVars, histVars>>

Usable(s) == s \in members /\ slot[s].state = "live" /\ FreeOf(s) > 0

\* Does LocalFirst take candidate s, having taken c so far?  Which of two
\* local ones, or two remote ones, depends on load and time and is left open.
Prefers(t, s, c) ==
    IF c = 0 \/ (LaneOf[s] = NodeOf[t] /\ LaneOf[c] # NodeOf[t])
    THEN {TRUE}
    ELSE IF LaneOf[s] # NodeOf[t] /\ LaneOf[c] = NodeOf[t] THEN {FALSE}
    ELSE BOOLEAN

\* candidates() reads one slot after the other.
Scan(t) ==
    LET s == job[t].n IN
    /\ Moves(t, "scan", IF s = SlotCount THEN "decide" ELSE "scan")
    /\ \E p \in IF Usable(s) THEN Prefers(t, s, S(t)) ELSE {FALSE} :
          Works(t, IF p THEN [job[t] EXCEPT !.n = s + 1, !.slot = s,
                                            !.gen = slot[s].gen]
                   ELSE [job[t] EXCEPT !.n = s + 1])
    /\ UNCHANGED <<resVars, key, heldVars, moved, useVars, nodeVars, histVars>>

\* live + creating < max_live
InBudget == key.live + key.creating < MaxLive

\* budget(), and what LocalFirst makes of it.
Decide(t) ==
    Steps(t, "decide", IF S(t) # 0 THEN "reserve"
                       ELSE IF InBudget THEN "claim"
                       ELSE GiveUp)

\* A lost race: another attempt, or none are left and the answer is Wait.
Loses(t) ==
    /\ \/ Goes(t, "scan")
       \/ "attempts" \in uses /\ Goes(t, GiveUp)
    /\ Works(t, Scan1)

CheckState(t) ==
    /\ pc[t] = "reserve" /\ slot[S(t)].fence < MaxFence
    /\ IF slot[S(t)].state = "live" THEN Goes(t, "take") /\ UNCHANGED job
       ELSE Loses(t)
    /\ UNCHANGED <<resVars, key, heldVars, moved, useVars, nodeVars, histVars>>

TakeAvailable(t) ==
    /\ pc[t] = "take"
    /\ IF ~Availability THEN Goes(t, "unit") /\ UNCHANGED <<job, key>>
       ELSE IF key.available > 0
       THEN /\ key' = [key EXCEPT !.available = @ - 1]
            /\ Goes(t, "unit") /\ UNCHANGED job
       ELSE Loses(t) /\ UNCHANGED key
    /\ UNCHANGED <<resVars, heldVars, moved, useVars, nodeVars, histVars>>

HasRoom(s) == slot[s].reserved + slot[s].active < Cap

TakeUnit(t) ==
    /\ pc[t] = "unit"
    /\ IF HasRoom(S(t))
       THEN Changes(t, "unit", "still", [slot[S(t)] EXCEPT !.reserved = @ + 1])
       ELSE Steps(t, "unit", "giveAvailable")

\* "The slot may have ended between the state check and the count."
StillThere(t) ==
    Steps(t, "still", IF Is(S(t), job[t].gen) THEN "mint" ELSE "giveUnit")

Mint(t) ==
    /\ Moves(t, "mint", "place")
    /\ slot' = [slot EXCEPT ![S(t)].fence = @ + 1]
    /\ Works(t, [job[t] EXCEPT !.fence = slot[S(t)].fence + 1, !.n = 1])
    /\ UNCHANGED <<members, key, heldVars, moved, useVars, nodeVars, histVars>>

\* Claim a free entry, the first one seen; none free gives the unit back.
Place(t) ==
    LET e == job[t].n IN
    /\ pc[t] = "place"
    /\ IF slot[S(t)].pending[e] = 0
       THEN Changes(t, "place", "publish",
                    [slot[S(t)] EXCEPT !.pending[e] = Placing])
       ELSE /\ Goes(t, IF e < Entries THEN "place" ELSE "giveUnit")
            /\ Works(t, [job[t] EXCEPT !.n = e + 1])
            /\ UNCHANGED <<resVars, key, heldVars, moved, useVars, nodeVars,
                           histVars>>

\* Publish the fence; the caller has its lease.
Publish(t) ==
    /\ Moves(t, "publish", "idle")
    /\ slot' = [slot EXCEPT ![S(t)].pending[job[t].n] = job[t].fence]
    /\ leases' = leases \cup
          {[of |-> Lease(job[t]), node |-> NodeOf[t], life |-> life[NodeOf[t]]]}
    /\ Works(t, NoJob)
    /\ UNCHANGED <<members, key, heldVars, moved, running, ran, nodeVars,
                   histVars>>

GiveUnit(t) ==
    Changes(t, "giveUnit", "giveAvailable",
            [slot[S(t)] EXCEPT !.reserved = Less(@, 1)])

\* reserve answers Busy or Stale, and rings nobody; cancel_reservation rings.
GiveAvailable(t) ==
    /\ pc[t] = "giveAvailable"
    /\ key' = IF Availability THEN [key EXCEPT !.available = @ + 1] ELSE key
    /\ IF job[t].back = "cancelled"
       THEN Goes(t, "notifyOne") /\ Works(t, NoJob)
       ELSE Loses(t)
    /\ UNCHANGED <<resVars, heldVars, moved, useVars, nodeVars, histVars>>

\* cancel_reservation: the holder takes its own fence back.  The slot is
\* located by its index; nothing asks for its generation.
Cancel(t) ==
    /\ \E l \in leases :
          /\ l.node = NodeOf[t] /\ l.life = life[NodeOf[t]]
          /\ \E e \in Entry :
                /\ slot[l.of.slot].pending[e] = l.of.fence
                /\ slot' = [slot EXCEPT ![l.of.slot].pending[e] = 0]
          /\ Works(t, [NoJob EXCEPT !.slot = l.of.slot, !.back = "cancelled"])
    /\ Starts(t, "cancel", "giveUnit")
    /\ UNCHANGED <<members, key, heldVars, moved, useVars, nodeVars, histVars>>

-----------------------------------------------------------------------------
(***************************************************************************)
(* claim_create, claim_warm, registration, and the end of a claim          *)
(***************************************************************************)

ClaimWarm(t) ==
    /\ Availability /\ permit[t] = "none"
    /\ Starts(t, "warm", "claim")
    /\ Works(t, [NoJob EXCEPT !.back = "warm"])
    /\ UNCHANGED <<resVars, key, heldVars, moved, useVars, nodeVars, histVars>>

Claim(t) ==
    /\ pc[t] = "claim"
    /\ IF InBudget
       THEN /\ key' = [key EXCEPT !.creating = @ + 1]
            /\ Goes(t, "countClaim") /\ UNCHANGED job
       ELSE /\ UNCHANGED key
            /\ IF job[t].back = "warm" THEN Goes(t, "idle") /\ Works(t, NoJob)
               ELSE Loses(t)
    /\ UNCHANGED <<resVars, heldVars, moved, useVars, nodeVars, histVars>>

CountClaim(t) ==
    /\ claims' = [claims EXCEPT ![NodeOf[t]] = @ + 1]
    /\ permit' = [permit EXCEPT ![t] = "held"]
    /\ IF job[t].back = "warm" THEN Moves(t, "countClaim", "warmBudget")
                                    /\ UNCHANGED job
       ELSE Moves(t, "countClaim", "idle") /\ Works(t, NoJob)
    /\ UNCHANGED <<resVars, key, admitted, moved, useVars, admissions, status,
                   life, histVars>>

WarmBudget(t) ==
    /\ Moves(t, "warmBudget", "warmCheck")
    /\ Works(t, [job[t] EXCEPT !.n = key.creating])
    /\ UNCHANGED <<resVars, key, heldVars, moved, useVars, nodeVars, histVars>>

FloorShort(t) == key.available + job[t].n <= MinIdle

\* The floor is short and the permit is kept, or it is dropped.
WarmCheck(t) ==
    /\ Moves(t, "warmCheck", IF FloorShort(t) THEN "idle" ELSE "unclaim")
    /\ Works(t, NoJob)
    /\ UNCHANGED <<resVars, key, heldVars, moved, useVars, nodeVars, histVars>>

\* What install leaves in a slot; register_active counts one unit as in use.
Installed(s, t, a) ==
    [EmptySlot EXCEPT !.state = "live", !.gen = slot[s].gen + 1,
                      !.life = life[NodeOf[t]], !.active = a]

\* allocate and install, under the lane's own lock, and the unit of
\* register_active, which nobody can see before the slot is a member.
Install(t) ==
    /\ permit[t] = "held"
    /\ MapThenSumSet(LAMBDA s : slot[s].gen, Slots) < MaxInstalls
    /\ \E s \in Slots, a \in IF "active" \in uses THEN {0, 1} ELSE {0} :
          /\ LaneOf[s] = NodeOf[t] /\ slot[s].state \in {"empty", "closed"}
          /\ slot[s].gen < GenLimit
          /\ slot' = [slot EXCEPT ![s] = Installed(s, t, a)]
          /\ Works(t, [NoJob EXCEPT !.slot = s, !.gen = slot[s].gen + 1,
                                    !.n = a])
          /\ overlapped' = (overlapped \/ Dependent(s) # {})
    /\ permit' = [permit EXCEPT ![t] = "used"]
    /\ Moves(t, "idle", "join")
    /\ UNCHANGED <<members, key, admitted, moved, useVars, nodeVars, uses,
                   crashes, torn, ended, stale>>

\* allocate meets a slot at the end of its generations, which is never used
\* again, and goes on to the next one; with none left it answers Full and the
\* caller drops its permit.
Exhaust(t) ==
    /\ permit[t] = "held" /\ pc[t] = "idle"
    /\ \E s \in Slots :
          /\ LaneOf[s] = NodeOf[t] /\ slot[s].state = "closed"
          /\ slot[s].gen = GenLimit
          /\ slot' = [slot EXCEPT ![s].state = "exhausted"]
    /\ UNCHANGED <<members, key, pc, job, heldVars, moved, useVars, nodeVars,
                   histVars>>

Join(t) ==
    /\ Moves(t, "join", "offer")
    /\ members' = members \cup {S(t)}
    /\ UNCHANGED <<slot, key, job, heldVars, moved, useVars, nodeVars, histVars>>

OfferedBy(t) == Cap - job[t].n

Offer(t) ==
    Counts(t, "offer", "countLive",
           IF Availability THEN [key EXCEPT !.available = @ + OfferedBy(t)]
           ELSE key)

\* The resource is counted; register_active has its Execution.
CountLive(t) ==
    /\ Moves(t, "countLive", "notifyAll")
    /\ key' = [key EXCEPT !.live = @ + 1]
    /\ running' = running \cup (IF job[t].n = 1 THEN {Lease(job[t])} ELSE {})
    /\ Works(t, NoJob)
    /\ UNCHANGED <<resVars, heldVars, moved, leases, ran, nodeVars, histVars>>

\* A CreationPermit is dropped: first the count of the key, then the node's.
Unclaim(t) ==
    /\ permit[t] # "none" /\ pc[t] \in {"idle", "unclaim"}
    /\ key' = [key EXCEPT !.creating = Less(@, 1)]
    /\ permit' = [permit EXCEPT ![t] = "none"]
    /\ Goes(t, "unholdClaim")
    /\ UNCHANGED <<resVars, job, admitted, moved, useVars, nodeVars, histVars>>

UnholdClaim(t) ==
    /\ Moves(t, "unholdClaim", "notifyOne")
    /\ claims' = [claims EXCEPT ![NodeOf[t]] = Less(@, 1)]
    /\ UNCHANGED <<resVars, key, job, heldVars, moved, useVars, admissions,
                   status, life, histVars>>

-----------------------------------------------------------------------------
(***************************************************************************)
(* The owner: accept, Execution::finish, drain, unregister, reconcile      *)
(***************************************************************************)

\* accept: the checks.
Accept(t) ==
    /\ \E l \in leases :
          /\ Owned(t, l.of.slot, l.of.gen) /\ slot[l.of.slot].state = "live"
          /\ Works(t, [NoJob EXCEPT !.slot = l.of.slot, !.gen = l.of.gen,
                                    !.fence = l.of.fence])
    /\ Starts(t, "accept", "takeFence")
    /\ UNCHANGED <<resVars, key, heldVars, moved, useVars, nodeVars, histVars>>

\* The entry keeps its fence (a mutation of Taken).
Left(f) == f

\* The entry, once its fence is taken out.
Taken(f) == 0

\* "The fence leaves the pending set here or the lease is not ours to run."
TakeFence(t) ==
    /\ pc[t] = "takeFence"
    /\ IF \E e \in Entry : slot[S(t)].pending[e] = job[t].fence
       THEN /\ \E e \in Entry :
                 /\ slot[S(t)].pending[e] = job[t].fence
                 /\ slot' = [slot EXCEPT ![S(t)].pending[e] = Taken(@)]
            /\ ran' = ran \cup {Lease(job[t])}
            /\ Goes(t, "activate") /\ UNCHANGED job
       ELSE Goes(t, "idle") /\ Works(t, NoJob) /\ UNCHANGED <<slot, ran>>
    /\ UNCHANGED <<members, key, heldVars, moved, leases, running, nodeVars,
                   histVars>>

\* The unit is counted as active, and still as reserved (a mutation of Moved).
MovedOnly(r) == [r EXCEPT !.active = @ + 1]

\* The unit moves from reserved to active.
Moved(r) == [r EXCEPT !.reserved = Less(@, 1), !.active = @ + 1]

Activate(t) ==
    /\ Moves(t, "activate", "idle")
    /\ slot' = [slot EXCEPT ![S(t)] = Moved(@)]
    /\ running' = running \cup {Lease(job[t])}
    /\ Works(t, NoJob)
    /\ UNCHANGED <<members, key, heldVars, moved, leases, ran, nodeVars,
                   histVars>>

\* finish: an execution of a resource that is gone has nothing to give back.
\* Of a live one, the unit is offered again, under the idle ceiling or without
\* one; of a draining one it is not.
Finish(t) ==
    /\ pc[t] = "idle" /\ status[NodeOf[t]] = "up"
    /\ \E x \in running :
          /\ LaneOf[x.slot] = NodeOf[t]
          /\ running' = running \ {x}
          /\ IF ~Is(x.slot, x.gen) THEN UNCHANGED <<pc, job>>
             ELSE /\ Works(t, [NoJob EXCEPT !.slot = x.slot, !.gen = x.gen])
                  /\ IF slot[x.slot].state = "draining" THEN Goes(t, "release")
                     ELSE \/ Goes(t, "offerBack")
                          \/ /\ Availability /\ "idle" \in uses
                             /\ Goes(t, "retain")
    /\ UNCHANGED <<resVars, key, heldVars, moved, leases, ran, nodeVars,
                   histVars>>

OfferBack(t) ==
    Counts(t, "offerBack", "release",
           IF Availability THEN [key EXCEPT !.available = @ + 1] ELSE key)

\* retain_available_below: refused at the ceiling, and then the unit stays
\* counted until the owner retires the resource.
Retain(t) ==
    \/ /\ key.available < MaxIdle
       /\ Counts(t, "retain", "release", [key EXCEPT !.available = @ + 1])
    \/ /\ key.available >= MaxIdle
       /\ Steps(t, "retain", "notifyOne")

Release(t) ==
    Changes(t, "release", "notifyOne",
            [slot[S(t)] EXCEPT !.active = Less(@, 1)])

Drain(t) ==
    /\ \E s \in members :
          /\ Owned(t, s, slot[s].gen)
          /\ Works(t, [NoJob EXCEPT !.slot = s])
    /\ Starts(t, "drain", "drain")
    /\ UNCHANGED <<resVars, key, heldVars, moved, useVars, nodeVars, histVars>>

\* Only a live resource starts to drain; nobody is told.
DrainState(t) ==
    LET live == slot[S(t)].state = "live" IN
    /\ Moves(t, "drain", "idle")
    /\ slot' = IF live THEN [slot EXCEPT ![S(t)].state = "draining"] ELSE slot
    /\ ended' = (ended \/ live)
    /\ Works(t, NoJob)
    /\ UNCHANGED <<members, key, heldVars, moved, useVars, nodeVars, uses,
                   crashes, torn, overlapped, stale>>

Unregister(t) ==
    /\ \E s \in members :
          /\ Owned(t, s, slot[s].gen)
          /\ Works(t, [NoJob EXCEPT !.slot = s])
    /\ Starts(t, "unregister", "close")
    /\ UNCHANGED <<resVars, key, heldVars, moved, useVars, nodeVars, histVars>>

\* close_resource: only one caller takes the slot out of its states.
Close(t) ==
    /\ pc[t] = "close"
    /\ IF slot[S(t)].state \in {"live", "draining"}
       THEN /\ Goes(t, "quit")
            /\ slot' = [slot EXCEPT ![S(t)].state = "closed"]
            /\ ended' = TRUE /\ UNCHANGED job
       ELSE /\ Goes(t, job[t].back) /\ UNCHANGED <<slot, ended>>
            /\ IF job[t].back = "idle" THEN Works(t, NoJob) ELSE UNCHANGED job
    /\ UNCHANGED <<members, key, heldVars, moved, useVars, nodeVars, uses,
                   crashes, torn, overlapped, stale>>

Quit(t) ==
    /\ Moves(t, "quit", "readUnits")
    /\ members' = members \ {S(t)}
    /\ UNCHANGED <<slot, key, job, heldVars, moved, useVars, nodeVars, histVars>>

ReadUnits(t) ==
    /\ Moves(t, "readUnits", "withdraw")
    /\ Works(t, [job[t] EXCEPT !.n = FreeOf(S(t))])
    /\ UNCHANGED <<resVars, key, heldVars, moved, useVars, nodeVars, histVars>>

Withdraw(t) ==
    Counts(t, "withdraw", "uncountLive",
           IF Availability
           THEN [key EXCEPT !.available = Less(@, job[t].n)] ELSE key)

UncountLive(t) ==
    Counts(t, "uncountLive", "notifyAll", [key EXCEPT !.live = Less(@, 1)])

\* Work the owner runs on what is now in slot s.
Executions(s) ==
    Cardinality({x \in running : x.slot = s /\ x.gen = slot[s].gen})

\* reconcile: the caller brings the number of executions it has counted.
Reconcile(t) ==
    /\ \E s \in members :
          /\ Owned(t, s, slot[s].gen)
          /\ Works(t, [NoJob EXCEPT !.slot = s, !.gen = slot[s].gen, !.n = 1,
                                    !.active = Executions(s)])
    /\ Starts(t, "reconcile", "age")
    /\ UNCHANGED <<resVars, key, heldVars, moved, useVars, nodeVars, histVars>>

\* The next entry: a published reservation that is past the grace is taken out.
\* Which ones are past it is left open.
Age(t) ==
    LET e == job[t].n
        f == slot[S(t)].pending[e]
    IN /\ Moves(t, "age", IF e = Entries THEN "settle" ELSE "age")
       /\ \E old \in IF f \in {0, Placing} THEN {0} ELSE {0, 1} :
             /\ slot' = IF old = 1 THEN [slot EXCEPT ![S(t)].pending[e] = 0]
                        ELSE slot
             /\ Works(t, [job[t] EXCEPT !.n = e + 1, !.aged = @ + old])
       /\ UNCHANGED <<members, key, heldVars, moved, useVars, nodeVars,
                      histVars>>

\* The threads that have yet to take the unit of an execution that is over off
\* the active count of s.
Finishing(s) == {t \in At(s) : pc[t] \in {"offerBack", "retain", "release"}}

\* The unit counts become the caller's; n is now what that frees.
Settle(t) ==
    LET s == S(t)
        kept == Less(slot[s].reserved, job[t].aged)
    IN /\ Moves(t, "settle", "agree")
       /\ slot' = [slot EXCEPT ![s].reserved = kept,
                               ![s].active = job[t].active]
       /\ Works(t, [job[t] EXCEPT !.n = Less(Cap, kept + job[t].active)
                                        - FreeOf(s)])
       /\ stale' = (stale \/ job[t].active
                                # Executions(s) + Cardinality(Finishing(s)))
       /\ UNCHANGED <<members, key, heldVars, moved, useVars, nodeVars, uses,
                      crashes, torn, ended, overlapped>>

Agree(t) ==
    /\ Moves(t, "agree", IF job[t].n > 0 THEN "notifyAll" ELSE "idle")
    /\ key' = IF ~Availability THEN key
              ELSE IF job[t].n > 0 THEN [key EXCEPT !.available = @ + job[t].n]
              ELSE [key EXCEPT !.available = Less(@, -job[t].n)]
    /\ Works(t, NoJob)
    /\ UNCHANGED <<resVars, heldVars, moved, useVars, nodeVars, histVars>>

-----------------------------------------------------------------------------
(***************************************************************************)
(* admit, and the drop of an AdmissionPermit                               *)
(***************************************************************************)

Admit(t) ==
    /\ ~admitted[t] /\ key.admitted < MaxConcurrency
    /\ Starts(t, "admit", "holdAdmission")
    /\ key' = [key EXCEPT !.admitted = @ + 1]
    /\ UNCHANGED <<resVars, job, heldVars, moved, useVars, nodeVars, histVars>>

HoldAdmission(t) ==
    /\ Moves(t, "holdAdmission", "idle")
    /\ admissions' = [admissions EXCEPT ![NodeOf[t]] = @ + 1]
    /\ admitted' = [admitted EXCEPT ![t] = TRUE]
    /\ UNCHANGED <<resVars, key, job, permit, moved, useVars, claims, status,
                   life, histVars>>

\* The order of CreationPermit's drop (a mutation of DropAdmission).
DropAdmissionKeyFirst(t) ==
    /\ admitted[t] /\ admissions[NodeOf[t]] > 0
    /\ Moves(t, "idle", "unadmitNode")
    /\ key' = [key EXCEPT !.admitted = Less(@, 1)]
    /\ admitted' = [admitted EXCEPT ![t] = FALSE]
    /\ UNCHANGED <<resVars, job, permit, moved, useVars, nodeVars, histVars>>

\* First the node's count, then the key's: a death between the two keeps a
\* unit, and never gives one back twice.
DropAdmission(t) ==
    /\ admitted[t] /\ admissions[NodeOf[t]] > 0
    /\ Moves(t, "idle", "unadmit")
    /\ admissions' = [admissions EXCEPT ![NodeOf[t]] = @ - 1]
    /\ admitted' = [admitted EXCEPT ![t] = FALSE]
    /\ UNCHANGED <<resVars, key, job, permit, moved, useVars, claims, status,
                   life, histVars>>

Unadmit(t) ==
    Counts(t, "unadmit", "notifyOne", [key EXCEPT !.admitted = Less(@, 1)])

-----------------------------------------------------------------------------
(***************************************************************************)
(* wait_capacity and wait_capacity_timeout                                 *)
(***************************************************************************)

\* Changed: try again.  Not changed: count in as a waiter.
Wait(t) ==
    IF moved[t]
    THEN /\ Moves(t, "wait", Begin) /\ Works(t, Scan1)
         /\ UNCHANGED <<resVars, key, heldVars, moved, useVars, nodeVars,
                        histVars>>
    ELSE Counts(t, "wait", "park", [key EXCEPT !.waiters = @ + 1])

\* A park that does not compare the word (a mutation of MayPark).
MayParkAlways(t) == TRUE

\* The word still has the value waited on: looked at before the call, and
\* again by the kernel.
MayPark(t) == ~moved[t]

Park(t) == Steps(t, "park", IF MayPark(t) THEN "asleep" ELSE "leave")

Leave(t) == Counts(t, "leave", "wait", [key EXCEPT !.waiters = @ - 1])

\* The deadline passes; what the last look finds is the caller's answer.
TimeOut(t) ==
    /\ "timeout" \in uses
    /\ Moves(t, "asleep", "idle")
    /\ key' = [key EXCEPT !.waiters = @ - 1]
    /\ Works(t, NoJob)
    /\ UNCHANGED <<resVars, heldVars, moved, useVars, nodeVars, histVars>>

-----------------------------------------------------------------------------
(***************************************************************************)
(* Death of a node, and node_dead                                          *)
(***************************************************************************)

Of(n) == {t \in Threads : NodeOf[t] = n}

\* Where a death leaves the creation budget counting less than there is: a
\* permit given back once that node_dead gives back again, a resource that
\* node_dead uncounts though it was never counted.
Tears(n) ==
    \E t \in Of(n) : pc[t] \in {"unholdClaim", "join", "offer", "countLive"}

\* One death at a time: the next one waits until node_dead is over.
Crash(n) ==
    /\ "crash" \in uses /\ crashes < MaxCrashes
    /\ \A m \in Nodes : status[m] = "up"
    /\ status' = [status EXCEPT ![n] = "dead"]
    /\ crashes' = crashes + 1
    /\ torn' = (torn \/ Tears(n))
    /\ pc' = [t \in Threads |-> IF t \in Of(n) THEN "idle" ELSE pc[t]]
    /\ job' = [t \in Threads |-> IF t \in Of(n) THEN NoJob ELSE job[t]]
    /\ permit' = [t \in Threads |-> IF t \in Of(n) THEN "none" ELSE permit[t]]
    /\ admitted' = [t \in Threads |-> t \notin Of(n) /\ admitted[t]]
    /\ running' = {x \in running : LaneOf[x.slot] # n}
    /\ UNCHANGED <<resVars, key, moved, leases, ran, claims, admissions, life,
                   uses, ended, overlapped, stale>>

\* node_dead begins, at the first resource; one supervisor reports a death.
NodeDead(t) ==
    /\ \E n \in Nodes : status[n] = "dead"
    /\ \A u \in Threads : job[u].back \notin {"bury", "swapAdmissions"}
    /\ Starts(t, "crash", "bury")
    /\ Works(t, [NoJob EXCEPT !.back = "bury"])
    /\ UNCHANGED <<resVars, key, heldVars, moved, useVars, nodeVars, histVars>>

Victim == CHOOSE n \in Nodes : status[n] = "dead"

Estate == {s \in Slots : /\ slot[s].state \in {"live", "draining"}
                         /\ LaneOf[s] = Victim /\ slot[s].life = life[Victim]}

\* The next resource of the dead incarnation is closed; then the claims.
Bury(t) ==
    \/ /\ pc[t] = "bury" /\ Estate # {}
       /\ Goes(t, "close")
       /\ Works(t, [job[t] EXCEPT !.slot = Min(Estate)])
       /\ UNCHANGED <<resVars, key, heldVars, moved, useVars, nodeVars,
                      histVars>>
    \/ /\ pc[t] = "bury" /\ Estate = {}
       /\ Goes(t, IF claims[Victim] = 0 THEN "swapAdmissions"
                  ELSE "returnClaims")
       /\ Works(t, [job[t] EXCEPT !.slot = 0, !.n = claims[Victim],
                                  !.back = "swapAdmissions"])
       /\ claims' = [claims EXCEPT ![Victim] = 0]
       /\ UNCHANGED <<resVars, key, heldVars, moved, useVars, admissions,
                      status, life, histVars>>

ReturnClaims(t) ==
    Counts(t, "returnClaims", "notifyAll",
           [key EXCEPT !.creating = Less(@, job[t].n)])

\* The admissions of the node, and node_dead is done with them.
SwapAdmissions(t) ==
    /\ Moves(t, "swapAdmissions", IF admissions[Victim] = 0 THEN "idle"
                                  ELSE "returnAdmissions")
    /\ Works(t, [NoJob EXCEPT !.n = admissions[Victim]])
    /\ admissions' = [admissions EXCEPT ![Victim] = 0]
    /\ status' = [status EXCEPT ![Victim] = "buried"]
    /\ UNCHANGED <<resVars, key, heldVars, moved, useVars, claims, life,
                   histVars>>

ReturnAdmissions(t) ==
    /\ Moves(t, "returnAdmissions", "notifyAll")
    /\ key' = [key EXCEPT !.admitted = Less(@, job[t].n)]
    /\ Works(t, NoJob)
    /\ UNCHANGED <<resVars, heldVars, moved, useVars, nodeVars, histVars>>

\* Its supervisor starts the node again, once its death was dealt with.
Restart(n) ==
    /\ status[n] = "buried"
    /\ status' = [status EXCEPT ![n] = "up"]
    /\ life' = [life EXCEPT ![n] = @ + 1]
    /\ UNCHANGED <<resVars, key, pc, job, heldVars, moved, useVars, claims,
                   admissions, histVars>>

-----------------------------------------------------------------------------
Next ==
    \/ \E t \in Threads :
          \/ Notify(t) \/ Ring(t)
          \/ Attempt(t) \/ TakeVersion(t) \/ Scan(t) \/ Decide(t)
          \/ CheckState(t) \/ TakeAvailable(t) \/ TakeUnit(t) \/ StillThere(t)
          \/ Mint(t) \/ Place(t) \/ Publish(t)
          \/ GiveUnit(t) \/ GiveAvailable(t) \/ Cancel(t)
          \/ ClaimWarm(t) \/ Claim(t) \/ CountClaim(t)
          \/ WarmBudget(t) \/ WarmCheck(t)
          \/ Install(t) \/ Exhaust(t) \/ Join(t) \/ Offer(t) \/ CountLive(t)
          \/ Unclaim(t) \/ UnholdClaim(t)
          \/ Accept(t) \/ TakeFence(t) \/ Activate(t)
          \/ Finish(t) \/ OfferBack(t) \/ Retain(t) \/ Release(t)
          \/ Drain(t) \/ DrainState(t) \/ Unregister(t) \/ Close(t) \/ Quit(t)
          \/ ReadUnits(t) \/ Withdraw(t) \/ UncountLive(t)
          \/ Reconcile(t) \/ Age(t) \/ Settle(t) \/ Agree(t)
          \/ Admit(t) \/ HoldAdmission(t) \/ DropAdmission(t) \/ Unadmit(t)
          \/ Wait(t) \/ Park(t) \/ Leave(t) \/ TimeOut(t)
          \/ NodeDead(t) \/ Bury(t) \/ ReturnClaims(t) \/ SwapAdmissions(t)
          \/ ReturnAdmissions(t)
    \/ \E n \in Nodes : Crash(n) \/ Restart(n)

Spec == Init /\ [][Next]_vars

-----------------------------------------------------------------------------
(***************************************************************************)
(* Properties                                                              *)
(***************************************************************************)

LeaseType == [slot : Slots, gen : 1 .. GenLimit, fence : Nat]
SlotType ==
    [state : {"empty", "live", "draining", "closed", "exhausted"},
     gen : 0 .. GenLimit, life : Nat, reserved : Nat, active : Nat,
     fence : Nat, pending : [Entry -> Nat \cup {Placing}]]

\* Type correctness: the counts of the key, the slots and the nodes are never
\* negative, so every subtraction of the code that is not saturating is safe.
TypeOK ==
    /\ uses \in Mixes
    /\ slot \in [Slots -> SlotType] /\ members \subseteq Slots
    /\ key \in [live : Nat, creating : Nat, available : Nat, admitted : Nat,
                waiters : Nat]
    /\ claims \in [Nodes -> Nat] /\ admissions \in [Nodes -> Nat]
    /\ \A t \in Threads : S(t) \in Slots \cup {0} /\ job[t].n \in Int
    /\ permit \in [Threads -> {"none", "held", "used"}]
    /\ admitted \in [Threads -> BOOLEAN] /\ moved \in [Threads -> BOOLEAN]
    /\ leases \subseteq [of : LeaseType, node : Nodes, life : Nat]
    /\ running \subseteq LeaseType /\ ran \subseteq LeaseType
    /\ status \in [Nodes -> {"up", "dead", "buried"}]
    /\ life \in [Nodes -> Nat] /\ crashes \in 0 .. MaxCrashes

\* Thread t takes a lease that was accepted before.
AcceptsAgain(t) ==
    pc[t] = "takeFence" /\ pc'[t] = "activate" /\ Lease(job[t]) \in ran

\* A lease that ran is not in the pending set, where it could be accepted once
\* more, though fences start again at 0 when its slot is used again.
RanNotPending ==
    ~overlapped =>
       ~\E x \in ran : /\ slot[x.slot].gen = x.gen
                       /\ \E e \in Entry : slot[x.slot].pending[e] = x.fence

\* "Exactly one accept per reservation", slots that are reused included.
AcceptedOnceEver == [][\A t \in Threads : ~AcceptsAgain(t)]_vars

AliveSlots == {s \in Slots : slot[s].state \in {"live", "draining"}}

\* What the owner of s has promised: work it runs or is about to run, and
\* reservations that it can still be asked to run.
Promised(s) ==
      Executions(s)
    + Cardinality({t \in At(s) : pc[t] = "activate"})
    + Cardinality({e \in Entry : slot[s].pending[e] # 0})

\* A resource is never promised beyond its capacity, with reservations,
\* acceptances, cancellations and the owner's reconciliation racing, as long as
\* a reconcile writes a number that is still true.
CapacityRespected ==
    ~overlapped /\ ~stale => \A s \in AliveSlots : Promised(s) <= Cap

\* Threads that took a unit of s they have not yet passed on or given back.
InHand(s) ==
    {t \in At(s) : pc[t] \in {"still", "mint", "place", "giveUnit", "activate"}}

\* "May under-admit until the owner reconciles, never over-admit", whatever a
\* reconcile writes.
NeverOverAdmits == \A s \in AliveSlots : Promised(s) <= Cap

Ageing(s) == {t \in At(s) : pc[t] \in {"age", "settle"}}

\* No reserved unit leaks and none is given back twice: each is a pending
\* reservation, or in the hand of one thread, or one being aged out.
ReservedAccounted ==
    crashes = 0 /\ ~overlapped =>
       \A s \in AliveSlots :
          slot[s].reserved =
               Cardinality({e \in Entry : slot[s].pending[e] # 0})
             + Cardinality(InHand(s))
             + MapThenSumSet(LAMBDA t : job[t].aged, Ageing(s))

Quiet == \A t \in Threads : pc[t] \in {"idle", "asleep", "wait", "scan", "decide"}

LiveSlots == {s \in Slots : slot[s].state = "live"}
FreeUnits == MapThenSumSet(FreeOf, LiveSlots)

\* "Free units across this key": while no resource has ended, and whenever
\* nobody is between two counts, the key's count is the sum over resources.
AvailableExact ==
    Availability /\ crashes = 0 /\ ~ended /\ ~stale /\ Quiet
       => key.available = FreeUnits

\* "live resources plus claims in progress stay under max_live", through any
\* deaths but those inside an update of the budget.
NoOvershoot ==
    ~torn => Cardinality(AliveSlots)
                + Cardinality({t \in Threads : permit[t] = "held"}) <= MaxLive

\* Requests admitted at one time stay under the limit, whenever nodes die and
\* whatever node_dead gives back.
AdmissionBounded ==
    Cardinality({t \in Threads : admitted[t]}) <= MaxConcurrency

\* Warm claims that race do not build more than the idle floor asks for, and
\* neither do they after a death outside an update of the budget.
WarmFloor ==
    ~torn /\ uses \cap {"acquire", "active"} = {}
       => key.available <= MinIdle + Cap - 1

\* Nobody is on its way: every thread is outside the pool, or asleep.
Settled == \A t \in Threads : pc[t] \in {"idle", "asleep"}

\* When nothing is under way, nobody sleeps while there is room.
Rested ==
    ~Availability /\ crashes = 0 /\ Settled /\ Asleep # {}
       => ~\E s \in Slots : Usable(s)

\* A caller that takes the version before its attempt is never left asleep
\* next to a free unit: one that came back, or one of a resource that was
\* registered, while it was on its way to sleep or while it slept, and though
\* the return of a unit wakes only one of several sleepers.
NoSleepOverRoom == First => Rested

\* The same of a caller that waits on the version of Plan::Wait.
NoSleepOverRoomOfPlan == Rested

\* The counts of a key agree with its resources and leases (reserve, accept,
\* cancel, finish, reconcile), and slots that are used again start clean.
CountsSound ==
    /\ TypeOK /\ CapacityRespected /\ ReservedAccounted /\ AvailableExact
    /\ RanNotPending

\* Two threads of the owner race to accept one lease that was brought to both,
\* against the holder that cancels it and a reconcile that ages it out: it is
\* accepted at most once, its unit is counted once, and the capacity is kept.
AcceptsSound == RanNotPending /\ CapacityRespected /\ ReservedAccounted

\* The budgets of a key hold against races and deaths: creations, admissions
\* and the warm floor (claims, admissions, node_dead).
BudgetsHold == NoOvershoot /\ AdmissionBounded /\ WarmFloor
=============================================================================
