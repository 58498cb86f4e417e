------------------------------ MODULE ClientPool ------------------------------
(***************************************************************************)
(* The process-local pool of outbound clients (client-pool/src): requests  *)
(* take an idle client or create one under max_live and max_concurrency,   *)
(* wait in a bounded queue, and give the client back; run() keeps a warm   *)
(* floor; drain() stops admission and waits for the last client.  Fleet    *)
(* composition enters through create and acquire_idle_where.               *)
(*                                                                         *)
(* One step is one critical section of the state mutex and what the        *)
(* handler does between its unlock and its next lock or await: cancel      *)
(* tokens and notify_waiters.  A notify that came later would only wake    *)
(* tasks that looked after the change.  The one thing kept apart is the    *)
(* drop of the client that return_entry does not keep.                     *)
(* `changed` is a tokio Notify used only through notify_waiters: a future  *)
(* obtained from notified() completes when a notify_waiters comes after    *)
(* it was made.  Idle clients are counted: whether one is past its         *)
(* retirement deadline is decided when the code looks.  Cancellation by a  *)
(* caller, by a dropped future and by admission_closed may strike at any   *)
(* await, so the token itself is not kept.                                 *)
(***************************************************************************)
EXTENDS Naturals, FiniteSets

CONSTANTS
  Requests,    \* the acquiring tasks
  Options,     \* the option records a pool may be asked for
  MaxPauses    \* bound: how often the owner pauses admission

VARIABLES
  opt,         \* PoolOptions of this pool
  idle,        \* the length of State.idle
  live, creating, waiting, inFlight, status,   \* the other fields of State
  drainStarted,    \* State.drain_started is set
  graceOver,       \* drain_started + grace has passed
  registered,      \* the requests with an entry in State.drain_cancellations
  token,           \* the requests whose lease's token is cancelled
  pc, note,    \* task -> control, and its Notified future
  entered,     \* the requests whose Waiter has entered
  policy,      \* request -> ActiveRequestPolicy
  reg,         \* the requests whose lease carries a registration
  pauses       \* times paused so far

vars == <<opt, idle, live, creating, waiting, inFlight, status, drainStarted,
          graceOver, registered, token, pc, note, entered, policy, reg, pauses>>

(* run() and drain() are tasks of their own; the owner calls the rest. *)
Drainers == {"run", "drain"}
Tasks == Requests \cup Drainers

Policies == {"Preserve", "Now", "Grace"}

Valid(o) ==
  /\ o.max_live # 0
  /\ o.max_concurrency # 0
  /\ o.min_idle <= o.max_idle
  /\ o.max_idle <= o.max_live

counts == <<idle, live, creating, waiting, inFlight, status>>
shutting == <<drainStarted, graceOver>>
lease == <<policy, reg, registered, token>>
environment == <<opt, pauses>>

Init ==
  /\ opt \in {o \in Options : Valid(o)}
  /\ idle = 0
  /\ live = 0 /\ creating = 0 /\ waiting = 0 /\ inFlight = 0
  /\ status = "Open"
  /\ drainStarted = FALSE /\ graceOver = FALSE
  /\ registered = {} /\ token = {}
  /\ pc = [t \in Tasks |-> IF t = "drain" THEN "none" ELSE "top"]
  /\ note = [t \in Tasks |-> "none"]
  /\ entered = {}
  /\ policy = [r \in Requests |-> "Preserve"]
  /\ reg = {}
  /\ pauses = 0

-----------------------------------------------------------------------------
At(t, place) == pc[t] = place
Go(t, place) == pc' = [pc EXCEPT ![t] = place]

(* notify_waiters completes every future made before it. *)
NotifyWaiters ==
  note' = [t \in Tasks |-> IF note[t] = "armed" THEN "rung" ELSE note[t]]

(* let notified = self.inner.changed.notified() *)
Notified(t) == note' = [note EXCEPT ![t] = "armed"]
Forget(t) == note' = [note EXCEPT ![t] = "none"]

-----------------------------------------------------------------------------
(* acquire *)

(* prune_expired keeps k of the idle clients, whatever their ages. *)
LiveKept(k) == live - (idle - k)

(* One turn of the loop starts by making the Notified future. *)
AcquireTurn(r) ==
  /\ At(r, "top")
  /\ Notified(r)
  /\ Go(r, "look")
  /\ UNCHANGED <<counts, shutting, lease, entered, environment>>

AcquireClosed(r, k) ==
  /\ At(r, "look")
  /\ status \in {"Draining", "Closed"}
  /\ idle' = k /\ live' = LiveKept(k)
  /\ Go(r, IF r \in entered THEN "leaving" ELSE "done")
  /\ Forget(r)
  /\ UNCHANGED <<creating, waiting, inFlight, status, shutting, lease,
                 entered, environment>>

Admits == inFlight < opt.max_concurrency
HasRoom(k) == k > 0 \/ LiveKept(k) < opt.max_live

AcquireWaits(r, k) ==
  /\ At(r, "look")
  /\ \/ status = "Paused"
     \/ status = "Open" /\ ~(Admits /\ HasRoom(k))
  /\ idle' = k /\ live' = LiveKept(k)
  /\ IF r \in entered \/ waiting < opt.max_waiting
     THEN /\ Go(r, "wait")
          /\ entered' = entered \cup {r}
          /\ waiting' = IF r \in entered THEN waiting ELSE waiting + 1
          /\ UNCHANGED note
     ELSE /\ Go(r, "done")          \* QueueFull
          /\ Forget(r)
          /\ UNCHANGED <<entered, waiting>>
  /\ UNCHANGED <<creating, inFlight, status, shutting, lease, environment>>

LeaveQueue(r) ==
  /\ entered' = entered \ {r}
  /\ waiting' = IF r \in entered THEN waiting - 1 ELSE waiting

AcquireReuses(r, k) ==
  /\ At(r, "look")
  /\ status = "Open" /\ Admits /\ k > 0
  /\ idle' = k - 1
  /\ live' = LiveKept(k)
  /\ inFlight' = inFlight + 1
  /\ LeaveQueue(r)
  /\ Go(r, "recycling")
  /\ Forget(r)
  /\ UNCHANGED <<creating, status, shutting, lease, environment>>

AcquireCreates(r) ==
  /\ At(r, "look")
  /\ status = "Open" /\ Admits /\ LiveKept(0) < opt.max_live
  /\ idle' = 0
  /\ live' = LiveKept(0) + 1
  /\ creating' = creating + 1
  /\ inFlight' = inFlight + 1
  /\ LeaveQueue(r)
  /\ Go(r, "creating")
  /\ Forget(r)
  /\ UNCHANGED <<status, shutting, lease, environment>>

WaitEnds(r) ==
  /\ At(r, "wait")
  /\ note[r] = "rung"
  /\ Go(r, "top")
  /\ Forget(r)
  /\ UNCHANGED <<counts, shutting, lease, entered, environment>>

(* Deadline, caller's cancellation or a dropped future end a wait. *)
WaitGivenUp(r) ==
  /\ At(r, "wait")
  /\ Go(r, "leaving")
  /\ Forget(r)
  /\ UNCHANGED <<counts, shutting, lease, entered, environment>>

(* Drop of a Waiter that entered. *)
WaiterDrops(r) ==
  /\ At(r, "leaving")
  /\ LeaveQueue(r)
  /\ Go(r, "done")
  /\ NotifyWaiters
  /\ UNCHANGED <<idle, live, creating, inFlight, status, shutting, lease,
                 environment>>

(* The two operations of the fleet composition, which never wait. *)
CreateInner(r, k) ==
  /\ At(r, "top") /\ r \notin entered
  /\ idle' = k
  /\ IF status = "Open" /\ LiveKept(k) < opt.max_live /\ Admits
     THEN /\ live' = LiveKept(k) + 1
          /\ creating' = creating + 1
          /\ inFlight' = inFlight + 1
          /\ Go(r, "creating")
     ELSE /\ live' = LiveKept(k)
          /\ Go(r, "done")
          /\ UNCHANGED <<creating, inFlight>>
  /\ UNCHANGED <<waiting, status, shutting, lease, note,
                 entered, environment>>

(* The predicate may match none of the idle clients. *)
AcquireIdleWhere(r, k) ==
  /\ At(r, "top") /\ r \notin entered
  /\ live' = LiveKept(k)
  /\ \/ /\ status = "Open" /\ Admits /\ k > 0
        /\ idle' = k - 1
        /\ inFlight' = inFlight + 1
        /\ Go(r, "recycling")
     \/ /\ idle' = k
        /\ Go(r, "done")
        /\ UNCHANGED inFlight
  /\ UNCHANGED <<creating, waiting, status, shutting, lease, note,
                 entered, environment>>

-----------------------------------------------------------------------------
(* A manager operation and the reservation around it *)

(* The manager's future runs, or is interrupted. *)
InOperation(r) == At(r, "creating") \/ At(r, "recycling")

CancelNow(p) == drainStarted /\ (p = "Now" \/ (p = "Grace" /\ graceOver))

(* The manager produced a client: ClientLease::new registers the request   *)
(* under the policy its acquisition was called with.                       *)
RegisterActive(r, p) ==
  /\ InOperation(r)
  /\ Go(r, IF pc[r] = "creating" THEN "finishing" ELSE "leased")
  /\ policy' = [policy EXCEPT ![r] = p]
  /\ IF p = "Preserve" \/ CancelNow(p)
     THEN /\ token' = IF p = "Preserve" THEN token ELSE token \cup {r}
          /\ UNCHANGED <<reg, registered, note>>
     ELSE /\ registered' = registered \cup {r}
          /\ reg' = reg \cup {r}
          /\ NotifyWaiters
          /\ UNCHANGED token
  /\ UNCHANGED <<counts, shutting, entered, environment>>

(* finish_create(true, admitted) *)
FinishCreate(r) ==
  /\ At(r, "finishing")
  /\ creating' = creating - 1
  /\ Go(r, "leased")
  /\ NotifyWaiters
  /\ UNCHANGED <<idle, live, waiting, inFlight, status, shutting, lease,
                 entered, environment>>

(* A mutant: a dropped recycle gives back the client and not its admission.*)
ReservationLeaks(r) ==
  /\ InOperation(r)
  /\ creating' = IF pc[r] = "creating" THEN creating - 1 ELSE creating
  /\ live' = live - 1
  /\ inFlight' = IF pc[r] = "creating" THEN inFlight - 1 ELSE inFlight
  /\ Go(r, "done")
  /\ NotifyWaiters
  /\ UNCHANGED <<idle, waiting, status, shutting, lease, entered, environment>>

(* A manager error, the caller's cancellation, a closed admission or a     *)
(* dropped future: the reservation returns what it holds, the client first.*)
ReservationDrops(r) ==
  /\ InOperation(r)
  /\ creating' = IF pc[r] = "creating" THEN creating - 1 ELSE creating
  /\ live' = live - 1
  /\ inFlight' = inFlight - 1
  /\ Go(r, "done")
  /\ NotifyWaiters
  /\ UNCHANGED <<idle, waiting, status, shutting, lease, entered,
                 environment>>

-----------------------------------------------------------------------------
(* The lease ends *)

(* unregister_active.  Token and policy are of no more interest. *)
Unregister(r) ==
  /\ registered' = registered \ {r}
  /\ reg' = reg \ {r}
  /\ token' = token \ {r}
  /\ policy' = [policy EXCEPT ![r] = "Preserve"]
  /\ IF r \in reg THEN NotifyWaiters ELSE UNCHANGED note
  /\ UNCHANGED <<counts, shutting, entered, environment>>

LeaseDrops(r) == At(r, "leased") /\ Unregister(r) /\ Go(r, "returning")

(* discard drops the client first *)
LeaseDiscards(r) == At(r, "leased") /\ Unregister(r) /\ Go(r, "retiring")

(* A client past its deadline, one too many, or one of a pool that stops   *)
(* is not kept; it is dropped at the end of return_entry, after its place  *)
(* was given away and the waiters were notified.                           *)
ReturnEntry(r) ==
  /\ At(r, "returning")
  /\ inFlight' = inFlight - 1
  /\ NotifyWaiters
  /\ \/ /\ status \in {"Open", "Paused"}
        /\ idle < opt.max_idle
        /\ idle' = idle + 1
        /\ Go(r, "done")
        /\ UNCHANGED live
     \/ /\ live' = live - 1
        /\ Go(r, "dropping")
        /\ UNCHANGED idle
  /\ UNCHANGED <<creating, waiting, status, shutting, lease, entered,
                 environment>>

(* The end of return_entry *)
EntryDrops(r) ==
  /\ At(r, "dropping")
  /\ Go(r, "done")
  /\ UNCHANGED <<counts, shutting, lease, note, entered, environment>>

(* A mutant: a discarded client frees its place and wakes nobody. *)
RetireSilently(r) ==
  /\ At(r, "retiring")
  /\ live' = live - 1
  /\ inFlight' = inFlight - 1
  /\ Go(r, "done")
  /\ UNCHANGED <<idle, creating, waiting, status, shutting, lease, note, entered,
                 environment>>

RetireOne(r) ==
  /\ At(r, "retiring")
  /\ live' = live - 1
  /\ inFlight' = inFlight - 1
  /\ Go(r, "done")
  /\ NotifyWaiters
  /\ UNCHANGED <<idle, creating, waiting, status, shutting, lease, entered,
                 environment>>

-----------------------------------------------------------------------------
(* run *)

(* prune_now and the look at stats() commute with what others may do in    *)
(* between.  run's own cancellation may be seen at any turn.               *)
RunTurn(k) ==
  /\ At("run", "top")
  /\ \/ Go("run", "drain") /\ UNCHANGED <<idle, live>>
     \/ /\ idle' = k /\ live' = LiveKept(k)
        /\ Go("run", IF status \in {"Draining", "Closed"} THEN "drain" ELSE "reserve")
  /\ UNCHANGED <<creating, waiting, inFlight, status, shutting, lease, note,
                 entered, environment>>

WantsWarm ==
  /\ status = "Open"
  /\ idle + creating < opt.min_idle
  /\ live < opt.max_live

ReserveWarmCreate ==
  /\ At("run", "reserve")
  /\ IF WantsWarm
     THEN /\ live' = live + 1
          /\ creating' = creating + 1
          /\ Go("run", "warming")
     ELSE Go("run", "arm") /\ UNCHANGED <<live, creating>>
  /\ UNCHANGED <<idle, waiting, inFlight, status, shutting, lease, note,
                 entered, environment>>

FinishWarmCreate ==
  /\ At("run", "warming")
  /\ creating' = creating - 1
  /\ IF status \in {"Draining", "Closed"} \/ idle >= opt.max_idle
     THEN live' = live - 1 /\ UNCHANGED idle
     ELSE idle' = idle + 1 /\ UNCHANGED live
  /\ Go("run", "top")
  /\ NotifyWaiters
  /\ UNCHANGED <<waiting, inFlight, status, shutting, lease, entered,
                 environment>>

(* finish_create(false, false): on a manager error run returns, when       *)
(* interrupted it goes on to drain.                                        *)
WarmCreateDrops ==
  /\ At("run", "warming")
  /\ creating' = creating - 1
  /\ live' = live - 1
  /\ Go("run", "done") \/ Go("run", "drain")
  /\ NotifyWaiters
  /\ UNCHANGED <<idle, waiting, inFlight, status, shutting, lease, entered,
                 environment>>

RunSleeps ==
  /\ At("run", "arm")
  /\ Notified("run")
  /\ Go("run", "sleep")
  /\ UNCHANGED <<counts, shutting, lease, entered, environment>>

(* cancellation, a notification, or the retirement deadline of an idle one *)
RunWakes ==
  /\ At("run", "sleep")
  /\ \/ Go("run", "drain")
     \/ (note["run"] = "rung" \/ idle > 0) /\ Go("run", "top")
  /\ Forget("run")
  /\ UNCHANGED <<counts, shutting, lease, entered, environment>>

-----------------------------------------------------------------------------
(* drain, called by run or by the owner *)

DueNow == {r \in registered : policy[r] = "Now" \/ (policy[r] = "Grace" /\ graceOver)}

DrainStarts(d) ==
  /\ At(d, "drain")
  /\ status' = IF status = "Closed" THEN status ELSE "Draining"
  /\ drainStarted' = TRUE
  /\ live' = live - idle
  /\ idle' = 0
  /\ token' = token \cup DueNow
  /\ registered' = registered \ DueNow
  /\ Go(d, "drain_arm")
  /\ NotifyWaiters
  /\ UNCHANGED <<creating, waiting, inFlight, graceOver, policy, reg,
                 entered, environment>>

DrainArms(d) ==
  /\ At(d, "drain_arm")
  /\ Notified(d)
  /\ Go(d, "drain_look")
  /\ UNCHANGED <<counts, shutting, lease, entered, environment>>

DrainLooks(d) ==
  /\ At(d, "drain_look")
  /\ IF live = 0
     THEN /\ status' = "Closed"
          /\ Go(d, "done")
          /\ NotifyWaiters
          /\ UNCHANGED <<token, registered>>
     ELSE /\ token' = token \cup DueNow
          /\ registered' = registered \ DueNow
          /\ Go(d, "drain_wait")
          /\ UNCHANGED <<status, note>>
  /\ UNCHANGED <<idle, live, creating, waiting, inFlight, drainStarted, graceOver,
                 policy, reg, entered, environment>>

(* The sleep ends on a notification or on the next grace deadline. *)
DrainWakes(d) ==
  /\ At(d, "drain_wait")
  /\ note[d] = "rung" \/ (graceOver /\ \E r \in registered : policy[r] = "Grace")
  /\ Forget(d)
  /\ Go(d, "drain_arm")
  /\ UNCHANGED <<counts, shutting, lease, entered, environment>>

-----------------------------------------------------------------------------
(* The owner's calls, and time *)

Close ==
  /\ status # "Closed"
  /\ status' = "Closed"
  /\ live' = live - idle
  /\ idle' = 0
  /\ NotifyWaiters
  /\ UNCHANGED <<creating, waiting, inFlight, shutting, lease, pc, entered,
                 environment>>

OwnerDrains ==
  /\ pc["drain"] = "none"
  /\ Go("drain", "drain")
  /\ UNCHANGED <<counts, shutting, lease, note, entered, environment>>

(* pause, apply(Pause) and a lease's observe *)
Pause ==
  /\ pauses < MaxPauses
  /\ status \in {"Open", "Paused"}
  /\ pauses' = pauses + 1
  /\ status' = "Paused"
  /\ NotifyWaiters
  /\ UNCHANGED <<idle, live, creating, waiting, inFlight, shutting, lease, pc,
                  entered, opt>>

Resume ==
  /\ status = "Paused"
  /\ status' = "Open"
  /\ NotifyWaiters
  /\ UNCHANGED <<idle, live, creating, waiting, inFlight, shutting, lease, pc,
                  entered, environment>>

(* Cancels the root of every lease's token. *)
CancelActive ==
  /\ status \in {"Draining", "Closed"}
  /\ token' = token \cup {r \in Requests : pc[r] = "leased"}
  /\ UNCHANGED <<counts, shutting, policy, reg, registered, pc, note,
                 entered, environment>>

DiscardIdleWhere ==
  /\ idle > 0
  /\ idle' = idle - 1
  /\ live' = live - 1
  /\ NotifyWaiters
  /\ UNCHANGED <<creating, waiting, inFlight, status, shutting, lease, pc,
                 entered, environment>>

GraceEnds ==
  /\ drainStarted /\ ~graceOver
  /\ graceOver' = TRUE
  /\ UNCHANGED <<counts, drainStarted, lease, pc, note, entered,
                 environment>>

-----------------------------------------------------------------------------
Acquire(r) ==
  \/ AcquireTurn(r) \/ AcquireCreates(r)
  \/ WaitEnds(r) \/ WaitGivenUp(r) \/ WaiterDrops(r)
  \/ \E k \in 0..idle :
       \/ AcquireClosed(r, k) \/ AcquireWaits(r, k) \/ AcquireReuses(r, k)
       \/ CreateInner(r, k) \/ AcquireIdleWhere(r, k)

Serve(r) ==
  \/ \E p \in Policies : RegisterActive(r, p)
  \/ FinishCreate(r) \/ ReservationDrops(r)
  \/ LeaseDrops(r) \/ LeaseDiscards(r) \/ ReturnEntry(r) \/ EntryDrops(r)
  \/ RetireOne(r)

Run ==
  \/ \E k \in 0..idle : RunTurn(k)
  \/ ReserveWarmCreate \/ FinishWarmCreate \/ WarmCreateDrops
  \/ RunSleeps \/ RunWakes

Drain(d) == DrainStarts(d) \/ DrainArms(d) \/ DrainLooks(d) \/ DrainWakes(d)

Owner ==
  \/ Close \/ OwnerDrains \/ Pause \/ Resume \/ CancelActive \/ DiscardIdleWhere
  \/ GraceEnds

Next ==
  \/ \E r \in Requests : Acquire(r) \/ Serve(r)
  \/ Run
  \/ \E d \in Drainers : Drain(d)
  \/ Owner

Spec == Init /\ [][Next]_vars

-----------------------------------------------------------------------------
(* Properties *)

Holding == {"recycling", "finishing", "leased", "returning", "retiring"}
InPlace(places) == {r \in Requests : pc[r] \in places}
Warming == IF pc["run"] = "warming" THEN 1 ELSE 0

(* The counters of State say what the tasks hold at every unlock, through  *)
(* every failure, cancellation and dropped future (finish_create,          *)
(* retire_one, return_entry, Waiter): nothing leaks, nothing is returned   *)
(* twice (no saturating_sub ever saturates), and each stays within its     *)
(* option.                                                                 *)
CountsAddUp ==
  /\ creating = Cardinality(InPlace({"creating", "finishing"})) + Warming
  /\ live = idle + Cardinality(InPlace({"creating"} \cup Holding)) + Warming
  /\ inFlight = Cardinality(InPlace({"creating"} \cup Holding))
  /\ waiting = Cardinality(entered)
  /\ live <= opt.max_live
  /\ inFlight <= opt.max_concurrency
  /\ waiting <= opt.max_waiting
  /\ idle <= opt.max_idle

Asleep(t, place) == At(t, place) /\ note[t] = "armed"

(* HasRoom when no idle client is past its deadline *)
CouldServe == idle > 0 \/ live < opt.max_live

(* No acquisition sleeps while it could be admitted or has to be refused,  *)
(* no drain sleeps after the last client ended, and no lease that asked to *)
(* be cancelled when drain starts is still without its signal: a           *)
(* notified() future made too late, a return without notify_waiters, or a  *)
(* registration that drain does not see, would leave one.                  *)
NobodyForgotten ==
  /\ \A r \in Requests : Asleep(r, "wait") =>
       status = "Paused" \/ (status = "Open" /\ ~(Admits /\ CouldServe))
  /\ \A d \in Drainers : Asleep(d, "drain_wait") => live > 0
  /\ \A r \in Requests : drainStarted /\ pc[r] = "leased" /\ policy[r] = "Now" =>
       r \in token

(* Clients that exist: idle, held, being made, or retired and not dropped. *)
Physical ==
  idle + Warming
  + Cardinality(InPlace({"creating"} \cup (Holding \ {"retiring"}) \cup {"dropping"}))

(* client-pool/README.md: max_live is the "Maximum number of physical      *)
(* clients, including clients being created."                              *)
PhysicalWithinMaxLive == Physical <= opt.max_live

(* client-pool/README.md: min_idle is the "Idle floor maintained by run()  *)
(* while the pool is open": run never sleeps below it, with room to create.*)
FloorMaintained ==
  Asleep("run", "sleep") => ~WantsWarm
===============================================================================
