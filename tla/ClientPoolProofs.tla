------------------------- MODULE ClientPoolProofs ---------------------------
(***************************************************************************)
(* The client pool (ClientPool) for any number of requests and any         *)
(* options: its counters say what the tasks hold, and nobody sleeps over   *)
(* what it waits for.  The counters are about sets of tasks, so the proof  *)
(* goes by how a step moves one task between places (Moved), and about     *)
(* wake-ups, so it goes by which steps notify.                             *)
(***************************************************************************)
EXTENDS ClientPool, FiniteSetTheorems, TLAPS

\* What is asked of the constants: finitely many requests, which are neither
\* run nor drain, and options that are numbers (usize in PoolOptions).
Sensible ==
    /\ IsFiniteSet(Requests)
    /\ Requests \cap Drainers = {}
    /\ \A o \in Options :
          /\ o.min_idle \in Nat /\ o.max_idle \in Nat /\ o.max_live \in Nat
          /\ o.max_concurrency \in Nat /\ o.max_waiting \in Nat

-----------------------------------------------------------------------------
(***************************************************************************)
(* The inductive invariant                                                 *)
(***************************************************************************)
Queued == {"wait", "leaving"}
Shopping == {"top", "look"} \cup Queued
Draining == {"drain_arm", "drain_look", "drain_wait"}
Places ==
    Shopping \cup {"creating", "dropping", "done"} \cup Holding
      \cup {"none", "reserve", "warming", "arm", "sleep", "drain"} \cup Draining

Notes == [Tasks -> {"none", "armed", "rung"}]

\* The counters are numbers by CountsAddUp, but for idle.
Types ==
    /\ opt \in Options /\ idle \in Nat
    /\ status \in {"Open", "Paused", "Draining", "Closed"}
    /\ drainStarted \in BOOLEAN /\ graceOver \in BOOLEAN
    /\ registered \subseteq Requests /\ token \subseteq Requests
    /\ entered \subseteq Requests
    /\ pc \in [Tasks -> Places]
    /\ note \in Notes
    /\ policy \in [Requests -> Policies]

\* A request is counted in the queue from its first wait until it is served
\* or leaves.
QueueInv ==
    \A r \in Requests :
        /\ pc[r] \in Queued => r \in entered
        /\ r \in entered => pc[r] \in Shopping

\* A drain that looks for the last client has stopped the pool, and a stopped
\* pool keeps no idle client.
StopInv ==
    /\ \A d \in Drainers : pc[d] \in Draining => status \in {"Draining", "Closed"}
    /\ status \in {"Draining", "Closed"} => idle = 0

\* A request to be cancelled when drain starts has its signal or is registered,
\* and nobody is still registered once drain has started.
SignalInv ==
    /\ \A r \in Requests : pc[r] \in {"finishing", "leased"} /\ policy[r] = "Now" =>
          r \in token \cup registered
    /\ \A r \in registered : pc[r] \in {"finishing", "leased"}
    /\ drainStarted => \A r \in registered : policy[r] # "Now"

IInv ==
    /\ Types
    /\ CountsAddUp
    /\ QueueInv
    /\ StopInv
    /\ SignalInv
    /\ NobodyForgotten

-----------------------------------------------------------------------------
(***************************************************************************)
(* Tasks that move                                                         *)
(***************************************************************************)
MakingPlaces == {"creating", "finishing"}
HeldPlaces == {"creating"} \cup Holding
Making == Cardinality(InPlace(MakingPlaces))
Held == Cardinality(InPlace(HeldPlaces))

\* A number of tasks in places follows one that goes from a place to another.
Follows(before, after, from, to, places) ==
    /\ (from \in places <=> to \in places) => after = before
    /\ from \notin places /\ to \in places => after = before + 1
    /\ from \in places /\ to \notin places => after = before - 1

\* Task t goes to a place and the others stay where they are.
Moved(t, to) ==
    /\ pc' \in [Tasks -> Places]
    /\ pc'[t] = to
    /\ \A u \in Tasks : u # t => pc'[u] = pc[u]

\* The numbers of requests that make or hold a client follow request r.
Shifted(r, to) ==
    /\ Making' \in Nat /\ Held' \in Nat /\ Warming' = Warming
    /\ Follows(Making, Making', pc[r], to, MakingPlaces)
    /\ Follows(Held, Held', pc[r], to, HeldPlaces)

\* What a step may do to the futures of notified().
Rung == \A t \in Tasks : note'[t] # "armed"
Armed(t) == note'[t] = "armed" /\ \A u \in Tasks : u # t => note'[u] = note[u]
Dropped(t) == note'[t] # "armed" /\ \A u \in Tasks : u # t => note'[u] = note[u]

\* The counters as numbers.
Numbers ==
    /\ Making \in Nat /\ Held \in Nat /\ Warming \in {0, 1}
    /\ creating = Making + Warming
    /\ live = idle + Held + Warming
    /\ inFlight = Held
    /\ waiting = Cardinality(entered) /\ Cardinality(entered) \in Nat
    /\ live <= opt.max_live /\ inFlight <= opt.max_concurrency
    /\ waiting <= opt.max_waiting /\ idle <= opt.max_idle

\* The requests in some places are finitely many.
LEMMA InPlaceFinite ==
    ASSUME Sensible, NEW S
    PROVE  IsFiniteSet(InPlace(S)) /\ Cardinality(InPlace(S)) \in Nat
<1>1. IsFiniteSet(Requests) /\ InPlace(S) \subseteq Requests
  BY DEF Sensible, InPlace
<1>2. IsFiniteSet(InPlace(S)) BY <1>1, FS_Subset
<1> QED BY <1>2, FS_CardinalityType

\* The counters are those of the invariant.
LEMMA CountsAreNumbers ==
    ASSUME Sensible, Types
    PROVE  CountsAddUp <=> Numbers
<1>1. Making \in Nat /\ Held \in Nat BY InPlaceFinite DEF Making, Held
<1>2. Warming \in {0, 1} BY DEF Warming
<1>3. Cardinality(entered) \in Nat
  <2>1. IsFiniteSet(Requests) /\ entered \subseteq Requests
    BY DEF Sensible, Types
  <2>2. IsFiniteSet(entered) BY <2>1, FS_Subset
  <2> QED BY <2>2, FS_CardinalityType
<1> QED
  BY <1>1, <1>2, <1>3 DEF CountsAddUp, Numbers, Making, Held, MakingPlaces,
     HeldPlaces

\* A request that goes to another place leaves the sets of the old one and
\* joins those of the new one.
LEMMA CardinalityMoves ==
    ASSUME Sensible, Types, NEW r \in Requests, NEW to, Go(r, to), NEW S
    PROVE  /\ Cardinality(InPlace(S)') \in Nat
           /\ Follows(Cardinality(InPlace(S)), Cardinality(InPlace(S)'),
                      pc[r], to, S)
<1>1. IsFiniteSet(InPlace(S)) /\ Cardinality(InPlace(S)) \in Nat
  BY InPlaceFinite
<1>2. r \in Tasks /\ \A u \in Requests : u \in Tasks BY DEF Tasks
<1>3. /\ pc'[r] = to
      /\ \A u \in Requests : u # r => pc'[u] = pc[u]
  BY <1>2 DEF Types, Go
<1>4. InPlace(S)' = {u \in Requests : pc'[u] \in S} BY DEF InPlace
<1>5. InPlace(S) = {u \in Requests : pc[u] \in S} BY DEF InPlace
<1>6. CASE pc[r] \in S /\ to \in S
  <2>1. InPlace(S)' = InPlace(S) BY <1>3, <1>4, <1>5, <1>6
  <2> QED BY <1>1, <1>6, <2>1 DEF Follows
<1>7. CASE pc[r] \notin S /\ to \notin S
  <2>1. InPlace(S)' = InPlace(S) BY <1>3, <1>4, <1>5, <1>7
  <2> QED BY <1>1, <1>7, <2>1 DEF Follows
<1>8. CASE pc[r] \notin S /\ to \in S
  <2>1. InPlace(S)' = InPlace(S) \cup {r} BY <1>3, <1>4, <1>5, <1>8
  <2>2. r \notin InPlace(S) BY <1>5, <1>8
  <2>3. Cardinality(InPlace(S) \cup {r}) = Cardinality(InPlace(S)) + 1
    BY <1>1, <2>2, FS_AddElement
  <2>4. IsFiniteSet(InPlace(S) \cup {r}) BY <1>1, FS_AddElement
  <2>5. Cardinality(InPlace(S) \cup {r}) \in Nat BY <2>4, FS_CardinalityType
  <2> QED BY <1>8, <2>1, <2>3, <2>5 DEF Follows
<1>9. CASE pc[r] \in S /\ to \notin S
  <2>1. InPlace(S)' = InPlace(S) \ {r} BY <1>3, <1>4, <1>5, <1>9
  <2>2. r \in InPlace(S) BY <1>5, <1>9
  <2>3. Cardinality(InPlace(S) \ {r}) = Cardinality(InPlace(S)) - 1
    BY <1>1, <2>2, FS_RemoveElement
  <2>4. IsFiniteSet(InPlace(S) \ {r}) BY <1>1, FS_RemoveElement
  <2>5. Cardinality(InPlace(S) \ {r}) \in Nat BY <2>4, FS_CardinalityType
  <2> QED BY <1>9, <2>1, <2>3, <2>5 DEF Follows
<1> QED BY <1>6, <1>7, <1>8, <1>9

\* A task that goes to a place.
LEMMA TaskMoves ==
    ASSUME Types, NEW t \in Tasks, NEW to \in Places, Go(t, to)
    PROVE  Moved(t, to)
  BY DEF Types, Go, Moved

\* A request that goes to a place takes its part of the numbers along.
LEMMA RequestMoves ==
    ASSUME Sensible, Types, NEW r \in Requests, NEW to \in Places, Go(r, to)
    PROVE  r \in Tasks /\ Moved(r, to) /\ Shifted(r, to)
<1>1. r \in Tasks /\ r # "run" /\ "run" \in Tasks
  BY DEF Tasks, Sensible, Drainers
<1>2. Moved(r, to) BY <1>1, TaskMoves
<1>3. Warming' = Warming BY <1>1, <1>2 DEF Moved, Warming
<1>4. /\ Making' \in Nat
      /\ Follows(Making, Making', pc[r], to, MakingPlaces)
  BY CardinalityMoves DEF Making
<1>5. /\ Held' \in Nat
      /\ Follows(Held, Held', pc[r], to, HeldPlaces)
  BY CardinalityMoves DEF Held
<1> QED BY <1>1, <1>2, <1>3, <1>4, <1>5 DEF Shifted

\* A step of run, of drain or of the owner leaves the requests alone.
LEMMA RequestsStay ==
    ASSUME \A r \in Requests : pc'[r] = pc[r]
    PROVE  Making' = Making /\ Held' = Held
<1>1. \A S : InPlace(S)' = InPlace(S) BY DEF InPlace
<1> QED BY <1>1 DEF Making, Held

\* run and drain are no requests.
LEMMA DrainerMoves ==
    ASSUME Sensible, Types, NEW d \in Drainers, NEW to \in Places, Go(d, to)
    PROVE  /\ d \in Tasks /\ Moved(d, to)
           /\ Making' = Making /\ Held' = Held
           /\ \A r \in Requests : pc'[r] = pc[r]
           /\ Warming' = IF d = "run" THEN (IF to = "warming" THEN 1 ELSE 0)
                        ELSE Warming
<1>1. d \in Tasks /\ "run" \in Tasks BY DEF Tasks, Drainers
<1>2. Moved(d, to) BY <1>1, TaskMoves
<1>3. \A r \in Requests : r \in Tasks /\ r # d BY DEF Sensible, Tasks
<1>4. \A r \in Requests : pc'[r] = pc[r] BY <1>2, <1>3 DEF Moved
<1>5. Making' = Making /\ Held' = Held BY <1>4, RequestsStay
<1>6. Warming' = IF d = "run" THEN (IF to = "warming" THEN 1 ELSE 0)
                        ELSE Warming
  BY <1>1, <1>2 DEF Moved, Warming
<1> QED BY <1>1, <1>2, <1>4, <1>5, <1>6

\* notify_waiters leaves no future armed.
LEMMA NotifyRings ==
    ASSUME Types, NotifyWaiters
    PROVE  note' \in Notes /\ Rung
  BY DEF Types, NotifyWaiters, Notes, Rung

\* notified() arms the future of its caller only.
LEMMA NotifiedArms ==
    ASSUME Types, NEW t \in Tasks, Notified(t)
    PROVE  note' \in Notes /\ Armed(t)
  BY DEF Types, Notified, Notes, Armed

\* A dropped future is nobody else's.
LEMMA ForgetDrops ==
    ASSUME Types, NEW t \in Tasks, Forget(t)
    PROVE  note' \in Notes /\ Dropped(t)
  BY DEF Types, Forget, Notes, Dropped

\* A waiter that leaves the queue takes its place in the count along.
LEMMA QueueLeft ==
    ASSUME Sensible, Types, Numbers, NEW r \in Requests, LeaveQueue(r)
    PROVE  /\ waiting' = Cardinality(entered') /\ Cardinality(entered') \in Nat
           /\ waiting' <= waiting
           /\ entered' = entered \ {r}
<1>1. IsFiniteSet(Requests) /\ entered \subseteq Requests
  BY DEF Sensible, Types
<1>2. IsFiniteSet(entered) BY <1>1, FS_Subset
<1>3. entered' = entered \ {r}
        /\ waiting' = (IF r \in entered THEN waiting - 1 ELSE waiting)
  BY DEF LeaveQueue
<1>4. waiting = Cardinality(entered) /\ Cardinality(entered) \in Nat
  BY DEF Numbers
<1>5. IsFiniteSet(entered \ {r}) BY <1>2, FS_RemoveElement
<1>6. Cardinality(entered \ {r}) \in Nat BY <1>5, FS_CardinalityType
<1>7. CASE r \in entered
  <2>1. Cardinality(entered \ {r}) = Cardinality(entered) - 1
    BY <1>2, <1>7, FS_RemoveElement
  <2> QED BY <1>3, <1>4, <1>6, <1>7, <2>1
<1>8. CASE r \notin entered
  <2>1. entered \ {r} = entered BY <1>8
  <2> QED BY <1>3, <1>4, <1>8, <2>1
<1> QED BY <1>7, <1>8

\* A waiter that joins it is counted once.
LEMMA QueueJoined ==
    ASSUME Sensible, Types, Numbers, NEW r \in Requests,
           r \in entered \/ waiting < opt.max_waiting,
           entered' = entered \cup {r},
           waiting' = IF r \in entered THEN waiting ELSE waiting + 1
    PROVE  /\ waiting' = Cardinality(entered') /\ Cardinality(entered') \in Nat
           /\ waiting' <= opt.max_waiting
<1>1. IsFiniteSet(Requests) /\ entered \subseteq Requests
  BY DEF Sensible, Types
<1>2. IsFiniteSet(entered) BY <1>1, FS_Subset
<1>3. /\ waiting = Cardinality(entered) /\ Cardinality(entered) \in Nat
      /\ waiting <= opt.max_waiting
      /\ opt.max_waiting \in Nat
  BY DEF Numbers, Sensible, Types
<1>4. CASE r \in entered
  <2>1. entered' = entered BY <1>4
  <2> QED BY <1>3, <1>4, <2>1
<1>5. CASE r \notin entered
  <2>1. Cardinality(entered \cup {r}) = Cardinality(entered) + 1
    BY <1>2, <1>5, FS_AddElement
  <2> QED BY <1>3, <1>5, <2>1
<1> QED BY <1>4, <1>5

-----------------------------------------------------------------------------
(***************************************************************************)
(* The counters                                                            *)
(***************************************************************************)

\* What the proof of every step starts from.
LEMMA Known ==
    ASSUME Sensible, IInv
    PROVE  /\ Types /\ Numbers
           /\ Making \in Nat /\ Held \in Nat /\ Warming \in {0, 1}
           /\ idle \in Nat /\ live \in Nat /\ creating \in Nat
           /\ waiting \in Nat /\ inFlight \in Nat
           /\ opt.max_idle \in Nat /\ opt.max_live \in Nat
           /\ opt.max_concurrency \in Nat /\ opt.max_waiting \in Nat
           /\ opt.min_idle \in Nat
<1>1. Types /\ CountsAddUp BY DEF IInv
<1>2. Numbers BY <1>1, CountsAreNumbers
<1>3. /\ opt.max_idle \in Nat /\ opt.max_live \in Nat
      /\ opt.max_concurrency \in Nat /\ opt.max_waiting \in Nat
      /\ opt.min_idle \in Nat
  BY <1>1 DEF Types, Sensible
<1>4. idle \in Nat BY <1>1 DEF Types
<1> QED BY <1>1, <1>2, <1>3, <1>4 DEF Numbers

\* The numbers of the next state are those of CountsAddUp.
LEMMA NumbersNext ==
    ASSUME Numbers'
    PROVE  CountsAddUp'
  BY DEF CountsAddUp, Numbers, Making, Held, MakingPlaces, HeldPlaces

\* A request that is served or refused: prune_expired keeps k of the idle
\* clients, and the request goes where the code sends it.
LEMMA AcquireCounts ==
    ASSUME Sensible, IInv, NEW r \in Requests, Acquire(r)
    PROVE  Numbers'
<1>1. /\ Types /\ Numbers
      /\ Making \in Nat /\ Held \in Nat /\ Warming \in {0, 1}
      /\ idle \in Nat /\ live \in Nat /\ creating \in Nat
      /\ waiting \in Nat /\ inFlight \in Nat
      /\ opt.max_idle \in Nat /\ opt.max_live \in Nat
      /\ opt.max_concurrency \in Nat /\ opt.max_waiting \in Nat
  BY Known
<1>2. ASSUME NEW to \in Places, Go(r, to) PROVE Shifted(r, to)
  BY <1>1, <1>2, RequestMoves
<1>3. CASE AcquireTurn(r)
  <2>1. Shifted(r, "look")
    BY <1>2, <1>3 DEF AcquireTurn, Places, Shopping, Queued, Holding
  <2>2. Making' = Making /\ Held' = Held /\ Warming' = Warming
    BY <1>1, <1>3, <2>1 DEF Shifted, Follows, MakingPlaces, HeldPlaces,
       Holding, AcquireTurn, At
  <2> QED
    BY <1>1, <1>3, <2>1, <2>2 DEF AcquireTurn, Numbers, counts, environment,
         Shifted
<1>4. CASE AcquireCreates(r)
  <2>1. Shifted(r, "creating") BY <1>2, <1>4 DEF AcquireCreates, Places
  <2>2. /\ waiting' = Cardinality(entered') /\ Cardinality(entered') \in Nat
        /\ waiting' <= waiting
    BY <1>1, <1>4, QueueLeft DEF AcquireCreates
  <2>3. /\ pc[r] = "look" /\ inFlight < opt.max_concurrency
        /\ live - idle < opt.max_live
        /\ idle' = 0 /\ live' = live - idle + 1 /\ creating' = creating + 1
        /\ inFlight' = inFlight + 1 /\ opt' = opt
    BY <1>1, <1>4 DEF AcquireCreates, LiveKept, Admits, At, environment
  <2>4. Making' = Making + 1 /\ Held' = Held + 1 /\ Warming' = Warming
    BY <1>1, <2>1, <2>3 DEF Shifted, Follows, MakingPlaces, HeldPlaces, Holding
  <2> QED BY <1>1, <2>2, <2>3, <2>4 DEF Numbers
<1>5. CASE WaitEnds(r)
  <2>1. Shifted(r, "top")
    BY <1>2, <1>5 DEF WaitEnds, Places, Shopping, Queued, Holding
  <2>2. Making' = Making /\ Held' = Held /\ Warming' = Warming
    BY <1>1, <1>5, <2>1 DEF Shifted, Follows, MakingPlaces, HeldPlaces,
       Holding, WaitEnds, At
  <2> QED BY <1>1, <1>5, <2>1, <2>2 DEF WaitEnds, Numbers, counts, environment,
         Shifted
<1>6. CASE WaitGivenUp(r)
  <2>1. Shifted(r, "leaving")
    BY <1>2, <1>6 DEF WaitGivenUp, Places, Shopping, Queued, Holding
  <2>2. Making' = Making /\ Held' = Held /\ Warming' = Warming
    BY <1>1, <1>6, <2>1 DEF Shifted, Follows, MakingPlaces, HeldPlaces,
       Holding, WaitGivenUp, At
  <2> QED
    BY <1>1, <1>6, <2>1, <2>2 DEF WaitGivenUp, Numbers, counts, environment,
         Shifted
<1>7. CASE WaiterDrops(r)
  <2>1. Shifted(r, "done") BY <1>2, <1>7 DEF WaiterDrops, Places
  <2>2. /\ waiting' = Cardinality(entered') /\ Cardinality(entered') \in Nat
        /\ waiting' <= waiting
    BY <1>1, <1>7, QueueLeft DEF WaiterDrops
  <2>3. Making' = Making /\ Held' = Held /\ Warming' = Warming
    BY <1>1, <1>7, <2>1 DEF Shifted, Follows, MakingPlaces, HeldPlaces,
       Holding, WaiterDrops, At
  <2> QED BY <1>1, <1>7, <2>2, <2>3 DEF WaiterDrops, Numbers, environment
<1>8. ASSUME NEW k \in 0 .. idle
      PROVE  /\ k \in Nat /\ k <= idle
             /\ LiveKept(k) = k + Held + Warming /\ LiveKept(k) <= live
  BY <1>1, <1>8 DEF LiveKept, Numbers
<1>9. ASSUME NEW k \in 0 .. idle, AcquireClosed(r, k) PROVE Numbers'
  <2>1. \E to \in {"leaving", "done"} : Shifted(r, to)
    BY <1>2, <1>9 DEF AcquireClosed, Places, Shopping, Queued
  <2>2. Making' = Making /\ Held' = Held /\ Warming' = Warming
    BY <1>1, <1>9, <2>1 DEF Shifted, Follows, MakingPlaces, HeldPlaces,
       Holding, AcquireClosed, At
  <2> QED BY <1>1, <1>8, <1>9, <2>2 DEF AcquireClosed, Numbers, environment
<1>10. ASSUME NEW k \in 0 .. idle, AcquireWaits(r, k) PROVE Numbers'
  <2>1. \E to \in {"wait", "done"} : Shifted(r, to)
    BY <1>2, <1>10 DEF AcquireWaits, Places, Shopping, Queued
  <2>2. /\ waiting' = Cardinality(entered') /\ Cardinality(entered') \in Nat
        /\ waiting' <= opt.max_waiting
    <3>1. CASE r \in entered \/ waiting < opt.max_waiting
      BY <1>1, <1>10, <3>1, QueueJoined DEF AcquireWaits
    <3>2. CASE ~(r \in entered \/ waiting < opt.max_waiting)
      BY <1>1, <1>10, <3>2 DEF AcquireWaits, Numbers
    <3> QED BY <3>1, <3>2
  <2>3. /\ pc[r] = "look" /\ idle' = k /\ live' = LiveKept(k)
        /\ UNCHANGED <<creating, inFlight, opt>>
    BY <1>10 DEF AcquireWaits, At, environment
  <2>4. Making' = Making /\ Held' = Held /\ Warming' = Warming
    BY <1>1, <2>1, <2>3 DEF Shifted, Follows, MakingPlaces, HeldPlaces, Holding
  <2> QED BY <1>1, <1>8, <2>2, <2>3, <2>4 DEF Numbers
<1>11. ASSUME NEW k \in 0 .. idle, AcquireReuses(r, k) PROVE Numbers'
  <2>1. Shifted(r, "recycling")
    BY <1>2, <1>11 DEF AcquireReuses, Places, Holding
  <2>2. /\ waiting' = Cardinality(entered') /\ Cardinality(entered') \in Nat
        /\ waiting' <= waiting
    BY <1>1, <1>11, QueueLeft DEF AcquireReuses
  <2>3. /\ pc[r] = "look" /\ inFlight < opt.max_concurrency /\ k > 0
        /\ idle' = k - 1 /\ live' = LiveKept(k) /\ inFlight' = inFlight + 1
        /\ UNCHANGED <<creating, opt>>
    BY <1>11 DEF AcquireReuses, Admits, At, environment
  <2>4. Making' = Making /\ Held' = Held + 1 /\ Warming' = Warming
    BY <1>1, <2>1, <2>3 DEF Shifted, Follows, MakingPlaces, HeldPlaces, Holding
  <2> QED BY <1>1, <1>8, <2>2, <2>3, <2>4 DEF Numbers
<1>12. ASSUME NEW k \in 0 .. idle, CreateInner(r, k) PROVE Numbers'
  <2>1. CASE status = "Open" /\ LiveKept(k) < opt.max_live /\ Admits
    <3>1. Shifted(r, "creating") BY <1>2, <1>12, <2>1 DEF CreateInner, Places
    <3>2. /\ pc[r] = "top" /\ inFlight < opt.max_concurrency /\ idle' = k
          /\ live' = LiveKept(k) + 1 /\ LiveKept(k) < opt.max_live
          /\ creating' = creating + 1 /\ inFlight' = inFlight + 1
          /\ UNCHANGED <<waiting, entered, opt>>
      BY <1>12, <2>1 DEF CreateInner, Admits, At, environment
    <3>3. Making' = Making + 1 /\ Held' = Held + 1 /\ Warming' = Warming
      BY <1>1, <3>1, <3>2 DEF Shifted, Follows, MakingPlaces, HeldPlaces,
         Holding
    <3> QED BY <1>1, <1>8, <3>2, <3>3 DEF Numbers
  <2>2. CASE ~(status = "Open" /\ LiveKept(k) < opt.max_live /\ Admits)
    <3>1. Shifted(r, "done") BY <1>2, <1>12, <2>2 DEF CreateInner, Places
    <3>2. /\ pc[r] = "top" /\ idle' = k /\ live' = LiveKept(k)
          /\ UNCHANGED <<creating, inFlight, waiting, entered, opt>>
      BY <1>12, <2>2 DEF CreateInner, At, environment
    <3>3. Making' = Making /\ Held' = Held /\ Warming' = Warming
      BY <1>1, <3>1, <3>2 DEF Shifted, Follows, MakingPlaces, HeldPlaces,
         Holding
    <3> QED BY <1>1, <1>8, <3>2, <3>3 DEF Numbers
  <2> QED BY <2>1, <2>2
<1>13. ASSUME NEW k \in 0 .. idle, AcquireIdleWhere(r, k) PROVE Numbers'
  <2>1. CASE /\ Admits /\ k > 0 /\ idle' = k - 1 /\ inFlight' = inFlight + 1
             /\ Go(r, "recycling")
    <3>1. Shifted(r, "recycling") BY <1>2, <2>1 DEF Places, Holding
    <3>2. /\ pc[r] = "top" /\ inFlight < opt.max_concurrency
          /\ live' = LiveKept(k) /\ UNCHANGED <<creating, waiting, entered, opt>>
      BY <1>13, <2>1 DEF AcquireIdleWhere, Admits, At, environment
    <3>3. Making' = Making /\ Held' = Held + 1 /\ Warming' = Warming
      BY <1>1, <3>1, <3>2 DEF Shifted, Follows, MakingPlaces, HeldPlaces,
         Holding
    <3> QED BY <1>1, <1>8, <2>1, <3>2, <3>3 DEF Numbers
  <2>2. CASE idle' = k /\ Go(r, "done") /\ UNCHANGED inFlight
    <3>1. Shifted(r, "done") BY <1>2, <2>2 DEF Places
    <3>2. /\ pc[r] = "top" /\ live' = LiveKept(k)
          /\ UNCHANGED <<creating, waiting, entered, opt>>
      BY <1>13 DEF AcquireIdleWhere, At, environment
    <3>3. Making' = Making /\ Held' = Held /\ Warming' = Warming
      BY <1>1, <3>1, <3>2 DEF Shifted, Follows, MakingPlaces, HeldPlaces,
         Holding
    <3> QED BY <1>1, <1>8, <2>2, <3>2, <3>3 DEF Numbers
  <2> QED BY <1>13, <2>1, <2>2 DEF AcquireIdleWhere
<1> QED
  BY <1>3, <1>4, <1>5, <1>6, <1>7, <1>8, <1>9, <1>10, <1>11, <1>12,
     <1>13 DEF Acquire

\* A request that is served: what it holds is counted until it is returned.
LEMMA ServeCounts ==
    ASSUME Sensible, IInv, NEW r \in Requests, Serve(r)
    PROVE  Numbers'
<1>1. /\ Types /\ Numbers
      /\ Making \in Nat /\ Held \in Nat /\ Warming \in {0, 1}
      /\ idle \in Nat /\ live \in Nat /\ creating \in Nat
      /\ waiting \in Nat /\ inFlight \in Nat
      /\ opt.max_idle \in Nat /\ opt.max_live \in Nat
      /\ opt.max_concurrency \in Nat /\ opt.max_waiting \in Nat
  BY Known
<1>2. ASSUME NEW to \in Places, Go(r, to) PROVE Shifted(r, to)
  BY <1>1, <1>2, RequestMoves
<1>3. ASSUME NEW p \in Policies, RegisterActive(r, p) PROVE Numbers'
  <2>1. \/ pc[r] = "creating" /\ Shifted(r, "finishing")
        \/ pc[r] = "recycling" /\ Shifted(r, "leased")
    BY <1>2, <1>3 DEF RegisterActive, InOperation, Places, Holding, At
  <2>2. UNCHANGED <<idle, live, creating, waiting, inFlight, entered, opt>>
    BY <1>3 DEF RegisterActive, counts, environment
  <2>3. Making' = Making /\ Held' = Held /\ Warming' = Warming
    BY <1>1, <2>1 DEF Shifted, Follows, MakingPlaces, HeldPlaces, Holding
  <2> QED BY <1>1, <2>2, <2>3 DEF Numbers
<1>4. CASE FinishCreate(r)
  <2>1. Shifted(r, "leased")
    BY <1>2, <1>4 DEF FinishCreate, Places, Shopping, Queued, Holding
  <2>2. Making' = Making - 1 /\ Held' = Held /\ Warming' = Warming
    BY <1>1, <1>4, <2>1 DEF Shifted, Follows, MakingPlaces, HeldPlaces,
       Holding, FinishCreate, At
  <2> QED
    BY <1>1, <1>4, <2>1, <2>2 DEF FinishCreate, Numbers, counts, environment,
         Shifted
<1>5. CASE ReservationDrops(r)
  <2>1. Shifted(r, "done") BY <1>2, <1>5 DEF ReservationDrops, Places
  <2>2. Making' \in Nat /\ Held' \in Nat BY <2>1 DEF Shifted
  <2>3. /\ live' = live - 1 /\ inFlight' = inFlight - 1
        /\ UNCHANGED <<idle, waiting, entered, opt>>
    BY <1>5 DEF ReservationDrops, environment
  <2>4. CASE pc[r] = "creating"
    <3>1. Making' = Making - 1 /\ Held' = Held - 1 /\ Warming' = Warming
      BY <2>1, <2>4 DEF Shifted, Follows, MakingPlaces, HeldPlaces, Holding
    <3>2. creating' = creating - 1 BY <1>5, <2>4 DEF ReservationDrops
    <3> QED BY <1>1, <2>2, <2>3, <3>1, <3>2 DEF Numbers
  <2>5. CASE pc[r] = "recycling"
    <3>1. Making' = Making /\ Held' = Held - 1 /\ Warming' = Warming
      BY <2>1, <2>5 DEF Shifted, Follows, MakingPlaces, HeldPlaces, Holding
    <3>2. creating' = creating BY <1>5, <2>5 DEF ReservationDrops
    <3> QED BY <1>1, <2>2, <2>3, <3>1, <3>2 DEF Numbers
  <2> QED BY <1>5, <2>4, <2>5 DEF ReservationDrops, InOperation, At
<1>6. CASE LeaseDrops(r)
  <2>1. Shifted(r, "returning") BY <1>2, <1>6 DEF LeaseDrops, Places, Holding
  <2>2. Making' = Making /\ Held' = Held /\ Warming' = Warming
    BY <1>1, <1>6, <2>1 DEF Shifted, Follows, MakingPlaces, HeldPlaces,
       Holding, LeaseDrops, At
  <2> QED
    BY <1>1, <1>6, <2>2 DEF LeaseDrops, Unregister, Numbers, counts,
       environment
<1>7. CASE LeaseDiscards(r)
  <2>1. Shifted(r, "retiring") BY <1>2, <1>7 DEF LeaseDiscards, Places, Holding
  <2>2. Making' = Making /\ Held' = Held /\ Warming' = Warming
    BY <1>1, <1>7, <2>1 DEF Shifted, Follows, MakingPlaces, HeldPlaces,
       Holding, LeaseDiscards, At
  <2> QED
    BY <1>1, <1>7, <2>2 DEF LeaseDiscards, Unregister, Numbers, counts,
       environment
<1>8. CASE ReturnEntry(r)
  <2>1. \E to \in {"done", "dropping"} : Shifted(r, to)
    BY <1>2, <1>8 DEF ReturnEntry, Places
  <2>2. Making' = Making /\ Held' = Held - 1 /\ Warming' = Warming
    BY <1>1, <1>8, <2>1 DEF Shifted, Follows, MakingPlaces, HeldPlaces,
       Holding, ReturnEntry, At
  <2> QED
    BY <1>1, <1>8, <2>1, <2>2 DEF ReturnEntry, Numbers, environment, Shifted
<1>9. CASE EntryDrops(r)
  <2>1. Shifted(r, "done")
    BY <1>2, <1>9 DEF EntryDrops, Places, Shopping, Queued, Holding
  <2>2. Making' = Making /\ Held' = Held /\ Warming' = Warming
    BY <1>1, <1>9, <2>1 DEF Shifted, Follows, MakingPlaces, HeldPlaces,
       Holding, EntryDrops, At
  <2> QED
    BY <1>1, <1>9, <2>1, <2>2 DEF EntryDrops, Numbers, counts, environment,
         Shifted
<1>10. CASE RetireOne(r)
  <2>1. Shifted(r, "done")
    BY <1>2, <1>10 DEF RetireOne, Places, Shopping, Queued, Holding
  <2>2. Making' = Making /\ Held' = Held - 1 /\ Warming' = Warming
    BY <1>1, <1>10, <2>1 DEF Shifted, Follows, MakingPlaces, HeldPlaces,
       Holding, RetireOne, At
  <2> QED
    BY <1>1, <1>10, <2>1, <2>2 DEF RetireOne, Numbers, counts, environment,
         Shifted
<1> QED BY <1>3, <1>4, <1>5, <1>6, <1>7, <1>8, <1>9, <1>10 DEF Serve

\* run counts the client it warms; drain and the owner drop idle ones.
LEMMA OthersCount ==
    ASSUME Sensible, IInv, Run \/ (\E d \in Drainers : Drain(d)) \/ Owner
    PROVE  Numbers'
<1> USE DEF At, counts, environment
<1>1. /\ Types /\ Numbers
      /\ Making \in Nat /\ Held \in Nat /\ Warming \in {0, 1}
      /\ idle \in Nat /\ live \in Nat /\ creating \in Nat
      /\ waiting \in Nat /\ inFlight \in Nat
      /\ opt.max_idle \in Nat /\ opt.max_live \in Nat
      /\ opt.max_concurrency \in Nat /\ opt.max_waiting \in Nat
  BY Known
<1>2. ASSUME NEW to \in Places, Go("run", to)
      PROVE  /\ Making' = Making /\ Held' = Held
             /\ Warming' = IF to = "warming" THEN 1 ELSE 0
  BY <1>1, <1>2, DrainerMoves DEF Drainers
<1>3. pc["run"] = "warming" <=> Warming = 1 BY DEF Warming
<1>4. ASSUME NEW k \in 0 .. idle, RunTurn(k) PROVE Numbers'
  <2>1. k \in Nat /\ k <= idle /\ LiveKept(k) = live - (idle - k)
    BY <1>1, <1>4 DEF LiveKept
  <2>2. Making' = Making /\ Held' = Held /\ Warming' = 0 /\ Warming = 0
    BY <1>1, <1>2, <1>3, <1>4 DEF RunTurn, Places, Draining
  <2> QED BY <1>1, <1>4, <2>1, <2>2 DEF RunTurn, Numbers
<1>5. CASE ReserveWarmCreate
  <2>1. /\ Making' = Making /\ Held' = Held /\ Warming = 0
        /\ Warming' = IF WantsWarm THEN 1 ELSE 0
    BY <1>1, <1>2, <1>3, <1>5 DEF ReserveWarmCreate, Places
  <2> QED BY <1>1, <1>5, <2>1 DEF ReserveWarmCreate, WantsWarm, Numbers
<1>6. CASE FinishWarmCreate
  <2>1. Making' = Making /\ Held' = Held /\ Warming' = 0 /\ Warming = 1
    BY <1>1, <1>2, <1>3, <1>6 DEF FinishWarmCreate, Places, Shopping
  <2> QED BY <1>1, <1>6, <2>1 DEF FinishWarmCreate, Numbers
<1>7. CASE WarmCreateDrops
  <2>1. Making' = Making /\ Held' = Held /\ Warming' = 0 /\ Warming = 1
    BY <1>1, <1>2, <1>3, <1>7 DEF WarmCreateDrops, Places
  <2> QED BY <1>1, <1>7, <2>1 DEF WarmCreateDrops, Numbers
<1>8. CASE RunSleeps \/ RunWakes
  <2>1. Making' = Making /\ Held' = Held /\ Warming' = 0 /\ Warming = 0
    BY <1>1, <1>2, <1>3, <1>8 DEF RunSleeps, RunWakes, Places, Shopping
  <2> QED BY <1>1, <1>8, <2>1 DEF RunSleeps, RunWakes, Numbers
<1>9. ASSUME NEW d \in Drainers, NEW to \in Places, Go(d, to),
             ~(d = "run" /\ "warming" \in {pc[d], to})
      PROVE  Making' = Making /\ Held' = Held /\ Warming' = Warming
  BY <1>1, <1>9, DrainerMoves DEF Warming
<1>10. ASSUME NEW d \in Drainers, Drain(d) PROVE Numbers'
  <2>1. Making' = Making /\ Held' = Held /\ Warming' = Warming
    BY <1>9, <1>10 DEF Drain, DrainStarts, DrainArms, DrainLooks, DrainWakes,
       Places, Draining
  <2> QED
    BY <1>1, <1>10, <2>1 DEF Drain, DrainStarts, DrainArms, DrainLooks,
       DrainWakes, Numbers
<1>11. CASE OwnerDrains
  <2>1. Making' = Making /\ Held' = Held /\ Warming' = Warming
    BY <1>9, <1>11 DEF OwnerDrains, Places, Drainers
  <2> QED BY <1>1, <1>11, <2>1 DEF OwnerDrains, Numbers
<1>12. CASE \/ Close \/ Pause \/ Resume \/ CancelActive \/ DiscardIdleWhere
            \/ GraceEnds
  <2>1. pc' = pc
    BY <1>12 DEF Close, Pause, Resume, CancelActive, DiscardIdleWhere,
       GraceEnds
  <2>2. Making' = Making /\ Held' = Held /\ Warming' = Warming
    BY <2>1, RequestsStay DEF Warming
  <2> QED
    BY <1>1, <1>12, <2>2 DEF Close, Pause, Resume, CancelActive,
       DiscardIdleWhere, GraceEnds, Numbers
<1> QED
  BY <1>4, <1>5, <1>6, <1>7, <1>8, <1>10, <1>11, <1>12 DEF Run, Owner

-----------------------------------------------------------------------------
(***************************************************************************)
(* Types and control                                                       *)
(***************************************************************************)

\* Every step of a request is a move of that request.
LEMMA RequestSteps ==
    ASSUME Sensible, IInv, NEW r \in Requests, Acquire(r) \/ Serve(r)
    PROVE  r \in Tasks /\ \E to \in Places : Go(r, to) /\ Moved(r, to)
<1>1. Types BY DEF IInv
<1>2. r \in Tasks BY DEF Tasks
<1>3. ASSUME NEW to \in Places, Go(r, to)
      PROVE  \E x \in Places : Go(r, x) /\ Moved(r, x)
  BY <1>1, <1>2, <1>3, TaskMoves
<1>4. CASE Acquire(r)
  <2>1. \E to \in Places : Go(r, to)
    BY <1>4 DEF Acquire, AcquireTurn, AcquireCreates, WaitEnds, WaitGivenUp,
       WaiterDrops, AcquireClosed, AcquireWaits, AcquireReuses, CreateInner,
       AcquireIdleWhere, Places, Shopping, Queued, Holding
  <2> QED BY <1>2, <1>3, <2>1
<1>5. CASE Serve(r)
  <2>1. \E to \in Places : Go(r, to)
    BY <1>5 DEF Serve, RegisterActive, FinishCreate, ReservationDrops,
       LeaseDrops, LeaseDiscards, ReturnEntry, EntryDrops, RetireOne, Places,
       Holding
  <2> QED BY <1>2, <1>3, <2>1
<1> QED BY <1>4, <1>5

\* Every step of run or drain is a move of that task.
LEMMA DrainerSteps ==
    ASSUME Sensible, IInv, NEW d \in Drainers, (d = "run" /\ Run) \/ Drain(d)
    PROVE  d \in Tasks /\ \E to \in Places : Go(d, to) /\ Moved(d, to)
<1>1. Types BY DEF IInv
<1>2. d \in Tasks BY DEF Tasks
<1>3. \E to \in Places : Go(d, to)
  BY DEF Run, RunTurn, ReserveWarmCreate, FinishWarmCreate, WarmCreateDrops,
     RunSleeps, RunWakes, Drain, DrainStarts, DrainArms, DrainLooks,
     DrainWakes, Places, Shopping, Draining
<1> QED BY <1>1, <1>2, <1>3, TaskMoves

\* The owner's calls move no task, but for the one that calls drain.
LEMMA OwnerSteps ==
    ASSUME Sensible, IInv, Owner
    PROVE  pc' = pc \/ (OwnerDrains /\ Moved("drain", "drain"))
<1>1. Types /\ "drain" \in Tasks /\ "drain" \in Places
  BY DEF IInv, Tasks, Drainers, Places
<1>2. OwnerDrains => Moved("drain", "drain")
  BY <1>1, TaskMoves DEF OwnerDrains
<1> QED
  BY <1>2 DEF Owner, Close, Pause, Resume, CancelActive, DiscardIdleWhere,
     GraceEnds

\* Whatever is not a step of a request leaves the requests where they are.
LEMMA OthersMoveNobody ==
    ASSUME Sensible, IInv, Run \/ (\E d \in Drainers : Drain(d)) \/ Owner
    PROVE  \A r \in Requests : pc'[r] = pc[r]
<1>1. \A r \in Requests : r \in Tasks /\ r \notin Drainers
  BY DEF Sensible, Tasks
<1>2. "run" \in Drainers /\ "drain" \in Drainers BY DEF Drainers
<1>3. CASE Run BY <1>1, <1>2, <1>3, DrainerSteps DEF Moved
<1>4. CASE \E d \in Drainers : Drain(d)
  BY <1>1, <1>4, DrainerSteps DEF Moved
<1>5. CASE Owner BY <1>1, <1>2, <1>5, OwnerSteps DEF Moved
<1> QED BY <1>3, <1>4, <1>5

\* A step rings, arms or drops futures, or leaves them.
LEMMA NoteStep ==
    ASSUME Sensible, IInv, Next
    PROVE  note' \in Notes
<1>1. Types /\ note \in Notes BY DEF IInv, Types
<1>2. ASSUME NEW t \in Tasks,
             NotifyWaiters \/ Notified(t) \/ Forget(t) \/ UNCHANGED note
      PROVE  note' \in Notes
  BY <1>1, <1>2, NotifyRings, NotifiedArms, ForgetDrops
<1>3. \A r \in Requests : r \in Tasks BY DEF Tasks
<1>4. "run" \in Tasks /\ "drain" \in Tasks BY DEF Tasks, Drainers
<1>5. ASSUME NEW r \in Requests, Acquire(r) PROVE note' \in Notes
  BY <1>2, <1>3, <1>5 DEF Acquire, AcquireTurn, AcquireCreates, WaitEnds,
     WaitGivenUp, WaiterDrops, AcquireClosed, AcquireWaits, AcquireReuses,
     CreateInner, AcquireIdleWhere
<1>6. ASSUME NEW r \in Requests, Serve(r) PROVE note' \in Notes
  BY <1>2, <1>3, <1>6 DEF Serve, RegisterActive, FinishCreate,
     ReservationDrops, LeaseDrops, LeaseDiscards, Unregister, ReturnEntry,
     EntryDrops, RetireOne
<1>7. CASE Run
  BY <1>2, <1>4, <1>7 DEF Run, RunTurn, ReserveWarmCreate, FinishWarmCreate,
     WarmCreateDrops, RunSleeps, RunWakes
<1>8. ASSUME NEW d \in Drainers, Drain(d) PROVE note' \in Notes
  BY <1>2, <1>4, <1>8 DEF Drainers, Drain, DrainStarts, DrainArms, DrainLooks,
     DrainWakes
<1>9. CASE Owner
  BY <1>2, <1>4, <1>9 DEF Owner, Close, OwnerDrains, Pause, Resume,
     CancelActive, DiscardIdleWhere, GraceEnds
<1> QED BY <1>5, <1>6, <1>7, <1>8, <1>9 DEF Next

\* Every step keeps the types.
LEMMA TypesStep ==
    ASSUME Sensible, IInv, Next
    PROVE  Types'
<1> USE DEF counts, shutting, lease, environment
<1>1. /\ opt \in Options /\ idle \in Nat
      /\ status \in {"Open", "Paused", "Draining", "Closed"}
      /\ drainStarted \in BOOLEAN /\ graceOver \in BOOLEAN
      /\ registered \subseteq Requests /\ token \subseteq Requests
      /\ entered \subseteq Requests
      /\ pc \in [Tasks -> Places] /\ policy \in [Requests -> Policies]
  BY DEF IInv, Types
<1> DEFINE Rest ==
        /\ opt' \in Options /\ idle' \in Nat
        /\ status' \in {"Open", "Paused", "Draining", "Closed"}
        /\ drainStarted' \in BOOLEAN /\ graceOver' \in BOOLEAN
        /\ registered' \subseteq Requests /\ token' \subseteq Requests
        /\ entered' \subseteq Requests
        /\ policy' \in [Requests -> Policies]
<1>2. note' \in Notes BY NoteStep
<1>3. pc' \in [Tasks -> Places]
  BY <1>1, RequestSteps, DrainerSteps, OwnerSteps DEF Next, Moved, Drainers
<1>4. ASSUME NEW r \in Requests, Acquire(r) PROVE Rest
  BY <1>1, <1>4 DEF Acquire, AcquireTurn, AcquireCreates, WaitEnds,
     WaitGivenUp, WaiterDrops, AcquireClosed, AcquireWaits, AcquireReuses,
     CreateInner, AcquireIdleWhere, LeaveQueue
<1>5. ASSUME NEW r \in Requests, Serve(r) PROVE Rest
  <2>1. ASSUME NEW p \in Policies, RegisterActive(r, p) PROVE Rest
    BY <1>1, <2>1 DEF RegisterActive
  <2>2. ASSUME LeaseDrops(r) \/ LeaseDiscards(r) PROVE Rest
    BY <1>1, <2>2 DEF LeaseDrops, LeaseDiscards, Unregister, Policies
  <2>3. ASSUME \/ FinishCreate(r) \/ ReservationDrops(r) \/ EntryDrops(r)
               \/ RetireOne(r) \/ ReturnEntry(r)
        PROVE  Rest
    BY <1>1, <2>3 DEF FinishCreate, ReservationDrops, EntryDrops, RetireOne,
       ReturnEntry
  <2> QED BY <1>5, <2>1, <2>2, <2>3 DEF Serve
<1>6. ASSUME Run PROVE Rest
  BY <1>1, <1>6 DEF Run, RunTurn, ReserveWarmCreate, FinishWarmCreate,
     WarmCreateDrops, RunSleeps, RunWakes
<1>7. ASSUME NEW d \in Drainers, Drain(d) PROVE Rest
  <2>1. DueNow \subseteq Requests BY <1>1 DEF DueNow
  <2>2. CASE DrainStarts(d) BY <1>1, <2>1, <2>2 DEF DrainStarts
  <2>3. CASE DrainArms(d) \/ DrainWakes(d)
    BY <1>1, <2>3 DEF DrainArms, DrainWakes
  <2>4. CASE DrainLooks(d) BY <1>1, <2>1, <2>4 DEF DrainLooks
  <2> QED BY <1>7, <2>2, <2>3, <2>4 DEF Drain
<1>8. ASSUME Owner PROVE Rest
  <2>1. CASE Close \/ OwnerDrains \/ Pause \/ Resume \/ DiscardIdleWhere
    BY <1>1, <2>1 DEF Close, OwnerDrains, Pause, Resume, DiscardIdleWhere
  <2>2. CASE CancelActive BY <1>1, <2>2 DEF CancelActive
  <2>3. CASE GraceEnds BY <1>1, <2>3 DEF GraceEnds
  <2> QED BY <1>8, <2>1, <2>2, <2>3 DEF Owner
<1>9. Rest BY <1>4, <1>5, <1>6, <1>7, <1>8 DEF Next
<1> QED BY <1>2, <1>3, <1>9 DEF Types

\* A request is in the queue while the count says so.
LEMMA QueueStep ==
    ASSUME Sensible, IInv, Next
    PROVE  QueueInv'
<1>1. /\ \A r \in Requests : r \in Tasks
      /\ \A r \in Requests : /\ pc[r] \in Queued => r \in entered
                             /\ r \in entered => pc[r] \in Shopping
  BY DEF IInv, QueueInv, Tasks
<1>2. ASSUME NEW r \in Requests, Acquire(r) \/ Serve(r) PROVE QueueInv'
  <2>1. PICK to \in Places : Go(r, to) /\ Moved(r, to)
    BY <1>2, RequestSteps
  <2>2. pc'[r] = to /\ \A q \in Requests : q # r => pc'[q] = pc[q]
    BY <1>1, <2>1 DEF Moved
  <2>3. \A q \in Requests : q # r => (q \in entered' <=> q \in entered)
    BY <1>2 DEF Acquire, AcquireTurn, AcquireCreates, WaitEnds, WaitGivenUp,
       WaiterDrops, AcquireClosed, AcquireWaits, AcquireReuses, CreateInner,
       AcquireIdleWhere, LeaveQueue, Serve, RegisterActive, FinishCreate,
       ReservationDrops, LeaseDrops, LeaseDiscards, Unregister, ReturnEntry,
       EntryDrops, RetireOne
  <2>4. CASE Acquire(r)
    <3>1. /\ pc'[r] \in Queued => r \in entered'
          /\ r \in entered' => pc'[r] \in Shopping
      <4> USE DEF Queued, Shopping, At
      <4>1. ASSUME NEW x \in Places, Go(r, x) PROVE pc'[r] = x
        BY <1>1, <4>1 DEF Go, IInv, Types
      <4> HIDE <2>2
      <4>2. CASE AcquireTurn(r)
        BY <1>1, <4>1, <4>2 DEF AcquireTurn, Places
      <4>3. CASE AcquireCreates(r)
        BY <1>1, <4>1, <4>3 DEF AcquireCreates, LeaveQueue, Places
      <4>4. CASE WaitEnds(r) \/ WaitGivenUp(r)
        BY <1>1, <4>1, <4>4 DEF WaitEnds, WaitGivenUp, Places
      <4>5. CASE WaiterDrops(r)
        BY <1>1, <4>1, <4>5 DEF WaiterDrops, LeaveQueue, Places
      <4>6. ASSUME NEW k \in 0 .. idle, AcquireClosed(r, k)
            PROVE  /\ pc'[r] \in Queued => r \in entered'
                   /\ r \in entered' => pc'[r] \in Shopping
        BY <1>1, <4>1, <4>6 DEF AcquireClosed, Places
      <4>7. ASSUME NEW k \in 0 .. idle, AcquireWaits(r, k)
            PROVE  /\ pc'[r] \in Queued => r \in entered'
                   /\ r \in entered' => pc'[r] \in Shopping
        BY <1>1, <4>1, <4>7 DEF AcquireWaits, Places
      <4>8. ASSUME NEW k \in 0 .. idle, AcquireReuses(r, k)
            PROVE  /\ pc'[r] \in Queued => r \in entered'
                   /\ r \in entered' => pc'[r] \in Shopping
        BY <1>1, <4>1, <4>8 DEF AcquireReuses, LeaveQueue, Places, Holding
      <4>9. ASSUME NEW k \in 0 .. idle,
                   CreateInner(r, k) \/ AcquireIdleWhere(r, k)
            PROVE  /\ pc'[r] \in Queued => r \in entered'
                   /\ r \in entered' => pc'[r] \in Shopping
        BY <1>1, <4>1, <4>9 DEF CreateInner, AcquireIdleWhere, Places, Holding
      <4> QED
        BY <2>4, <4>2, <4>3, <4>4, <4>5, <4>6, <4>7, <4>8, <4>9 DEF Acquire
    <3> QED BY <1>1, <2>2, <2>3, <3>1 DEF QueueInv
  <2>5. CASE Serve(r)
    <3>1. pc[r] \notin Shopping /\ pc'[r] \notin Queued /\ entered' = entered
      BY <2>1, <2>2, <2>5 DEF Serve, RegisterActive, InOperation, FinishCreate,
         ReservationDrops, LeaseDrops, LeaseDiscards, Unregister, ReturnEntry,
         EntryDrops, RetireOne, At, Go, Shopping, Queued, Places, Holding,
            IInv,
         Types
    <3> QED BY <1>1, <2>2, <3>1 DEF QueueInv
  <2> QED BY <1>2, <2>4, <2>5
<1>3. CASE Run \/ (\E d \in Drainers : Drain(d)) \/ Owner
  <2>1. entered' = entered
    BY <1>3 DEF Run, RunTurn, ReserveWarmCreate, FinishWarmCreate,
       WarmCreateDrops, RunSleeps, RunWakes, Drain, DrainStarts, DrainArms,
       DrainLooks, DrainWakes, Owner, Close, OwnerDrains, Pause, Resume,
       CancelActive, DiscardIdleWhere, GraceEnds
  <2>2. \A r \in Requests : pc'[r] = pc[r] BY <1>3, OthersMoveNobody
  <2> QED BY <1>1, <2>1, <2>2 DEF QueueInv
<1> QED BY <1>2, <1>3 DEF Next

-----------------------------------------------------------------------------
(***************************************************************************)
(* Stopping and signals                                                    *)
(***************************************************************************)
Stopped == {"Draining", "Closed"}

\* Requests, and run until it drains, do not touch the status, and bring no
\* idle client to a pool that stops.
LEMMA RequestsDoNotStop ==
    ASSUME Sensible, IInv, Run \/ \E r \in Requests : Acquire(r) \/ Serve(r)
    PROVE  status' = status /\ (status \in Stopped => idle' = 0 /\ live' <= live)
                            /\ (status \in Stopped /\ ~NotifyWaiters => live' = live)
<1> USE DEF counts
<1>1. /\ idle \in Nat /\ live \in Nat /\ (status \in Stopped => idle = 0)
  BY Known DEF IInv, StopInv, Stopped
<1>2. ASSUME NEW k \in 0 .. idle, status \in Stopped
      PROVE  k = 0 /\ LiveKept(k) = live
  BY <1>1, <1>2 DEF LiveKept
<1>3. ASSUME NEW r \in Requests, Acquire(r)
      PROVE  status' = status /\ (status \in Stopped => idle' = 0 /\ live' = live)
  <2>1. CASE AcquireTurn(r) \/ WaitEnds(r) \/ WaitGivenUp(r) \/ WaiterDrops(r)
    BY <1>1, <2>1 DEF AcquireTurn, WaitEnds, WaitGivenUp, WaiterDrops
  <2>2. CASE AcquireCreates(r)
    BY <2>2 DEF AcquireCreates, Stopped
  <2>3. ASSUME NEW k \in 0 .. idle,
               AcquireClosed(r, k) \/ AcquireWaits(r, k) \/ AcquireReuses(r, k)
        PROVE  status' = status /\ (status \in Stopped => idle' = 0 /\ live' = live)
    BY <1>2, <2>3 DEF AcquireClosed, AcquireWaits, AcquireReuses, Stopped
  <2>4. ASSUME NEW k \in 0 .. idle, CreateInner(r, k) \/ AcquireIdleWhere(r, k)
        PROVE  status' = status /\ (status \in Stopped => idle' = 0 /\ live' = live)
    BY <1>2, <2>4 DEF CreateInner, AcquireIdleWhere, Stopped
  <2> QED BY <1>3, <2>1, <2>2, <2>3, <2>4 DEF Acquire
<1>4. ASSUME NEW r \in Requests, Serve(r)
      PROVE  /\ status' = status /\ (status \in Stopped => idle' = 0)
             /\ live' = live \/ (live' = live - 1 /\ NotifyWaiters)
  BY <1>1, <1>4 DEF Serve, RegisterActive, FinishCreate, ReservationDrops,
     LeaseDrops, LeaseDiscards, Unregister, ReturnEntry, EntryDrops, RetireOne,
     Stopped
<1>5. ASSUME Run
      PROVE  /\ status' = status /\ (status \in Stopped => idle' = 0)
             /\ status \in Stopped =>
                   live' = live \/ (live' = live - 1 /\ NotifyWaiters)
  <2>1. ASSUME NEW k \in 0 .. idle, RunTurn(k)
        PROVE  status' = status /\ (status \in Stopped => idle' = 0 /\ live' = live)
    BY <1>1, <1>2, <2>1 DEF RunTurn
  <2>2. ASSUME ReserveWarmCreate \/ FinishWarmCreate \/ WarmCreateDrops
        PROVE  /\ status' = status /\ (status \in Stopped => idle' = 0)
               /\ status \in Stopped =>
                     live' = live \/ (live' = live - 1 /\ NotifyWaiters)
    BY <1>1, <2>2 DEF ReserveWarmCreate, FinishWarmCreate, WarmCreateDrops,
       WantsWarm, Stopped
  <2>3. ASSUME RunSleeps \/ RunWakes
        PROVE  status' = status /\ idle' = idle /\ live' = live
    BY <2>3 DEF RunSleeps, RunWakes
  <2> QED BY <1>1, <1>5, <2>1, <2>2, <2>3 DEF Run
<1> QED BY <1>1, <1>3, <1>4, <1>5

\* A pool that stops goes on stopping, and keeps no idle client.
LEMMA StopStep ==
    ASSUME Sensible, IInv, Next
    PROVE  StopInv'
<1> USE DEF counts, Stopped
<1>1. /\ \A d \in Drainers : pc[d] \in Draining => status \in Stopped
      /\ status \in Stopped => idle = 0
      /\ status \in {"Open", "Paused", "Draining", "Closed"}
      /\ idle \in Nat
  BY DEF IInv, StopInv, Types
<1>2. \A r \in Requests : r \in Tasks /\ r \notin Drainers
  BY DEF Sensible, Tasks
<1>3. \A d \in Drainers : d \in Tasks BY DEF Tasks
<1>4. ASSUME NEW r \in Requests, Acquire(r) \/ Serve(r) PROVE StopInv'
  <2>1. \A d \in Drainers : pc'[d] = pc[d]
    BY <1>2, <1>3, <1>4, RequestSteps DEF Moved
  <2> QED BY <1>1, <1>4, <2>1, RequestsDoNotStop DEF StopInv
<1>5. CASE Run
  <2>1. pc'["run"] \notin Draining
    <3>1. ASSUME NEW to \in Places, Go("run", to) PROVE pc'["run"] = to
      BY <1>3, <3>1 DEF Go, IInv, Types, Drainers
    <3> QED
      BY <1>5, <3>1 DEF Run, RunTurn, ReserveWarmCreate, FinishWarmCreate,
         WarmCreateDrops, RunSleeps, RunWakes, Draining, Places, Shopping
  <2>2. pc'["drain"] = pc["drain"]
    BY <1>3, <1>5, DrainerSteps DEF Moved, Drainers
  <2>3. status' = status /\ (status \in Stopped => idle' = 0)
    BY <1>5, RequestsDoNotStop
  <2> QED BY <1>1, <2>1, <2>2, <2>3 DEF StopInv, Drainers
<1>6. ASSUME NEW d \in Drainers, Drain(d) PROVE StopInv'
  <2>1. status' \in Stopped /\ idle' = 0
    BY <1>1, <1>6 DEF Drain, DrainStarts, DrainArms, DrainLooks, DrainWakes,
       At,
       Draining
  <2> QED BY <2>1 DEF StopInv
<1>7. CASE Owner
  <2>1. \A d \in Drainers : pc'[d] \in Draining => pc[d] \in Draining
    BY <1>3, <1>7, OwnerSteps DEF Moved, Draining, Drainers
  <2>2. /\ status \in Stopped => status' \in Stopped
        /\ status' \in Stopped => idle' = 0
    BY <1>1, <1>7 DEF Owner, Close, OwnerDrains, Pause, Resume, CancelActive,
       DiscardIdleWhere, GraceEnds
  <2> QED BY <1>1, <2>1, <2>2 DEF StopInv
<1> QED BY <1>4, <1>5, <1>6, <1>7 DEF Next

\* A step that leaves the registrations and gives nobody a lease.
LEMMA SignalsStay ==
    ASSUME SignalInv, UNCHANGED <<drainStarted, policy, registered>>,
           token \subseteq token',
           \A r \in Requests : pc'[r] \in {"finishing", "leased"} <=>
              pc[r] \in {"finishing", "leased"},
           registered \subseteq Requests
    PROVE  SignalInv'
  BY DEF SignalInv

\* Nobody who asked for the signal at the start of a drain is without it.
LEMMA SignalStep ==
    ASSUME Sensible, IInv, Next
    PROVE  SignalInv'
<1> USE DEF shutting, lease
<1>1. /\ SignalInv /\ pc \in [Tasks -> Places]
      /\ policy \in [Requests -> Policies]
      /\ registered \subseteq Requests
      /\ \A r \in Requests : r \in Tasks
  BY DEF IInv, Types, Tasks
<1>2. ASSUME NEW r \in Requests, Acquire(r) PROVE SignalInv'
  <2>1. UNCHANGED <<drainStarted, policy, registered, token>>
    BY <1>2 DEF Acquire, AcquireTurn, AcquireCreates, WaitEnds, WaitGivenUp,
       WaiterDrops, AcquireClosed, AcquireWaits, AcquireReuses, CreateInner,
       AcquireIdleWhere
  <2>2. \E to \in Places \ {"finishing", "leased"} : Go(r, to)
    BY <1>2 DEF Acquire, AcquireTurn, AcquireCreates, WaitEnds, WaitGivenUp,
       WaiterDrops, AcquireClosed, AcquireWaits, AcquireReuses, CreateInner,
       AcquireIdleWhere, Places, Shopping, Queued, Holding
  <2>3. /\ \A q \in Requests : q # r => pc'[q] = pc[q]
        /\ pc'[r] \notin {"finishing", "leased"}
    BY <1>1, <2>2 DEF Go
  <2>4. pc[r] \notin {"finishing", "leased"}
    BY <1>2 DEF Acquire, AcquireTurn, AcquireCreates, WaitEnds, WaitGivenUp,
       WaiterDrops, AcquireClosed, AcquireWaits, AcquireReuses, CreateInner,
       AcquireIdleWhere, At
  <2> QED BY <1>1, <2>1, <2>3, <2>4, SignalsStay
<1>3. ASSUME NEW r \in Requests, NEW p \in Policies, RegisterActive(r, p)
      PROVE  SignalInv'
  <2>1. /\ policy' = [policy EXCEPT ![r] = p] /\ drainStarted' = drainStarted
        /\ \A q \in Requests : q # r => pc'[q] = pc[q]
        /\ pc'[r] \in {"finishing", "leased"}
    BY <1>1, <1>3 DEF RegisterActive, Go
  <2>2. policy'[r] = p /\ \A q \in Requests : q # r => policy'[q] = policy[q]
    BY <1>1, <2>1
  <2>3. CASE p = "Preserve" \/ CancelNow(p)
    <3>1. /\ registered' = registered /\ token \subseteq token'
          /\ p = "Now" => r \in token' /\ drainStarted
      BY <1>3, <2>3 DEF RegisterActive, CancelNow
    <3>2. drainStarted /\ p = "Now" => r \notin registered'
      <4>1. pc[r] \in {"creating", "recycling"}
        BY <1>3 DEF RegisterActive, InOperation, At
      <4> QED BY <1>1, <3>1, <4>1 DEF SignalInv
    <3> QED BY <1>1, <2>1, <2>2, <3>1, <3>2 DEF SignalInv
  <2>4. CASE ~(p = "Preserve" \/ CancelNow(p))
    <3>1. /\ registered' = registered \cup {r} /\ token' = token
          /\ p = "Now" => ~drainStarted
      BY <1>3, <2>4 DEF RegisterActive, CancelNow
    <3> QED BY <1>1, <2>1, <2>2, <3>1 DEF SignalInv
  <2> QED BY <2>3, <2>4
<1>4. ASSUME NEW r \in Requests, LeaseDrops(r) \/ LeaseDiscards(r)
      PROVE  SignalInv'
  <2>1. /\ policy' = [policy EXCEPT ![r] = "Preserve"]
        /\ registered' = registered \ {r} /\ token' = token \ {r}
        /\ drainStarted' = drainStarted
        /\ pc'[r] \notin {"finishing", "leased"}
        /\ \A q \in Requests : q # r => pc'[q] = pc[q]
    BY <1>1, <1>4 DEF LeaseDrops, LeaseDiscards, Unregister, Go
  <2>2. \A q \in Requests : q # r => policy'[q] = policy[q]
    BY <1>1, <2>1
  <2> QED BY <1>1, <2>1, <2>2 DEF SignalInv
<1>5. ASSUME NEW r \in Requests,
             \/ FinishCreate(r) \/ ReservationDrops(r) \/ ReturnEntry(r)
             \/ EntryDrops(r) \/ RetireOne(r)
      PROVE  SignalInv'
  <2>1. UNCHANGED <<drainStarted, policy, registered, token>>
    BY <1>5 DEF FinishCreate, ReservationDrops, ReturnEntry, EntryDrops,
       RetireOne
  <2>2. /\ \A q \in Requests : q # r => pc'[q] = pc[q]
        /\ pc'[r] \in {"finishing", "leased"} <=>
              pc[r] \in {"finishing", "leased"}
    BY <1>1, <1>5 DEF FinishCreate, ReservationDrops, ReturnEntry, EntryDrops,
       RetireOne, InOperation, Go, At
  <2> QED BY <1>1, <2>1, <2>2, SignalsStay
<1>6. CASE Run
  <2>1. UNCHANGED <<drainStarted, policy, registered, token>>
    BY <1>6 DEF Run, RunTurn, ReserveWarmCreate, FinishWarmCreate,
       WarmCreateDrops, RunSleeps, RunWakes
  <2> QED BY <1>1, <1>6, <2>1, OthersMoveNobody, SignalsStay
<1>7. ASSUME NEW d \in Drainers, Drain(d) PROVE SignalInv'
  <2>1. \A r \in Requests : pc'[r] = pc[r] BY <1>7, OthersMoveNobody
  <2>2. CASE UNCHANGED <<drainStarted, policy, registered, token>>
    BY <1>1, <2>1, <2>2, SignalsStay
  <2>3. CASE DrainStarts(d) \/ (DrainLooks(d) /\ live # 0)
    <3>1. /\ token' = token \cup DueNow /\ registered' = registered \ DueNow
          /\ policy' = policy
      BY <2>3 DEF DrainStarts, DrainLooks
    <3>2. \A r \in registered : policy[r] = "Now" => r \in DueNow BY DEF DueNow
    <3> QED BY <1>1, <2>1, <3>1, <3>2 DEF SignalInv
  <2>4. CASE DrainArms(d) \/ DrainWakes(d) \/ (DrainLooks(d) /\ live = 0)
    BY <2>2, <2>4 DEF DrainArms, DrainWakes, DrainLooks
  <2> QED BY <1>7, <2>3, <2>4 DEF Drain
<1>8. CASE Owner
  <2>1. UNCHANGED <<drainStarted, policy,
     registered>> /\ token \subseteq token'
    BY <1>8 DEF Owner, Close, OwnerDrains, Pause, Resume, CancelActive,
       DiscardIdleWhere, GraceEnds
  <2> QED BY <1>1, <1>8, <2>1, OthersMoveNobody, SignalsStay
<1> QED
  BY <1>2, <1>3, <1>4, <1>5, <1>6, <1>7, <1>8 DEF Next, Serve

-----------------------------------------------------------------------------
(***************************************************************************)
(* Nobody is forgotten                                                     *)
(***************************************************************************)

\* What an acquisition may sleep over.
Full == status = "Paused" \/ (status = "Open" /\ ~(Admits /\ CouldServe))

\* Who sleeps: acquisitions and drains.
SleepersRight ==
    /\ \A r \in Requests : Asleep(r, "wait") => Full
    /\ \A d \in Drainers : Asleep(d, "drain_wait") => live > 0

\* NobodyForgotten says it of all of them.
LEMMA ForgottenSplits ==
    NobodyForgotten <=>
        /\ SleepersRight
        /\ \A r \in Requests :
              drainStarted /\ pc[r] = "leased" /\ policy[r] = "Now" => r \in token
  BY DEF NobodyForgotten, SleepersRight, Full

\* After notify_waiters nobody sleeps.
LEMMA RungSleepNobody ==
    ASSUME Rung
    PROVE  SleepersRight'
  BY DEF Rung, SleepersRight, Asleep, Tasks

\* A step after which only those sleep that slept, with no more room for an
\* acquisition and the same clients for a drain to wait for.
LEMMA SleepersStay ==
    ASSUME SleepersRight,
           \A r \in Requests : Asleep(r, "wait")' => Asleep(r, "wait"),
           \A d \in Drainers : Asleep(d, "drain_wait")' => Asleep(d, "drain_wait"),
           Full => Full',
           (\E d \in Drainers : Asleep(d, "drain_wait")) => live' > 0
    PROVE  SleepersRight'
  BY DEF SleepersRight

\* The clients a sleeping drain waits for, in a step that leaves them.
LEMMA DrainSleeps ==
    ASSUME Sensible, IInv, status \in Stopped => live' = live,
           NEW d \in Drainers, Asleep(d, "drain_wait")
    PROVE  live' > 0
<1>1. pc[d] = "drain_wait" /\ live > 0
  BY DEF Asleep, At, IInv, NobodyForgotten
<1>2. status \in Stopped
  BY <1>1 DEF IInv, StopInv, Draining, Stopped
<1> QED BY <1>1, <1>2

\* A task that goes elsewhere than to sleep, with the others as they are.
LEMMA MoverAwake ==
    ASSUME NEW t \in Tasks, NEW to, Moved(t, to),
           to \notin {"wait", "drain_wait"},
           \A u \in Tasks : u # t => note'[u] = note[u]
    PROVE  \A u \in Tasks :
              /\ Asleep(u, "wait")' => Asleep(u, "wait")
              /\ Asleep(u, "drain_wait")' => Asleep(u, "drain_wait")
  BY DEF Moved, Asleep, At

\* Pruning idle clients makes no room that there was not.
LEMMA PruningMakesNoRoom ==
    ASSUME Sensible, IInv, NEW k \in 0 .. idle, idle' = k, live' = LiveKept(k),
           UNCHANGED <<inFlight, status, opt>>
    PROVE  Full => Full'
<1>1. /\ idle \in Nat /\ live \in Nat /\ inFlight \in Nat
      /\ opt.max_live \in Nat /\ opt.max_concurrency \in Nat
  BY Known
<1>2. idle = 0 => k = 0 /\ LiveKept(k) = live BY <1>1 DEF LiveKept
<1> QED BY <1>1, <1>2 DEF Full, Admits, CouldServe

\* Who admits a request has room, so nobody slept.
LEMMA RoomToServe ==
    ASSUME Sensible, IInv, NEW k \in 0 .. idle, status = "Open", Admits,
       HasRoom(k)
    PROVE  ~Full
<1>1. idle \in Nat /\ live \in Nat /\ opt.max_live \in Nat BY Known
<1>2. idle = 0 => k = 0 /\ LiveKept(k) = live BY <1>1 DEF LiveKept
<1> QED BY <1>1, <1>2 DEF HasRoom, Full, CouldServe

\* A step of t that does not ring touches nobody else's future.
LEMMA OthersFutures ==
    ASSUME Types, NEW t \in Tasks, Notified(t) \/ Forget(t) \/ UNCHANGED note
    PROVE  \A u \in Tasks : u # t => note'[u] = note[u]
  BY NotifiedArms, ForgetDrops DEF Armed, Dropped

\* A step of t, of which t does not fall asleep, that rings or makes no room.
LEMMA AwakeStep ==
    ASSUME Sensible, IInv, NEW t \in Tasks, NEW to, Moved(t, to),
           to \notin {"wait", "drain_wait"},
           NotifyWaiters \/ (/\ Notified(t) \/ Forget(t) \/ UNCHANGED note
                             /\ Full => Full'
                             /\ status \in Stopped => live' = live)
    PROVE  SleepersRight'
<1>1. Types /\ SleepersRight BY ForgottenSplits DEF IInv
<1>2. CASE NotifyWaiters BY <1>1, <1>2, NotifyRings, RungSleepNobody
<1>3. CASE /\ Notified(t) \/ Forget(t) \/ UNCHANGED note
           /\ Full => Full'
           /\ status \in Stopped => live' = live
  <2>1. \A u \in Tasks :
           /\ Asleep(u, "wait")' => Asleep(u, "wait")
           /\ Asleep(u, "drain_wait")' => Asleep(u, "drain_wait")
    BY <1>1, <1>3, OthersFutures, MoverAwake
  <2>2. \A d \in Drainers : Asleep(d, "drain_wait") => live' > 0
    BY <1>3, DrainSleeps
  <2>3. (\A r \in Requests : r \in Tasks) /\ (\A d \in Drainers : d \in Tasks)
    BY DEF Tasks
  <2> QED BY <1>1, <1>3, <2>1, <2>2, <2>3, SleepersStay
<1> QED BY <1>2, <1>3

\* A step that moves nobody and touches no future.
LEMMA StillStep ==
    ASSUME Sensible, IInv, UNCHANGED <<idle, live, inFlight, status, opt, pc,
       note>>
    PROVE  SleepersRight'
<1>1. SleepersRight BY ForgottenSplits DEF IInv
<1> QED BY <1>1 DEF SleepersRight, Full, Admits, CouldServe, Asleep, At

\* An acquisition makes room for nobody, and sleeps over no room.
LEMMA AcquireSleeps ==
    ASSUME Sensible, IInv, NEW r \in Requests, Acquire(r)
    PROVE  SleepersRight'
<1>1. /\ SleepersRight /\ Types /\ r \in Tasks
      /\ idle \in Nat /\ live \in Nat
      /\ \A q \in Requests : q \in Tasks
      /\ \A d \in Drainers : d \in Tasks
  BY Known, ForgottenSplits DEF IInv, Tasks
<1>2. ASSUME NEW to \in Places, Go(r, to) PROVE Moved(r, to)
  BY <1>1, <1>2, TaskMoves
<1>3. NotifyWaiters \/ (status \in Stopped => live' = live)
  BY RequestsDoNotStop
<1>4. CASE WaiterDrops(r)
  <2>1. Moved(r, "done") BY <1>2, <1>4 DEF WaiterDrops, Places
  <2> QED BY <1>1, <1>4, <2>1, AwakeStep DEF WaiterDrops
<1>5. CASE AcquireTurn(r) \/ WaitEnds(r) \/ WaitGivenUp(r)
  <2>1. \E to \in {"look", "top", "leaving"} : Moved(r, to)
    BY <1>2, <1>5 DEF AcquireTurn, WaitEnds, WaitGivenUp, Places, Shopping,
       Queued
  <2>2. Full => Full'
    BY <1>5 DEF AcquireTurn, WaitEnds, WaitGivenUp, counts, environment, Full,
       Admits, CouldServe
  <2>3. Notified(r) \/ Forget(r) BY <1>5 DEF AcquireTurn, WaitEnds, WaitGivenUp
  <2> QED BY <1>1, <1>3, <2>1, <2>2, <2>3, AwakeStep
<1>6. CASE AcquireCreates(r)
  <2>1. Moved(r, "creating") BY <1>2, <1>6 DEF AcquireCreates, Places
  <2>2. ~Full
    <3>1. 0 \in 0 .. idle /\ HasRoom(0)
      BY <1>1, <1>6 DEF AcquireCreates, HasRoom
    <3> QED BY <1>6, <3>1, RoomToServe DEF AcquireCreates
  <2>3. Forget(r) BY <1>6 DEF AcquireCreates
  <2> QED BY <1>1, <1>3, <2>1, <2>2, <2>3, AwakeStep
<1>7. ASSUME NEW k \in 0 .. idle, AcquireClosed(r, k) PROVE SleepersRight'
  <2>1. \E to \in {"leaving", "done"} : Moved(r, to)
    BY <1>2, <1>7 DEF AcquireClosed, Places, Shopping, Queued
  <2>2. ~Full BY <1>7 DEF AcquireClosed, Full
  <2>3. Forget(r) BY <1>7 DEF AcquireClosed
  <2> QED BY <1>1, <1>3, <2>1, <2>2, <2>3, AwakeStep
<1>8. ASSUME NEW k \in 0 .. idle, AcquireWaits(r, k) PROVE SleepersRight'
  <2>1. Full => Full'
    BY <1>8, PruningMakesNoRoom DEF AcquireWaits, environment
  <2>2. CASE r \in entered \/ waiting < opt.max_waiting
    <3>1. Moved(r, "wait") /\ note' = note
      BY <1>2, <1>8, <2>2 DEF AcquireWaits, Places, Shopping, Queued
    <3>2. Full'
      BY <1>8 DEF AcquireWaits, Full, Admits, CouldServe, HasRoom, environment
    <3>3. \A d \in Drainers : d # r => (Asleep(d, "drain_wait")' => live' > 0)
      <4> SUFFICES ASSUME NEW d \in Drainers, d # r, Asleep(d, "drain_wait")'
                   PROVE  live' > 0
        OBVIOUS
      <4>1. Asleep(d, "drain_wait") BY <1>1, <3>1 DEF Asleep, At, Moved
      <4>2. status \notin Stopped BY <1>8 DEF AcquireWaits, Stopped
      <4> QED BY <4>1, <4>2, DrainSleeps
    <3>4. r \notin Drainers BY DEF Sensible
    <3> QED BY <3>2, <3>3, <3>4 DEF SleepersRight
  <2>3. CASE ~(r \in entered \/ waiting < opt.max_waiting)
    <3>1. Moved(r, "done") /\ Forget(r)
      BY <1>2, <1>8, <2>3 DEF AcquireWaits, Places
    <3> QED BY <1>1, <1>3, <2>1, <3>1, AwakeStep
  <2> QED BY <2>2, <2>3
<1>9. ASSUME NEW k \in 0 .. idle, AcquireReuses(r, k) PROVE SleepersRight'
  <2>1. Moved(r, "recycling") BY <1>2, <1>9 DEF AcquireReuses, Places, Holding
  <2>2. ~Full BY <1>9, RoomToServe DEF AcquireReuses, HasRoom
  <2>3. Forget(r) BY <1>9 DEF AcquireReuses
  <2> QED BY <1>1, <1>3, <2>1, <2>2, <2>3, AwakeStep
<1>10. ASSUME NEW k \in 0 .. idle, CreateInner(r, k) PROVE SleepersRight'
  <2>1. \E to \in {"creating", "done"} : Moved(r, to)
    BY <1>2, <1>10 DEF CreateInner, Places
  <2>2. Full => Full'
    <3>1. CASE status = "Open" /\ LiveKept(k) < opt.max_live /\ Admits
      BY <3>1, RoomToServe DEF HasRoom
    <3>2. CASE ~(status = "Open" /\ LiveKept(k) < opt.max_live /\ Admits)
      BY <1>10, <3>2, PruningMakesNoRoom DEF CreateInner, environment
    <3> QED BY <3>1, <3>2
  <2>3. note' = note BY <1>10 DEF CreateInner
  <2> QED BY <1>1, <1>3, <2>1, <2>2, <2>3, AwakeStep
<1>11. ASSUME NEW k \in 0 .. idle, AcquireIdleWhere(r, k) PROVE SleepersRight'
  <2>1. \E to \in {"recycling", "done"} : Moved(r, to)
    BY <1>2, <1>11 DEF AcquireIdleWhere, Places, Holding
  <2>2. Full => Full'
    <3>1. CASE status = "Open" /\ Admits /\ k > 0
      BY <3>1, RoomToServe DEF HasRoom
    <3>2. CASE idle' = k /\ UNCHANGED inFlight
      BY <1>11, <3>2, PruningMakesNoRoom DEF AcquireIdleWhere, environment
    <3> QED BY <1>11, <3>1, <3>2 DEF AcquireIdleWhere
  <2>3. note' = note BY <1>11 DEF AcquireIdleWhere
  <2> QED BY <1>1, <1>3, <2>1, <2>2, <2>3, AwakeStep
<1> QED
  BY <1>4, <1>5, <1>6, <1>7, <1>8, <1>9, <1>10, <1>11 DEF Acquire

\* What a served request gives back it announces.
LEMMA ServeSleeps ==
    ASSUME Sensible, IInv, NEW r \in Requests, Serve(r)
    PROVE  SleepersRight'
<1>1. Types /\ r \in Tasks BY DEF IInv, Tasks
<1>2. ASSUME NEW to \in Places, Go(r, to) PROVE Moved(r, to)
  BY <1>1, <1>2, TaskMoves
<1>3. \E to \in Places \ {"wait", "drain_wait"} : Moved(r, to)
  BY <1>2 DEF Serve, RegisterActive, FinishCreate, ReservationDrops,
     LeaseDrops,
     LeaseDiscards, ReturnEntry, EntryDrops, RetireOne, Places, Holding
<1>4. CASE \/ FinishCreate(r) \/ ReservationDrops(r) \/ ReturnEntry(r)
           \/ RetireOne(r)
  <2>1. NotifyWaiters
    BY <1>4 DEF FinishCreate, ReservationDrops, ReturnEntry, RetireOne
  <2> QED BY <1>1, <1>3, <2>1, AwakeStep
<1>5. CASE \/ \E p \in Policies : RegisterActive(r, p)
           \/ LeaseDrops(r) \/ LeaseDiscards(r) \/ EntryDrops(r)
  <2>1. /\ NotifyWaiters \/ UNCHANGED note
        /\ UNCHANGED <<idle, live, inFlight, status, opt>>
    BY <1>5 DEF RegisterActive, LeaseDrops, LeaseDiscards, Unregister,
       EntryDrops, counts, environment
  <2>2. Full => Full' BY <2>1 DEF Full, Admits, CouldServe
  <2> QED BY <1>1, <1>3, <2>1, <2>2, AwakeStep
<1> QED BY <1>4, <1>5 DEF Serve

\* run makes a client only in a place that nobody sleeps for.
LEMMA RunSleepsRight ==
    ASSUME Sensible, IInv, Run
    PROVE  SleepersRight'
<1>1. /\ Types /\ "run" \in Tasks /\ idle \in Nat /\ live \in Nat
      /\ opt.max_live \in Nat
  BY Known DEF IInv, Tasks, Drainers
<1>2. ASSUME NEW to \in Places, Go("run", to) PROVE Moved("run", to)
  BY <1>1, <1>2, TaskMoves
<1>3. NotifyWaiters \/ (status \in Stopped => live' = live)
  BY RequestsDoNotStop
<1>4. \E to \in Places \ {"wait", "drain_wait"} : Moved("run", to)
  BY <1>2 DEF Run, RunTurn, ReserveWarmCreate, FinishWarmCreate,
     WarmCreateDrops, RunSleeps, RunWakes, Places, Shopping
<1>5. ASSUME NEW k \in 0 .. idle, RunTurn(k) PROVE SleepersRight'
  <2>1. note' = note /\ UNCHANGED <<inFlight, status, opt>>
    BY <1>5 DEF RunTurn, environment
  <2>2. Full => Full'
    <3>1. CASE idle' = k /\ live' = LiveKept(k)
      BY <2>1, <3>1, PruningMakesNoRoom
    <3>2. CASE UNCHANGED <<idle, live>>
      BY <2>1, <3>2 DEF Full, Admits, CouldServe
    <3> QED BY <1>5, <3>1, <3>2 DEF RunTurn
  <2> QED BY <1>1, <1>3, <1>4, <2>1, <2>2, AwakeStep
<1>6. CASE ReserveWarmCreate
  <2>1. /\ note' = note /\ UNCHANGED <<idle, inFlight, status, opt>>
        /\ live' = live \/ (live < opt.max_live /\ live' = live + 1)
    BY <1>6 DEF ReserveWarmCreate, WantsWarm, environment
  <2>2. Full => Full' BY <1>1, <2>1 DEF Full, Admits, CouldServe
  <2> QED BY <1>1, <1>3, <1>4, <2>1, <2>2, AwakeStep
<1>7. CASE FinishWarmCreate \/ WarmCreateDrops
  BY <1>1, <1>4, <1>7, AwakeStep DEF FinishWarmCreate, WarmCreateDrops
<1>8. CASE RunSleeps \/ RunWakes
  <2>1. /\ Notified("run") \/ Forget("run")
        /\ UNCHANGED <<idle, live, inFlight, status, opt>>
    BY <1>8 DEF RunSleeps, RunWakes, counts, environment
  <2>2. Full => Full' BY <2>1 DEF Full, Admits, CouldServe
  <2> QED BY <1>1, <1>3, <1>4, <2>1, <2>2, AwakeStep
<1> QED BY <1>5, <1>6, <1>7, <1>8 DEF Run

\* drain sleeps only while a client is there.
LEMMA DrainSleepsRight ==
    ASSUME Sensible, IInv, NEW d \in Drainers, Drain(d)
    PROVE  SleepersRight'
<1>1. /\ Types /\ d \in Tasks /\ live \in Nat /\ SleepersRight
      /\ \A u \in Requests \cup Drainers : u \in Tasks
  BY Known, ForgottenSplits DEF IInv, Tasks
<1>2. ASSUME NEW to \in Places, Go(d, to) PROVE Moved(d, to)
  BY <1>1, <1>2, TaskMoves
<1>3. CASE DrainStarts(d) \/ (DrainLooks(d) /\ live = 0)
  <2>1. \E to \in {"drain_arm", "done"} : Moved(d, to)
    BY <1>2, <1>3 DEF DrainStarts, DrainLooks, Places, Draining
  <2>2. NotifyWaiters BY <1>3 DEF DrainStarts, DrainLooks
  <2> QED BY <1>1, <2>1, <2>2, AwakeStep
<1>4. CASE DrainArms(d) \/ DrainWakes(d)
  <2>1. \E to \in {"drain_arm", "drain_look"} : Moved(d, to)
    BY <1>2, <1>4 DEF DrainArms, DrainWakes, Places, Draining
  <2>2. /\ Notified(d) \/ Forget(d)
        /\ UNCHANGED <<idle, live, inFlight, status, opt>>
    BY <1>4 DEF DrainArms, DrainWakes, counts, environment
  <2>3. Full => Full' BY <2>2 DEF Full, Admits, CouldServe
  <2> QED BY <1>1, <2>1, <2>2, <2>3, AwakeStep
<1>5. CASE DrainLooks(d) /\ live # 0
  <2>1. Moved(d, "drain_wait")
    BY <1>2, <1>5 DEF DrainLooks, Places, Draining
  <2>2. UNCHANGED <<idle, live, inFlight, status, opt, note>>
    BY <1>5 DEF DrainLooks, environment
  <2>3. \A r \in Requests : r # d BY DEF Sensible
  <2>4. \A r \in Requests : Asleep(r, "wait")' => Asleep(r, "wait")
    BY <1>1, <2>1, <2>2, <2>3 DEF Asleep, At, Moved
  <2>5. Full => Full' BY <2>2 DEF Full, Admits, CouldServe
  <2>6. live' > 0 BY <1>1, <1>5, <2>2
  <2> QED BY <1>1, <2>4, <2>5, <2>6 DEF SleepersRight
<1> QED BY <1>3, <1>4, <1>5 DEF Drain

\* The owner's calls that change what others wait for notify them.
LEMMA OwnerSleeps ==
    ASSUME Sensible, IInv, Owner
    PROVE  SleepersRight'
<1>1. Types /\ "drain" \in Tasks BY DEF IInv, Tasks, Drainers
<1>2. CASE Close \/ Pause \/ Resume \/ DiscardIdleWhere
  BY <1>1, <1>2, NotifyRings, RungSleepNobody DEF Close, Pause, Resume,
     DiscardIdleWhere
<1>3. CASE CancelActive \/ GraceEnds
  BY <1>3, StillStep DEF CancelActive, GraceEnds, counts, environment
<1>4. CASE OwnerDrains
  <2>1. Moved("drain", "drain")
    BY <1>1, <1>4, TaskMoves DEF OwnerDrains, Places
  <2>2. UNCHANGED <<idle, live, inFlight, status, opt, note>>
    BY <1>4 DEF OwnerDrains, counts, environment
  <2>3. Full => Full' BY <2>2 DEF Full, Admits, CouldServe
  <2> QED BY <1>1, <2>1, <2>2, <2>3, AwakeStep
<1> QED BY <1>2, <1>3, <1>4 DEF Owner

-----------------------------------------------------------------------------
(***************************************************************************)
(* The theorems                                                            *)
(***************************************************************************)

\* A pool that was just made satisfies the invariant.
LEMMA InitIInv ==
    ASSUME Sensible, Init
    PROVE  IInv
<1>1. Types
  BY DEF Init, Types, Notes, Policies, Places, Shopping
<1>2. \A r \in Requests : r \in Tasks /\ r # "drain" /\ pc[r] = "top"
  BY DEF Sensible, Drainers, Tasks, Init
<1>3. "run" \in Tasks /\ pc["run"] = "top" /\ pc["drain"] = "none"
  BY DEF Drainers, Tasks, Init
<1>4. CountsAddUp
  <2>1. \A S : "top" \notin S => InPlace(S) = {} BY <1>2 DEF InPlace
  <2>2. Making = 0 /\ Held = 0
    BY <2>1, FS_EmptySet DEF Making, Held, MakingPlaces, HeldPlaces, Holding
  <2>3. Warming = 0 BY <1>3 DEF Warming
  <2>4. Cardinality(entered) = 0 BY FS_EmptySet DEF Init
  <2>5. /\ opt.max_idle \in Nat /\ opt.max_live \in Nat
        /\ opt.max_concurrency \in Nat /\ opt.max_waiting \in Nat
    BY <1>1 DEF Types, Sensible
  <2>6. Numbers BY <2>2, <2>3, <2>4, <2>5 DEF Init, Numbers
  <2> QED BY <1>1, <2>6, CountsAreNumbers
<1>5. QueueInv BY <1>2 DEF QueueInv, Init, Queued
<1>6. StopInv BY <1>3 DEF StopInv, Init, Drainers, Draining
<1>7. SignalInv BY <1>2 DEF SignalInv, Init
<1>8. NobodyForgotten
  BY <1>2, <1>3 DEF NobodyForgotten, Asleep, At, Init, Drainers
<1> QED BY <1>1, <1>4, <1>5, <1>6, <1>7, <1>8 DEF IInv

\* Every step keeps the invariant.
LEMMA NextIInv ==
    ASSUME Sensible, IInv, [Next]_vars
    PROVE  IInv'
<1>1. CASE Next
  <2>1. Types' BY <1>1, TypesStep
  <2>2. Numbers' BY <1>1, AcquireCounts, ServeCounts, OthersCount DEF Next
  <2>3. CountsAddUp' BY <2>2, NumbersNext
  <2>4. SleepersRight'
    BY <1>1, AcquireSleeps, ServeSleeps, RunSleepsRight, DrainSleepsRight,
       OwnerSleeps DEF Next
  <2>5. SignalInv' BY <1>1, SignalStep
  <2>6. NobodyForgotten'
    <3>1. \A r \in Requests :
             drainStarted' /\ pc'[r] = "leased" /\ policy'[r] = "Now" =>
                r \in token'
      BY <2>5 DEF SignalInv
    <3> QED BY <2>4, <3>1 DEF NobodyForgotten, SleepersRight, Full
  <2> QED
    BY <1>1, <2>1, <2>3, <2>5, <2>6, QueueStep, StopStep DEF IInv
<1>2. CASE UNCHANGED vars
  BY <1>2 DEF vars, IInv, Types, CountsAddUp, InPlace, Warming, QueueInv,
     StopInv, SignalInv, NobodyForgotten, Asleep, At, Admits, CouldServe
<1> QED BY <1>1, <1>2

\* The counters of the pool are those of the tasks and within the options, for
\* any number of requests and whatever fails, is cancelled or is dropped
\* (finish_create, retire_one, return_entry, Waiter).
THEOREM PoolCountsAddUp ==
    ASSUME Sensible
    PROVE  Spec => []CountsAddUp
<1>1. Init => IInv BY InitIInv
<1>2. IInv /\ [Next]_vars => IInv' BY NextIInv
<1>3. IInv => CountsAddUp BY DEF IInv
<1> QED BY <1>1, <1>2, <1>3, PTL DEF Spec

\* No acquisition and no drain sleeps over what it waits for, and no lease is
\* without the signal of a drain that started, for any number of requests
\* (acquire, drain, register_active).
THEOREM PoolForgetsNobody ==
    ASSUME Sensible
    PROVE  Spec => []NobodyForgotten
<1>1. Init => IInv BY InitIInv
<1>2. IInv /\ [Next]_vars => IInv' BY NextIInv
<1>3. IInv => NobodyForgotten BY DEF IInv
<1> QED BY <1>1, <1>2, <1>3, PTL DEF Spec
=============================================================================
