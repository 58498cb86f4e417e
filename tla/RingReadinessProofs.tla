------------------------ MODULE RingReadinessProofs ------------------------
(***************************************************************************)
(* Proofs about RingReadiness, for every set of publishers and every bound *)
(* on publishes and deaths.  The inductive invariant is the type invariant *)
(* with the exact count of waiters (the count is decremented, so neither   *)
(* stands without the other), the fact that only publishers of the parked  *)
(* form look at the count, and the absence of lost wakes itself.           *)
(***************************************************************************)
EXTENDS RingReadiness, TLAPS

\* Only the parked form looks for waiters and counts itself out to report.
ParkedOnly ==
    /\ \A p \in Publishers : ppc[p] = "look" => form = "parked"
    /\ dpc = "uncount" => form = "parked"

IInv == TypeOK /\ WaitersExact /\ ParkedOnly /\ NoLostWake

\* A reader starts with nobody counted, nobody asleep and nothing published.
LEMMA InitIInv == Init => IInv
<1> SUFFICES ASSUME Init PROVE IInv OBVIOUS
<1>1. stop \in BOOLEAN /\ pending \in BOOLEAN /\ fd \in BOOLEAN
      /\ edge \in BOOLEAN /\ ready \in BOOLEAN
  BY Zenon DEF Init
<1>2. TypeOK BY <1>1 DEF Init, TypeOK
<1>3. WaitersExact BY DEF Init, WaitersExact, Counted
<1>4. ParkedOnly BY DEF Init, ParkedOnly
<1>5. NoLostWake BY DEF Init, NoLostWake
<1> QED BY <1>2, <1>3, <1>4, <1>5 DEF IInv

\* A publisher's step keeps the invariant.  The count of waiters is what makes
\* LookForWaiters safe: a parked driver that sleeps is counted.
LEMMA PublisherKeepsIInv ==
    ASSUME IInv, NEW p \in Publishers,
           CommitFrame(p) \/ PublisherStep(p) \/ PublisherDies(p)
    PROVE  IInv'
<1> USE DEF IInv, TypeOK, modeVars, wordVars, pubVars, drvVars, fdVars, conVars
<1>1. CASE CommitFrame(p)
  <2> USE <1>1 DEF CommitFrame
  <2>1. TypeOK' OBVIOUS
  <2>2. WaitersExact' BY DEF WaitersExact, Counted
  <2>3. ParkedOnly' BY DEF ParkedOnly
  <2>4. NoLostWake' BY DEF NoLostWake, WakeOwed
  <2> QED BY <2>1, <2>2, <2>3, <2>4
<1>2. CASE Bump(p)
  <2> USE <1>2 DEF Bump, NoteGeneration
  <2>1. TypeOK' OBVIOUS
  <2>2. WaitersExact' BY DEF WaitersExact, Counted
  <2>3. ParkedOnly' BY DEF ParkedOnly
  <2>4. NoLostWake' BY DEF NoLostWake, WakeOwed
  <2> QED BY <2>1, <2>2, <2>3, <2>4
<1>3. CASE LookForWaiters(p)
  <2> USE <1>3 DEF LookForWaiters, PublishReturns
  <2>1. TypeOK' OBVIOUS
  <2>2. WaitersExact' BY DEF WaitersExact, Counted
  <2>3. ParkedOnly' BY DEF ParkedOnly
  <2>4. NoLostWake'
    <3>1. dpc = "asleep" => waiters # 0
      BY DEF ParkedOnly, WaitersExact, Counted
    <3> QED BY <3>1 DEF NoLostWake, WakeOwed
  <2> QED BY <2>1, <2>2, <2>3, <2>4
<1>4. CASE Wake(p)
  <2> USE <1>4 DEF Wake, WakeWord, PublishReturns
  <2>1. TypeOK' OBVIOUS
  <2>2. WaitersExact' BY DEF WaitersExact, Counted
  <2>3. ParkedOnly' BY DEF ParkedOnly
  <2>4. NoLostWake' BY DEF NoLostWake
  <2> QED BY <2>1, <2>2, <2>3, <2>4
<1>5. CASE PublisherDies(p)
  <2> USE <1>5 DEF PublisherDies
  <2>1. TypeOK' OBVIOUS
  <2>2. WaitersExact' BY DEF WaitersExact, Counted
  <2>3. ParkedOnly' BY DEF ParkedOnly
  <2>4. NoLostWake' BY DEF NoLostWake
  <2> QED BY <2>1, <2>2, <2>3, <2>4
<1> QED BY <1>1, <1>2, <1>3, <1>4, <1>5 DEF PublisherStep

\* A step of the driver thread keeps the invariant.  It falls asleep only on
\* the generation it has acted on, and counts itself in and out on every path.
LEMMA DriverKeepsIInv ==
    ASSUME IInv, DriverStep \/ Interrupted
    PROVE  IInv'
<1> USE DEF IInv, TypeOK, DriverGoesTo, modeVars, wordVars, pubVars, fdVars, conVars
<1>1. CASE CheckStop
  BY <1>1 DEF CheckStop, WaitersExact, Counted, ParkedOnly, NoLostWake
<1>2. CASE LookAtGeneration
  BY <1>2, FormsAssumption
     DEF LookAtGeneration, WaitersExact, Counted, ParkedOnly, NoLostWake
<1>3. CASE EnterWait
  BY <1>3 DEF EnterWait, WaitersExact, Counted, ParkedOnly, NoLostWake
<1>4. CASE LeaveWait
  BY <1>4 DEF LeaveWait, WaitersExact, Counted, ParkedOnly, NoLostWake
<1>5. CASE CountOut
  BY <1>5 DEF CountOut, WaitersExact, Counted, ParkedOnly, NoLostWake
<1>6. CASE Settle
  BY <1>6 DEF Settle, WaitersExact, Counted, ParkedOnly, NoLostWake
<1>7. CASE SignalFd
  BY <1>7 DEF SignalFd, WaitersExact, Counted, ParkedOnly, NoLostWake
<1>8. CASE AwaitDrain
  BY <1>8 DEF AwaitDrain, WaitersExact, Counted, ParkedOnly, NoLostWake
<1>9. CASE Interrupted
  BY <1>9 DEF Interrupted, WaitersExact, Counted, ParkedOnly, NoLostWake
<1> QED BY <1>1, <1>2, <1>3, <1>4, <1>5, <1>6, <1>7, <1>8, <1>9 DEF DriverStep

\* A step of the reactor or of the consumer keeps the invariant; dropping the
\* reader moves the generation before it wakes.
LEMMA ConsumerKeepsIInv ==
    ASSUME IInv, Report \/ ConsumerStep \/ DropStarts
    PROVE  IInv'
<1> USE DEF IInv, TypeOK, ConsumerGoesTo, NotifyTaken, modeVars, wordVars,
            pubVars, drvVars, fdVars
<1>1. CASE Report
  <2>1. ready' \in BOOLEAN /\ edge' \in BOOLEAN
    BY <1>1, Zenon DEF Report
  <2>2. TypeOK'
    BY <1>1, <2>1 DEF Report, conVars
  <2> QED
    BY <1>1, <2>2 DEF Report, conVars, WaitersExact, Counted, ParkedOnly,
       NoLostWake, WakeOwed
<1>2. CASE Poll
  BY <1>2 DEF Poll, WaitersExact, Counted, ParkedOnly, NoLostWake, WakeOwed
<1>3. CASE Readable
  BY <1>3 DEF Readable, WaitersExact, Counted, ParkedOnly, NoLostWake, WakeOwed
<1>4. CASE ClearReady
  BY <1>4 DEF ClearReady, WaitersExact, Counted, ParkedOnly, NoLostWake, WakeOwed
<1>5. CASE TakeTokens
  BY <1>5 DEF TakeTokens, WaitersExact, Counted, ParkedOnly, NoLostWake, WakeOwed
<1>6. CASE LetPark
  BY <1>6 DEF LetPark, WaitersExact, Counted, ParkedOnly, NoLostWake, WakeOwed
<1>7. CASE DropNotifies
  BY <1>7 DEF DropNotifies, WaitersExact, Counted, ParkedOnly, NoLostWake, WakeOwed
<1>8. CASE DropBumps
  BY <1>8 DEF DropBumps, NoteGeneration, WaitersExact, Counted, ParkedOnly,
     NoLostWake, WakeOwed
<1>9. CASE DropWakes
  BY <1>9 DEF DropWakes, WakeWord, WaitersExact, Counted, ParkedOnly, NoLostWake
<1>10. CASE Join
  BY <1>10 DEF Join, WaitersExact, Counted, ParkedOnly, NoLostWake, WakeOwed
<1>11. CASE DropStarts
  BY <1>11 DEF DropStarts, WaitersExact, Counted, ParkedOnly, NoLostWake, WakeOwed
<1> QED BY <1>1, <1>2, <1>3, <1>4, <1>5, <1>6, <1>7, <1>8, <1>9, <1>10, <1>11
       DEF ConsumerStep

\* The invariant holds in every state of every behaviour.
THEOREM IInvHolds == Spec => []IInv
<1>1. IInv /\ [Next]_vars => IInv'
  <2> SUFFICES ASSUME IInv, [Next]_vars PROVE IInv' OBVIOUS
  <2>1. CASE UNCHANGED vars
    BY <2>1 DEF IInv, TypeOK, WaitersExact, Counted, ParkedOnly, NoLostWake,
       WakeOwed, vars, modeVars, wordVars, pubVars, drvVars, fdVars, conVars
  <2>2. CASE Next
    BY <2>2, PublisherKeepsIInv, DriverKeepsIInv, ConsumerKeepsIInv DEF Next
  <2> QED BY <2>1, <2>2
<1> QED BY InitIInv, <1>1, PTL DEF Spec

\* Every variable stays in its range; the count of waiters never goes below
\* zero and no reader passes the head.
THEOREM TypeCorrect == Spec => []TypeOK
BY IInvHolds, PTL DEF IInv

\* notification_waiters is exact: the parked driver is counted on every path
\* through its loop and nobody is counted after it has ended.
THEOREM WaitersAreExact == Spec => []WaitersExact
BY IInvHolds, PTL DEF IInv

\* A publish cannot fall between the driver's look at the generation and its
\* sleep: whoever sleeps on an old generation has a wake coming.
THEOREM NoWakeIsLost == Spec => []NoLostWake
BY IInvHolds, PTL DEF IInv

\* The driver is counted exactly while it sleeps and no publish goes by it
\* without a wake.
THEOREM DriverIsSound == Spec => []DriverSound
<1>1. IInv => DriverSound BY DEF IInv, DriverSound
<1> QED BY <1>1, IInvHolds, PTL
=============================================================================
