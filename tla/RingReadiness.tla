--------------------------- MODULE RingReadiness ---------------------------
(***************************************************************************)
(* How a published frame wakes a reader that sleeps in its reactor         *)
(* (core/src/ring/readiness.rs, core/src/sync.rs, core/src/readiness.rs    *)
(* and the publish_notified family of Fleet).                              *)
(*                                                                         *)
(* Publishers commit a frame, advance a generation word in the ring header *)
(* and wake whoever is parked on it.  In the reading process a driver      *)
(* thread parks on the word and turns its changes into tokens of a private *)
(* descriptor; the reactor reports the descriptor, and the consumer drains *)
(* it and polls the ring.  Two forms exist:                                *)
(*   always   RingEventFd: every publish makes the wake call, and the      *)
(*            driver parks again right after it has signalled;             *)
(*   parked   ParkedRingEventFd: the driver counts itself in the header    *)
(*            while it parks, publishers wake only if somebody is counted, *)
(*            and the driver waits for the drain before it parks again.    *)
(* The consumer clears the reactor's readiness before or after it drains;  *)
(* the parked form asks for the former, the other tolerates either.        *)
(***************************************************************************)
EXTENDS Integers

CONSTANTS
    Publishers,
    Forms,         \* forms of readiness the reader may use
    MaxPublish,    \* bound: frames ever published
    MaxDeaths      \* bound: publishers that die inside a publish

ASSUME FormsAssumption == Forms \subseteq {"always", "parked"}
ASSUME BoundsAssumption == MaxPublish \in Nat /\ MaxDeaths \in Nat

VARIABLES
    form,        \* the form of readiness in use
    clearFirst,  \* does the consumer clear readiness before it drains?
    gen,         \* notification_generation
    waiters,     \* notification_waiters
    head,        \* frames committed to the ring
    announced,   \* frames whose publish call has returned
    ppc,         \* where each publisher is in publish_notified
    mine,        \* the frame each publisher has just committed
    deaths,      \* publishers that died
    dpc,         \* where the driver thread is
    observed,    \* the generation the driver acted on last
    current,     \* the generation it has just loaded
    stop,        \* the stop flag
    pending,     \* Drained.pending: a signal the consumer has not taken
    fd,          \* does the descriptor hold a token?
    edge,        \* has the kernel an edge to report to the reactor?
    ready,       \* readiness the reactor has recorded
    cpc,         \* where the consumer is
    seen         \* frames it has polled

pubVars  == <<head, announced, ppc, mine, deaths>>
wordVars == <<gen, waiters>>
drvVars  == <<dpc, observed, current>>
fdVars   == <<fd, edge, ready>>
conVars  == <<cpc, seen, stop, pending>>
modeVars == <<form, clearFirst>>
vars == <<modeVars, wordVars, pubVars, drvVars, fdVars, conVars>>

Init ==
    /\ form \in Forms
    /\ clearFirst \in BOOLEAN
    /\ form = "parked" => clearFirst
    /\ gen = 0 /\ waiters = 0
    /\ head = 0 /\ announced = 0 /\ deaths = 0
    /\ ppc = [p \in Publishers |-> "idle"]
    /\ mine = [p \in Publishers |-> 0]
    /\ dpc = "check" /\ observed = 0 /\ current = 0
    /\ stop = FALSE /\ pending = FALSE
    /\ fd = FALSE /\ edge = FALSE /\ ready = FALSE
    /\ cpc = "poll" /\ seen = 0

-----------------------------------------------------------------------------
(***************************************************************************)
(* The shared word                                                         *)
(***************************************************************************)

\* wake_word: every thread asleep on the word runs again.
WakeWord ==
    dpc' = IF dpc = "asleep" THEN "awake" ELSE dpc

\* fetch_add on the generation.
NoteGeneration == gen' = gen + 1

-----------------------------------------------------------------------------
(***************************************************************************)
(* Publishers: publish_notified and publish_notified_parked                *)
(***************************************************************************)

\* ring.write commits the frame.
CommitFrame(p) ==
    /\ ppc[p] = "idle" /\ head < MaxPublish
    /\ head' = head + 1
    /\ mine' = [mine EXCEPT ![p] = head + 1]
    /\ ppc' = [ppc EXCEPT ![p] = "bump"]
    /\ UNCHANGED <<modeVars, wordVars, announced, deaths, drvVars, fdVars,
                   conVars>>

\* notify: the generation, ahead of the look at the waiters.
Bump(p) ==
    /\ ppc[p] = "bump"
    /\ NoteGeneration
    /\ ppc' = [ppc EXCEPT ![p] = IF form = "parked" THEN "look" ELSE "wake"]
    /\ UNCHANGED <<modeVars, waiters, head, announced, mine, deaths, drvVars,
                   fdVars, conVars>>

\* The publish call returns.
PublishReturns(p) ==
    /\ announced' = IF mine[p] > announced THEN mine[p] ELSE announced
    /\ mine' = [mine EXCEPT ![p] = 0]
    /\ UNCHANGED <<head, deaths>>

\* notify of the parked form: nobody is counted, so no call is made.
LookForWaiters(p) ==
    /\ ppc[p] = "look"
    /\ IF waiters = 0
       THEN PublishReturns(p) /\ ppc' = [ppc EXCEPT ![p] = "idle"]
       ELSE /\ ppc' = [ppc EXCEPT ![p] = "wake"]
            /\ UNCHANGED <<announced, mine, head, deaths>>
    /\ UNCHANGED <<modeVars, wordVars, drvVars, fdVars, conVars>>

\* notify: the wake call.
Wake(p) ==
    /\ ppc[p] = "wake"
    /\ WakeWord
    /\ PublishReturns(p)
    /\ ppc' = [ppc EXCEPT ![p] = "idle"]
    /\ UNCHANGED <<modeVars, wordVars, observed, current, fdVars, conVars>>

\* A publishing process dies between its commit and the end of the notify.
PublisherDies(p) ==
    /\ ppc[p] # "idle" /\ deaths < MaxDeaths
    /\ deaths' = deaths + 1
    /\ ppc' = [ppc EXCEPT ![p] = "idle"]
    /\ mine' = [mine EXCEPT ![p] = 0]
    /\ UNCHANGED <<modeVars, wordVars, head, announced, drvVars, fdVars,
                   conVars>>

-----------------------------------------------------------------------------
(***************************************************************************)
(* The driver thread                                                       *)
(***************************************************************************)

DriverGoesTo(s) == dpc' = s /\ UNCHANGED <<observed, current>>

\* The loop condition; the parked form counts itself in before it looks.
CheckStop ==
    /\ dpc = "check"
    /\ DriverGoesTo(IF stop THEN "ended" ELSE "look")
    /\ waiters' = IF ~stop /\ form = "parked" THEN waiters + 1 ELSE waiters
    /\ UNCHANGED <<modeVars, gen, pubVars, fdVars, conVars>>

\* The generation is compared with the one acted on; the parked form also
\* looks at stop again.
LookAtGeneration ==
    /\ dpc = "look"
    /\ current' = gen
    /\ dpc' = IF gen = observed /\ ~(form = "parked" /\ stop) THEN "enter"
              ELSE IF form = "parked" THEN "uncount" ELSE "signal"
    /\ observed' = IF form = "always" THEN gen ELSE observed
    /\ UNCHANGED <<modeVars, wordVars, pubVars, fdVars, conVars>>

\* A wait that does not compare the word first (a mutation of EnterWait).
EnterWaitBlindly ==
    /\ dpc = "enter"
    /\ DriverGoesTo("asleep")
    /\ UNCHANGED <<modeVars, wordVars, pubVars, fdVars, conVars>>

\* wait_word: the kernel parks the thread only if the word still holds the
\* expected value.
EnterWait ==
    /\ dpc = "enter"
    /\ DriverGoesTo(IF gen = observed THEN "asleep" ELSE "awake")
    /\ UNCHANGED <<modeVars, wordVars, pubVars, fdVars, conVars>>

\* wait_word returns early: a signal interrupted it.
Interrupted ==
    /\ dpc = "asleep"
    /\ DriverGoesTo("awake")
    /\ UNCHANGED <<modeVars, wordVars, pubVars, fdVars, conVars>>

\* wait_word has returned; the parked form counts itself out.
LeaveWait ==
    /\ dpc = "awake"
    /\ DriverGoesTo("check")
    /\ waiters' = IF form = "parked" THEN waiters - 1 ELSE waiters
    /\ UNCHANGED <<modeVars, gen, pubVars, fdVars, conVars>>

\* Parked form, something to report: counted out, stop looked at once more.
CountOut ==
    /\ dpc = "uncount"
    /\ waiters' = waiters - 1
    /\ DriverGoesTo("settle")
    /\ UNCHANGED <<modeVars, gen, pubVars, fdVars, conVars>>

\* Parked form: the signal is marked as pending before it is given.
Settle ==
    /\ dpc = "settle"
    /\ IF stop
       THEN DriverGoesTo("ended") /\ UNCHANGED pending
       ELSE /\ dpc' = "signal"
            /\ observed' = current
            /\ pending' = TRUE
            /\ UNCHANGED current
    /\ UNCHANGED <<modeVars, wordVars, pubVars, fdVars, cpc, seen, stop>>

\* Signal::signal: a token, and an edge for the reactor.
SignalFd ==
    /\ dpc = "signal"
    /\ fd' = TRUE /\ edge' = TRUE
    /\ DriverGoesTo(IF form = "parked" THEN "await" ELSE "check")
    /\ UNCHANGED <<modeVars, wordVars, pubVars, ready, conVars>>

\* Parked form, holding the mutex: wait for the drain unless it has happened
\* or the reader is going away.
AwaitDrain ==
    /\ dpc = "await"
    /\ DriverGoesTo(IF pending /\ ~stop THEN "blocked" ELSE "check")
    /\ UNCHANGED <<modeVars, wordVars, pubVars, fdVars, conVars>>

DriverStep ==
    \/ CheckStop \/ LookAtGeneration \/ EnterWait \/ LeaveWait \/ CountOut
    \/ Settle \/ SignalFd \/ AwaitDrain

-----------------------------------------------------------------------------
(***************************************************************************)
(* The reactor (external) and the consumer                                 *)
(***************************************************************************)

\* The reactor reports an edge if the descriptor is still readable.
Report ==
    /\ edge
    /\ edge' = FALSE
    /\ ready' = (ready \/ fd)
    /\ UNCHANGED <<modeVars, wordVars, pubVars, drvVars, fd, conVars>>

ConsumerGoesTo(s) == cpc' = s /\ UNCHANGED <<seen, stop, pending>>

\* notify_one on the condition variable of Drained.
NotifyTaken == dpc' = IF dpc = "blocked" THEN "await" ELSE dpc

\* The ring is polled through the consumer's cursor.
Poll ==
    /\ cpc = "poll"
    /\ seen' = head
    /\ cpc' = "wait"
    /\ UNCHANGED <<modeVars, wordVars, pubVars, drvVars, fdVars, stop,
                   pending>>

\* readable().await returns.
Readable ==
    /\ cpc = "wait" /\ ready
    /\ ConsumerGoesTo(IF clearFirst THEN "clear" ELSE "drain")
    /\ UNCHANGED <<modeVars, wordVars, pubVars, drvVars, fdVars>>

\* clear_ready.
ClearReady ==
    /\ cpc = "clear"
    /\ ready' = FALSE
    /\ ConsumerGoesTo(IF clearFirst THEN "drain" ELSE "poll")
    /\ UNCHANGED <<modeVars, wordVars, pubVars, drvVars, fd, edge>>

\* drain: the tokens are taken.
TakeTokens ==
    /\ cpc = "drain"
    /\ fd' = FALSE
    /\ ConsumerGoesTo(IF form = "parked" THEN "take"
                      ELSE IF clearFirst THEN "poll" ELSE "clear")
    /\ UNCHANGED <<modeVars, wordVars, pubVars, drvVars, edge, ready>>

\* A drain that forgets the driver (a mutation of LetPark).
LetParkNot ==
    /\ cpc = "take"
    /\ pending' = FALSE
    /\ cpc' = "poll"
    /\ UNCHANGED <<modeVars, wordVars, pubVars, drvVars, fdVars, seen, stop>>

\* drain of the parked form: the driver may park again.
LetPark ==
    /\ cpc = "take"
    /\ pending' = FALSE
    /\ NotifyTaken
    /\ cpc' = "poll"
    /\ UNCHANGED <<modeVars, wordVars, pubVars, observed, current, fdVars,
                   seen, stop>>

\* Drop, first step: the stop flag, from wherever the consumer may be
\* cancelled.
DropStarts ==
    /\ cpc \in {"poll", "wait"}
    /\ stop' = TRUE
    /\ cpc' = IF form = "parked" THEN "dropTaken" ELSE "dropBump"
    /\ UNCHANGED <<modeVars, wordVars, pubVars, drvVars, fdVars, seen,
                   pending>>

\* Drop of the parked form: the mutex is taken and the driver notified.
DropNotifies ==
    /\ cpc = "dropTaken"
    /\ NotifyTaken
    /\ ConsumerGoesTo("dropBump")
    /\ UNCHANGED <<modeVars, wordVars, pubVars, observed, current, fdVars>>

\* A drop that only wakes (a mutation of DropBumps).
DropBumpsNot ==
    /\ cpc = "dropBump"
    /\ ConsumerGoesTo("dropWake")
    /\ UNCHANGED <<modeVars, wordVars, pubVars, drvVars, fdVars>>

\* Drop: the generation changes before the wake.
DropBumps ==
    /\ cpc = "dropBump"
    /\ NoteGeneration
    /\ ConsumerGoesTo("dropWake")
    /\ UNCHANGED <<modeVars, waiters, pubVars, drvVars, fdVars>>

\* Drop: the wake.
DropWakes ==
    /\ cpc = "dropWake"
    /\ WakeWord
    /\ ConsumerGoesTo("join")
    /\ UNCHANGED <<modeVars, wordVars, pubVars, observed, current, fdVars>>

\* Drop: join returns once the driver has ended.
Join ==
    /\ cpc = "join" /\ dpc = "ended"
    /\ ConsumerGoesTo("gone")
    /\ UNCHANGED <<modeVars, wordVars, pubVars, drvVars, fdVars>>

ConsumerStep ==
    \/ Poll \/ Readable \/ ClearReady \/ TakeTokens \/ LetPark
    \/ DropNotifies \/ DropBumps \/ DropWakes \/ Join

PublisherStep(p) == Bump(p) \/ LookForWaiters(p) \/ Wake(p)

Next ==
    \/ \E p \in Publishers : CommitFrame(p) \/ PublisherStep(p)
                             \/ PublisherDies(p)
    \/ DriverStep \/ Interrupted
    \/ Report
    \/ ConsumerStep \/ DropStarts

Spec == Init /\ [][Next]_vars

\* Threads that can run do run: the driver, the reactor, the consumer between
\* two waits and a publisher inside its call.  Nothing makes a publisher
\* publish, a signal arrive or the reader go away.
Fairness ==
    /\ WF_vars(DriverStep)
    /\ WF_vars(Report)
    /\ WF_vars(ConsumerStep)
    /\ \A p \in Publishers : WF_vars(PublisherStep(p))

FairSpec == Spec /\ Fairness

-----------------------------------------------------------------------------
\* Every variable stays in its range, and neither the consumer nor a publish
\* call is ahead of the frames committed to the ring.
TypeOK ==
    /\ form \in Forms
    /\ clearFirst \in BOOLEAN
    /\ gen \in Nat
    /\ waiters \in Nat
    /\ head \in Nat /\ announced \in 0 .. head /\ seen \in 0 .. head
    /\ ppc \in [Publishers -> {"idle", "bump", "look", "wake"}]
    /\ mine \in [Publishers -> 0 .. head]
    /\ deaths \in Nat
    /\ dpc \in {"check", "look", "enter", "asleep", "awake", "uncount",
                "settle", "signal", "await", "blocked", "ended"}
    /\ observed \in 0 .. gen /\ current \in 0 .. gen
    /\ stop \in BOOLEAN /\ pending \in BOOLEAN
    /\ fd \in BOOLEAN /\ edge \in BOOLEAN /\ ready \in BOOLEAN
    /\ cpc \in {"poll", "wait", "clear", "drain", "take", "dropTaken",
                "dropBump", "dropWake", "join", "gone"}

Counted == dpc \in {"look", "enter", "asleep", "awake", "uncount"}

\* notification_waiters counts the parked driver on every path through its
\* loop and never after it has ended: publishers neither skip a wake somebody
\* sleeps for nor go on paying for a reader that is gone.
WaitersExact == waiters = IF form = "parked" /\ Counted THEN 1 ELSE 0

\* Somebody is past a bump of the generation and has its wake still to make.
WakeOwed ==
    \/ \E p \in Publishers : ppc[p] \in {"look", "wake"}
    \/ cpc = "dropWake"

\* "One of the two sees the other, so a publish cannot fall between them"
\* (ParkedRingEventFd::new): a driver asleep on a generation that has moved
\* is about to be woken, unless the publisher that owes the wake has died.
NoLostWake ==
    dpc = "asleep" /\ observed # gen /\ deaths = 0 => WakeOwed

\* Every publish whose call returned is eventually polled by the consumer,
\* however publishes, parks, drains and deaths interleave, as long as the
\* reader stays.
EveryPublishSeen ==
    \A k \in 1 .. MaxPublish : announced >= k ~> (seen >= k \/ stop)

\* Dropping the reader always comes to an end: the driver, wherever it is,
\* sees the stop and the join returns.
DropEnds == stop ~> cpc = "gone"

\* The driver, seen from the word it sleeps on: it is counted while it sleeps
\* and never afterwards, and no publish goes by without a wake (driver loop and
\* notify of readiness.rs).
DriverSound == TypeOK /\ WaitersExact /\ NoLostWake
=============================================================================
