----------------------------- MODULE LinkInbox -----------------------------
(***************************************************************************)
(* One lane of a link's inbox (link/src/inbox.rs, inbox/claims.rs,         *)
(* segment.rs, receiver.rs, bell.rs): many writers, one reader.            *)
(*                                                                         *)
(* A slot carries the turn it is for and a claim that names a record of    *)
(* the producer that holds it.  A writer publishes an intent in one of its *)
(* records, claims the slot, and is admitted by whoever moves `reserve`    *)
(* first, itself or a writer that found the slot taken.  Only the reader   *)
(* moves `read`.  The kernel locks of a registration and of the lane die   *)
(* with their process; whoever gets one of them recovers what it guards.   *)
(*                                                                         *)
(* Every action is one atomic access of the shared memory, with those      *)
(* before it that no other process can tell apart.  A process has one      *)
(* thread in the lane.  A reader's process is registered as a producer     *)
(* too, which has no effect as long as it writes nothing.                  *)
(***************************************************************************)
EXTENDS Integers, Sequences, FiniteSets

CONSTANTS
    Writers, Readers,   \* processes
    Bounds              \* the bounded instances a run goes through: slots of
                        \* the lane and records of a registration, how the
                        \* reader waits, how many calls of write and join,
                        \* deaths and changes of the directory there are,
                        \* who may die, and whether readers leave

Procs == Writers \cup Readers
Nobody == "nobody"

ASSUME ProcsAssumption ==
    Writers \cap Readers = {} /\ Nobody \notin Procs
ASSUME NumbersAssumption ==
    \A b \in Bounds :
       /\ b.capacity \in Nat \ {0}
       /\ b.form \in {"park", "socket"} /\ b.mortal \subseteq Procs
       /\ b.leaves \in BOOLEAN
       /\ {b.writes, b.crashes, b.moves, b.joins} \subseteq Nat

VARIABLES
    bound,      \* the instance
    lane,       \* LaneHeader, and the directory of the table
    slot,       \* the slots: turn, claim and payload
    record,     \* the intents of each registration
    owner,      \* the registrations
    laneHold,   \* who holds the kernel lock of the lane
    regHold,    \* who holds the kernel lock of each registration
    up,         \* processes that live
    pc, job,    \* where each process is, and what it works on
    moved,      \* has the word moved since the reader took it?
    bell,       \* is there a datagram in the reader's socket?
    reported,   \* the directory generation last reported
    sent,       \* history: messages whose write began
    fate,       \* history: the turn and the epoch each was committed for
    delivered,  \* history: what readers were handed, with its turn
    malformed,  \* history: a reader met Error::Malformed
    count       \* history: deaths, joins and directory moves

laneVars == <<lane, slot>>
regVars  == <<record, owner>>
holdVars == <<laneHold, regHold, up>>
wakeVars == <<moved, bell, reported>>
histVars == <<bound, sent, fate, delivered, malformed, count>>
vars == <<laneVars, regVars, holdVars, pc, job, wakeVars, histVars>>

Capacity == bound.capacity
Records == Writers \X (1 .. Capacity)
RecordsOf(o) == {o} \X (1 .. Capacity)
NoRecord == <<Nobody, 0>>
Free == [rec |-> NoRecord, state |-> "free"]

\* The slot of a position, in a lane of that capacity and in this one.
SlotIn(capacity, p) == p % capacity
At(p) == SlotIn(Capacity, p)

NoIntent == [pos |-> 0, epoch |-> 0, gen |-> 0]
NoJob ==
    [msg |-> 0, tries |-> 0, read |-> 0, pos |-> 0, rec |-> NoRecord,
     claim |-> Free, intent |-> NoIntent, turn |-> 0, who |-> Nobody,
     owners |-> {}, recs |-> {}, serving |-> FALSE,
     help |-> "idle", wake |-> "idle", then |-> "idle", after |-> "idle"]

Init ==
    /\ bound \in Bounds
    /\ lane = [reserve |-> 0, read |-> 0, consumers |-> 0, epoch |-> 0,
               waiters |-> 0, reactor |-> FALSE, initialized |-> FALSE,
               directory |-> 0]
    /\ slot = [i \in 0 .. Capacity - 1 |->
                  [seq |-> 0, claim |-> Free, body |-> 0]]
    /\ record = [r \in Records |->
                    [stable |-> TRUE, intent |-> NoIntent,
                     writing |-> FALSE, referenced |-> FALSE]]
    /\ owner = [o \in Writers |-> [gen |-> 1, active |-> TRUE]]
    /\ laneHold = Nobody
    /\ regHold = [o \in Writers |-> o]
    /\ up = Procs
    /\ pc = [p \in Procs |-> "idle"] /\ job = [p \in Procs |-> NoJob]
    /\ moved = FALSE /\ bell = FALSE /\ reported = 0
    /\ sent = 0 /\ fate = [m \in 1 .. bound.writes |-> [pos |-> -1, epoch |-> 0]]
    /\ delivered = <<>> /\ malformed = FALSE
    /\ count = [crashes |-> 0, joins |-> 0, moves |-> 0]

-----------------------------------------------------------------------------
(***************************************************************************)
(* Helpers                                                                 *)
(***************************************************************************)

\* Process p goes from a to b, with j as what it works on.
Step(p, a, b, j) ==
    /\ pc[p] = a
    /\ pc' = [pc EXCEPT ![p] = b]
    /\ job' = [job EXCEPT ![p] = IF b \in {"idle", "dead"} THEN NoJob ELSE j]
Steps(p, a, b) == Step(p, a, b, job[p])
J(p) == job[p]
SlotOf(p) == slot[At(J(p).pos)]

\* Changes of p's slot, of the lane, of one record: one access each.
SetSlot(p, s) == slot' = [slot EXCEPT ![At(J(p).pos)] = s]
SetLane(l) == lane' = l
SetRecord(r, v) == record' = [record EXCEPT ![r] = v]

\* A compare_exchange on `reserve` from a position to the next.
AdmittedAt(pos) ==
    IF lane.reserve = pos THEN [lane EXCEPT !.reserve = pos + 1] ELSE lane

Reserved(r) == [rec |-> r, state |-> "reserved"]
Done(c) == c.state \in {"committed", "cancelled"}

\* A step that reads the table and changes nothing of it.
Reads == UNCHANGED <<laneVars, regVars, holdVars, wakeVars, histVars>>

\* Steps that change only the lane, only a slot, only a record.
OnLane == UNCHANGED <<slot, regVars, holdVars, wakeVars, histVars>>
OnSlot == UNCHANGED <<lane, regVars, holdVars, wakeVars, histVars>>
OnRecord == UNCHANGED <<laneVars, owner, holdVars, wakeVars, histVars>>

-----------------------------------------------------------------------------
(***************************************************************************)
(* wake, ring_armed                                                        *)
(***************************************************************************)

\* Readers that receive, and have their socket bound.
Serving == {r \in Readers : job[r].serving}

\* A lane whose reader parks has no interest of a receiver, and one with a
\* receiver has no waiters: the other half of wake finds nothing.
Bump(p) ==
    /\ Steps(p, "bump", IF bound.form = "park" THEN "waiters" ELSE "swap")
    /\ moved' = TRUE
    /\ UNCHANGED <<laneVars, regVars, holdVars, bell, reported, histVars>>

LookForWaiters(p) ==
    /\ Steps(p, "waiters", IF lane.waiters > 0 THEN "futex" ELSE J(p).wake)
    /\ Reads

WakeWord(p) ==
    /\ pc[p] = "futex"
    /\ pc' = [q \in Procs |-> IF q = p THEN J(p).wake
                              ELSE IF pc[q] = "parked" THEN "unparked" ELSE pc[q]]
    /\ job' = [job EXCEPT ![p] = IF J(p).wake = "idle" THEN NoJob ELSE @]
    /\ Reads

SwapReactor(p) ==
    /\ Steps(p, "swap", IF lane.reactor THEN "ring" ELSE J(p).wake)
    /\ SetLane([lane EXCEPT !.reactor = FALSE])
    /\ OnLane

\* The socket is bound while a reader receives; else the send fails and the
\* interest is put back.
Ring(p) ==
    /\ Steps(p, "ring", J(p).wake)
    /\ IF Serving # {}
       THEN bell' = TRUE /\ UNCHANGED lane
       ELSE SetLane([lane EXCEPT !.reactor = TRUE]) /\ UNCHANGED bell
    /\ UNCHANGED <<slot, regVars, holdVars, moved, reported, histVars>>

\* Another lane is claimed or released: publish_identity, release_lane.
DirectoryMoves(p) ==
    /\ Step(p, "idle", "bump", [NoJob EXCEPT !.wake = "idle"]) /\ p \in up
    /\ count.moves < bound.moves
    /\ count' = [count EXCEPT !.moves = @ + 1]
    /\ SetLane([lane EXCEPT !.directory = @ + 1])
    /\ UNCHANGED <<slot, regVars, holdVars, wakeVars, bound, sent, fate,
                   delivered, malformed>>

-----------------------------------------------------------------------------
(***************************************************************************)
(* help_claim, help_snapshot: continue at J(p).help                        *)
(***************************************************************************)

\* What a helper has read is of no use once it is done.
Helping(p, a, go, b) ==
    Step(p, a, IF go THEN b ELSE J(p).help,
         IF go THEN J(p) ELSE [J(p) EXCEPT !.claim = Free, !.intent = NoIntent])

HelpClaim(p) ==
    /\ Step(p, "help", IF SlotOf(p).claim = Free THEN J(p).help
                        ELSE "helpIntent",
            [J(p) EXCEPT !.claim = SlotOf(p).claim])
    /\ Reads

HelpIntent(p) ==
    LET r == record[J(p).claim.rec] IN
    /\ Step(p, "helpIntent", IF r.stable THEN "helpTurn" ELSE J(p).help,
            IF r.stable THEN [J(p) EXCEPT !.intent = r.intent]
                        ELSE [J(p) EXCEPT !.claim = Free])
    /\ Reads

\* Does the intent p has read stand for its slot's present turn?
MayHelp(p) ==
    /\ J(p).intent.pos = J(p).pos
    /\ SlotOf(p).seq = J(p).pos
    /\ owner[J(p).claim.rec[1]].gen = J(p).intent.gen

HelpTurn(p) ==
    /\ Helping(p, "helpTurn", MayHelp(p), "helpAgain")
    /\ Reads

HelpAgain(p) ==
    /\ Helping(p, "helpAgain", SlotOf(p).claim = J(p).claim, "helpAdmit")
    /\ Reads

HelpAdmit(p) ==
    /\ Helping(p, "helpAdmit", FALSE, "idle")
    /\ SetLane(AdmittedAt(J(p).pos))
    /\ OnLane

-----------------------------------------------------------------------------
(***************************************************************************)
(* write, reserve_frame, try_reserve_frame                                 *)
(***************************************************************************)

\* A lane is addressed by the name or the role it publishes (targets), so not
\* before its first owner has made it ready.  No consumer: InboxFull.
Write(p) ==
    /\ Step(p, "idle", IF lane.consumers = 0 THEN "idle" ELSE "loadRead",
            [NoJob EXCEPT !.msg = sent + 1, !.tries = Capacity]) /\ p \in up
    /\ sent < bound.writes /\ lane.initialized
    /\ sent' = sent + 1
    /\ UNCHANGED <<laneVars, regVars, holdVars, wakeVars, bound, fate,
                   delivered, malformed, count>>

\* The next attempt; none is left, or no consumer: InboxFull.
TryAgain(p) ==
    /\ Steps(p, "again", IF lane.consumers = 0 \/ J(p).tries = 0
                         THEN "idle" ELSE "loadRead")
    /\ Reads

LoadRead(p) ==
    /\ Step(p, "loadRead", "loadReserve",
            [J(p) EXCEPT !.read = lane.read])
    /\ Reads

\* Is there no room between a read position and a reserve position?
FullBetween(read, reserve) == reserve - read >= Capacity

LoadReserve(p) ==
    /\ Step(p, "loadReserve", IF FullBetween(J(p).read, lane.reserve)
                               THEN "idle" ELSE "loadClaim",
            [J(p) EXCEPT !.pos = lane.reserve, !.read = 0])
    /\ Reads

LoadClaim(p) ==
    /\ Step(p, "loadClaim", IF SlotOf(p).claim = Free THEN "takeRecord"
                             ELSE "help",
            [J(p) EXCEPT !.help = "progress"])
    /\ Reads

\* retry_after_progress
Progress(p) ==
    /\ Step(p, "progress", IF lane.reserve > J(p).pos THEN "again"
                            ELSE "idle",
            [NoJob EXCEPT !.msg = J(p).msg, !.tries = J(p).tries - 1])
    /\ Reads

\* The slot an earlier intent names holds that record no more.
Released(r) == slot[At(record[r].intent.pos)].claim.rec # r

\* take_record: the first that can be had.  The intent it held is being
\* replaced from now on.
TakeRecord(p) ==
    LET able == {r \in RecordsOf(p) : /\ ~record[r].writing
                                      /\ record[r].referenced => Released(r)}
    IN  /\ \/ able = {} /\ Steps(p, "takeRecord", "idle") /\ UNCHANGED record
           \/ \E r \in able :
                 /\ \A s \in able : r[2] <= s[2]
                 /\ Step(p, "takeRecord", "intent",
                         [NoJob EXCEPT !.msg = J(p).msg, !.tries = J(p).tries,
                                       !.pos = J(p).pos, !.rec = r,
                                       !.help = "progress"])
                 /\ SetRecord(r, [record[r] EXCEPT !.writing = TRUE,
                                     !.referenced = FALSE, !.stable = FALSE])
        /\ OnRecord

IntentStore(p) ==
    /\ Steps(p, "intent", "claim")
    /\ SetRecord(J(p).rec,
          [record[J(p).rec] EXCEPT
              !.stable = TRUE, !.referenced = TRUE,
              !.intent = [pos |-> J(p).pos, epoch |-> lane.epoch,
                          gen |-> owner[p].gen]])
    /\ OnRecord

\* The winner goes on; a loser drops its intent, helps and looks again.
ClaimSlot(p) ==
    /\ IF SlotOf(p).claim = Free
       THEN /\ SetSlot(p, [SlotOf(p) EXCEPT !.claim = Reserved(J(p).rec)])
            /\ Steps(p, "claim", "turn")
       ELSE /\ Step(p, "claim", "drop", [J(p) EXCEPT !.then = "help"])
            /\ UNCHANGED slot
    /\ OnSlot

CheckTurnNever(p) ==
    /\ Step(p, "turn", "admit",
            [J(p) EXCEPT !.then = "progress"])
    /\ Reads

CheckTurn(p) ==
    /\ Step(p, "turn", IF SlotOf(p).seq = J(p).pos THEN "admit"
                        ELSE "rollback",
            [J(p) EXCEPT !.then = "progress"])
    /\ Reads

RollBack(p) ==
    /\ Steps(p, "rollback", "drop")
    /\ SetSlot(p, IF SlotOf(p).claim = Reserved(J(p).rec)
                  THEN [SlotOf(p) EXCEPT !.claim = Free] ELSE SlotOf(p))
    /\ OnSlot

DropIntent(p) ==
    /\ Steps(p, "drop", J(p).then)
    /\ SetRecord(J(p).rec, [record[J(p).rec] EXCEPT !.writing = FALSE,
                                                    !.referenced = FALSE])
    /\ OnRecord

Admit(p) ==
    /\ Steps(p, "admit", "payload")
    /\ SetLane(AdmittedAt(J(p).pos))
    /\ OnLane

StorePayload(p) ==
    /\ Steps(p, "payload", "commit")
    /\ SetSlot(p, [SlotOf(p) EXCEPT !.body = J(p).msg])
    /\ OnSlot

Commit(p) ==
    /\ Step(p, "commit", "bump",
            [J(p) EXCEPT !.wake = "unwrite"])
    /\ SetSlot(p, [SlotOf(p) EXCEPT
                      !.claim = [rec |-> J(p).rec, state |-> "committed"]])
    /\ fate' = [fate EXCEPT ![J(p).msg] =
                   [pos |-> J(p).pos, epoch |-> record[J(p).rec].intent.epoch]]
    /\ UNCHANGED <<lane, regVars, holdVars, wakeVars, bound, sent, delivered,
                   malformed, count>>

\* Reservation::drop
Unwrite(p) ==
    /\ Steps(p, "unwrite", "idle")
    /\ SetRecord(J(p).rec, [record[J(p).rec] EXCEPT !.writing = FALSE])
    /\ OnRecord

-----------------------------------------------------------------------------
(***************************************************************************)
(* recover_producers, recover_owner, register_producer                     *)
(***************************************************************************)

\* The next registration, of those a recoverer goes through.
NextOwner(p) ==
    \/ /\ J(p).owners = {} /\ Steps(p, "owners", "laneCheck") /\ Reads
    \/ \E o \in J(p).owners :
          LET rest == [J(p) EXCEPT !.owners = @ \ {o}] IN
          IF owner[o].active /\ regHold[o] = Nobody
          THEN /\ Step(p, "owners", "records",
                       [rest EXCEPT !.who = o, !.recs = RecordsOf(o),
                                    !.after = "owners"])
               /\ regHold' = [regHold EXCEPT ![o] = p]
               /\ UNCHANGED <<laneVars, regVars, laneHold, up, wakeVars, histVars>>
          ELSE Step(p, "owners", "owners", rest) /\ Reads

Unused(r) == [record[r] EXCEPT !.writing = FALSE, !.referenced = FALSE]

\* A record that no claim can name is free; the slot of another one is looked at.
NextRecord(p) ==
    \E r \in J(p).recs :
       LET rest == [J(p) EXCEPT !.recs = @ \ {r}, !.rec = r,
                                !.pos = record[r].intent.pos] IN
       IF ~record[r].referenced
       THEN /\ Step(p, "records", "records", [J(p) EXCEPT !.recs = @ \ {r}])
            /\ SetRecord(r, Unused(r)) /\ OnRecord
       ELSE /\ Step(p, "records", "recTurn", rest)
            /\ malformed' = (\/ malformed \/ ~record[r].stable
                             \/ record[r].intent.gen # owner[J(p).who].gen)
            /\ UNCHANGED <<laneVars, regVars, holdVars, wakeVars, bound, sent,
                           fate, delivered, count>>

RecTurn(p) ==
    /\ Step(p, "recTurn", "recClaim", [J(p) EXCEPT !.turn = SlotOf(p).seq])
    /\ Reads

RecClaim(p) ==
    LET c == SlotOf(p).claim IN
    /\ Steps(p, "recClaim",
             CASE c.rec # J(p).rec -> "records"
               [] c.rec = J(p).rec /\ J(p).turn = J(p).pos -> "recCancel"
               [] c = Reserved(J(p).rec) /\ J(p).turn # J(p).pos -> "recRollback"
               [] OTHER -> "recUnwrite")
    /\ IF c.rec # J(p).rec THEN SetRecord(J(p).rec, Unused(J(p).rec))
                           ELSE UNCHANGED record
    /\ OnRecord

RecCancelCommits(p) ==
    /\ Step(p, "recCancel", "help",
            [J(p) EXCEPT !.help = "bump", !.wake = "recUnwrite"])
    /\ SetSlot(p, IF SlotOf(p).claim = Reserved(J(p).rec)
                  THEN [SlotOf(p) EXCEPT !.claim.state = "committed"]
                  ELSE SlotOf(p))
    /\ OnSlot

\* What was reserved is cancelled; it is admitted, and the wake repeated.
RecCancel(p) ==
    /\ Step(p, "recCancel", "help",
            [J(p) EXCEPT !.help = "bump", !.wake = "recUnwrite"])
    /\ SetSlot(p, IF SlotOf(p).claim = Reserved(J(p).rec)
                  THEN [SlotOf(p) EXCEPT !.claim.state = "cancelled"]
                  ELSE SlotOf(p))
    /\ OnSlot

\* A tentative claim for another turn, which nobody can have admitted.
RecRollBack(p) ==
    /\ IF SlotOf(p).claim = Reserved(J(p).rec)
       THEN /\ SetSlot(p, [SlotOf(p) EXCEPT !.claim = Free])
            /\ SetRecord(J(p).rec, Unused(J(p).rec))
            /\ Steps(p, "recRollback", "records")
       ELSE Steps(p, "recRollback", "recUnwrite") /\ UNCHANGED <<slot, record>>
    /\ UNCHANGED <<lane, owner, holdVars, wakeVars, histVars>>

RecUnwrite(p) ==
    /\ Steps(p, "recUnwrite", "records")
    /\ SetRecord(J(p).rec, [record[J(p).rec] EXCEPT !.writing = FALSE])
    /\ OnRecord

OwnerIdle(o) ==
    \A r \in RecordsOf(o) : ~record[r].writing /\ ~record[r].referenced

\* The end of recover_owner.  A recoverer lets the registration go; a process
\* that opens the segment registers if nothing of it is still referenced.
RecordsDone(p) ==
    LET o == J(p).who IN
    /\ pc[p] = "records" /\ J(p).recs = {}
    /\ IF J(p).after = "owners"
       THEN /\ Step(p, "records", "owners", [NoJob EXCEPT !.owners = J(p).owners])
            /\ owner' = [owner EXCEPT ![o].active = @ /\ ~OwnerIdle(o)]
            /\ regHold' = [regHold EXCEPT ![o] = Nobody] /\ UNCHANGED up
       ELSE IF OwnerIdle(o)
       THEN /\ Steps(p, "records", "idle")
            /\ owner' = [owner EXCEPT ![o] = [gen |-> @.gen + 1, active |-> TRUE]]
            /\ UNCHANGED <<regHold, up>>
       ELSE /\ Steps(p, "records", "dead") /\ UNCHANGED owner
            /\ regHold' = [regHold EXCEPT ![o] = Nobody] /\ up' = up \ {p}
    /\ UNCHANGED <<laneVars, record, laneHold, wakeVars, histVars>>

-----------------------------------------------------------------------------
(***************************************************************************)
(* LinkSegment::join, recover_lane, release_lane, reset_lane               *)
(***************************************************************************)

JoinStarts(p) ==
    /\ Step(p, "idle", "owners", [NoJob EXCEPT !.owners = Writers])
    /\ p \in up /\ count.joins < bound.joins
    /\ count' = [count EXCEPT !.joins = @ + 1]
    /\ UNCHANGED <<laneVars, regVars, holdVars, wakeVars, bound, sent, fate,
                   delivered, malformed>>

Holds(p) ==
    /\ laneHold' = p
    /\ UNCHANGED <<laneVars, regVars, regHold, up, wakeVars, histVars>>

LetsGo ==
    /\ laneHold' = Nobody
    /\ UNCHANGED <<laneVars, regVars, regHold, up, wakeVars, histVars>>

\* recover_lane
LaneCheck(p) ==
    IF laneHold # Nobody \/ (lane.consumers = 0 /\ lane.reserve = lane.read)
    THEN Steps(p, "laneCheck", "join") /\ Reads
    ELSE /\ Step(p, "laneCheck", IF lane.consumers # 0 THEN "release" ELSE "reset",
                 [NoJob EXCEPT !.tries = Capacity, !.after = "retired"])
         /\ Holds(p)

ReleaseLane(p) ==
    /\ Steps(p, "release", "leave")
    /\ SetLane([lane EXCEPT !.consumers = 0]) /\ OnLane

AnnounceLeave(p) ==
    /\ Step(p, "leave", "bump",
            [J(p) EXCEPT !.wake = IF J(p).after = "retired" THEN "reset"
                                  ELSE J(p).after])
    /\ SetLane([lane EXCEPT !.directory = @ + 1]) /\ OnLane

Retired(p) == Step(p, "retired", "join", NoJob) /\ LetsGo

JoinLook(p) ==
    /\ Steps(p, "join", IF lane.consumers # 0 THEN "idle" ELSE "joinHold")
    /\ Reads

JoinHold(p) ==
    IF laneHold # Nobody
    THEN Steps(p, "joinHold", "idle") /\ Reads
    ELSE Steps(p, "joinHold", "joinClaim") /\ Holds(p)

\* The lane was looked at before its lock was had: another process may have
\* claimed it and died since.
JoinLoses(p) ==
    /\ lane.consumers # 0 /\ Steps(p, "joinClaim", "idle") /\ LetsGo

JoinClaims(p) ==
    /\ lane.consumers = 0
    /\ Step(p, "joinClaim", "reset",
            [NoJob EXCEPT !.tries = Capacity, !.after = "identity"])
    /\ SetLane([lane EXCEPT !.consumers = 1]) /\ OnLane

PublishIdentity(p) ==
    /\ Step(p, "identity", "bump", [NoJob EXCEPT !.wake = "serve"])
    /\ SetLane([lane EXCEPT !.directory = @ + 1]) /\ OnLane

Serve(p) ==
    /\ Step(p, "serve", "look", [NoJob EXCEPT !.serving = TRUE])
    /\ reported' = lane.directory /\ bell' = FALSE
    /\ UNCHANGED <<laneVars, regVars, holdVars, moved, histVars>>

ResetFresh(p) ==
    /\ ~lane.initialized /\ Steps(p, "reset", "resetEpoch")
    /\ slot' = [i \in DOMAIN slot |-> [slot[i] EXCEPT !.seq = i]]
    /\ SetLane([lane EXCEPT !.initialized = TRUE])
    /\ UNCHANGED <<regVars, holdVars, wakeVars, histVars>>

ResetLook(p) ==
    /\ lane.initialized
    /\ Step(p, "reset", IF J(p).tries = 0 \/ lane.read >= lane.reserve
                        THEN "resetEpoch" ELSE "resetTurn",
            [J(p) EXCEPT !.pos = lane.read, !.then = "reset"])
    /\ Reads

ResetTurn(p) ==
    /\ Steps(p, "resetTurn", IF SlotOf(p).seq > J(p).pos THEN "resetLate"
                             ELSE "resetClaim")
    /\ Reads

\* The last reader released this turn and died before it moved the head.
ResetLate(p) ==
    LET c == SlotOf(p).claim
        old == Done(c) /\ record[c.rec].intent.pos = J(p).pos
    IN  IF old
        THEN Steps(p, "resetLate", "consumeTurn") /\ Reads
        ELSE /\ Step(p, "resetLate", "reset", [J(p) EXCEPT !.tries = @ - 1])
             /\ SetLane([lane EXCEPT !.read = J(p).pos + 1]) /\ OnLane

ResetClaim(p) ==
    /\ Steps(p, "resetClaim", IF Done(SlotOf(p).claim) THEN "consumeTurn"
                              ELSE "resetEpoch")
    /\ Reads

ResetEpoch(p) ==
    /\ Steps(p, "resetEpoch", J(p).after)
    /\ SetLane([lane EXCEPT !.epoch = @ + 1, !.waiters = 0, !.reactor = FALSE])
    /\ OnLane

-----------------------------------------------------------------------------
(***************************************************************************)
(* consume_frame                                                           *)
(***************************************************************************)

ConsumeTurnFreeing(p) ==
    /\ Steps(p, "consumeTurn", "consumeFree")
    /\ SetSlot(p, [SlotOf(p) EXCEPT !.claim = Free]) /\ OnSlot

ConsumeTurn(p) ==
    /\ Steps(p, "consumeTurn", "consumeFree")
    /\ SetSlot(p, [SlotOf(p) EXCEPT !.seq = J(p).pos + Capacity]) /\ OnSlot

ConsumeFree(p) ==
    /\ Steps(p, "consumeFree", "consumeHead")
    /\ SetSlot(p, [SlotOf(p) EXCEPT !.claim = Free]) /\ OnSlot

ConsumeHead(p) ==
    /\ Step(p, "consumeHead", J(p).then,
            [J(p) EXCEPT !.claim = Free, !.pos = 0, !.tries = @ - 1])
    /\ SetLane([lane EXCEPT !.read = J(p).pos + 1]) /\ OnLane

-----------------------------------------------------------------------------
(***************************************************************************)
(* InboxReceiver::next, Inbox::read, Inbox::park                           *)
(***************************************************************************)

ReportDirectory(p) ==
    /\ pc[p] = "look" /\ lane.directory # reported
    /\ reported' = lane.directory
    /\ UNCHANGED <<laneVars, regVars, holdVars, pc, job, moved, bell, histVars>>

TakeGeneration(p) ==
    /\ lane.directory = reported
    /\ Step(p, "look", "readHead", [J(p) EXCEPT !.tries = Capacity])
    /\ moved' = FALSE
    /\ UNCHANGED <<laneVars, regVars, holdVars, bell, reported, histVars>>

\* Where a reader goes that found nothing.
Waiting == IF bound.form = "park" THEN "register" ELSE "disarm"

ReadHead(p) ==
    /\ Step(p, "readHead", IF J(p).tries = 0 \/ lane.read >= lane.reserve
                           THEN Waiting ELSE "readClaim",
            [J(p) EXCEPT !.pos = lane.read])
    /\ Reads

\* Only the reader changes the turn of the slot at its head.
ReadClaim(p) ==
    /\ Step(p, "readClaim", IF SlotOf(p).seq = J(p).pos /\ Done(SlotOf(p).claim)
                            THEN "readIntent" ELSE Waiting,
            [J(p) EXCEPT !.claim = SlotOf(p).claim])
    /\ Reads

ReadIntent(p) ==
    LET r == record[J(p).claim.rec]
        deliver == /\ J(p).claim.state = "committed"
                   /\ r.intent.epoch = lane.epoch
    IN  /\ Step(p, "readIntent", IF deliver THEN "copy" ELSE "consumeTurn",
                [J(p) EXCEPT !.then = IF deliver THEN "look" ELSE "readHead"])
        /\ malformed' = (malformed \/ ~r.stable \/ r.intent.pos # J(p).pos)
        /\ UNCHANGED <<laneVars, regVars, holdVars, wakeVars, bound, sent, fate,
                       delivered, count>>

CopyOut(p) ==
    /\ Steps(p, "copy", "consumeTurn")
    /\ delivered' = Append(delivered, [pos |-> J(p).pos, msg |-> SlotOf(p).body])
    /\ UNCHANGED <<laneVars, regVars, holdVars, wakeVars, bound, sent, fate,
                   malformed, count>>

Disarm(p) ==
    /\ Steps(p, "disarm", "drain")
    /\ SetLane([lane EXCEPT !.reactor = FALSE]) /\ OnLane

Drain(p) ==
    /\ Steps(p, "drain", "arm") /\ bell' = FALSE
    /\ UNCHANGED <<laneVars, regVars, holdVars, moved, reported, histVars>>

Arm(p) ==
    /\ Steps(p, "arm", "recheck")
    /\ SetLane([lane EXCEPT !.reactor = TRUE]) /\ OnLane

\* Something happened since it looked: disarm and look again.
Recheck(p) ==
    LET again == moved \/ lane.directory # reported IN
    /\ Step(p, "recheck", IF again THEN "look" ELSE "asleep",
            [NoJob EXCEPT !.serving = TRUE])
    /\ IF again THEN SetLane([lane EXCEPT !.reactor = FALSE])
                ELSE UNCHANGED lane
    /\ OnLane

\* readable().await and try_recv
Awake(p) ==
    /\ bell /\ Steps(p, "asleep", "look") /\ bell' = FALSE
    /\ UNCHANGED <<laneVars, regVars, holdVars, moved, reported, histVars>>

Register(p) ==
    /\ Step(p, "register", "enter", [NoJob EXCEPT !.serving = TRUE])
    /\ SetLane([lane EXCEPT !.waiters = @ + 1]) /\ OnLane

\* wait_word: the kernel compares the word once more.
EnterWait(p) ==
    /\ Steps(p, "enter", IF moved THEN "unparked" ELSE "parked") /\ Reads

Unpark(p) ==
    /\ Steps(p, "unparked", "look")
    /\ SetLane([lane EXCEPT !.waiters = @ - 1]) /\ OnLane

\* The owner leaves: release_lane, then its hold is dropped.
LeaveStarts(p) ==
    /\ bound.leaves
    /\ Step(p, "look", "release", [NoJob EXCEPT !.after = "left"]) /\ Reads

Left(p) == Steps(p, "left", "idle") /\ LetsGo

-----------------------------------------------------------------------------
(***************************************************************************)
(* Deaths                                                                  *)
(***************************************************************************)

Crash(p) ==
    /\ p \in up \cap bound.mortal /\ count.crashes < bound.crashes
    /\ count' = [count EXCEPT !.crashes = @ + 1]
    /\ up' = up \ {p}
    /\ Steps(p, pc[p], "dead")
    /\ laneHold' = IF laneHold = p THEN Nobody ELSE laneHold
    /\ regHold' = [o \in Writers |-> IF regHold[o] = p THEN Nobody ELSE regHold[o]]
    /\ bell' = (bell /\ ~J(p).serving)
    /\ UNCHANGED <<laneVars, regVars, moved, reported, bound, sent, fate,
                   delivered, malformed>>

\* A process comes back; a writer recovers its registration and registers.
Restart(p) ==
    /\ pc[p] = "dead" /\ up' = up \cup {p}
    /\ IF p \in Readers
       THEN Steps(p, "dead", "idle") /\ UNCHANGED regHold
       ELSE /\ regHold[p] = Nobody
            /\ regHold' = [regHold EXCEPT ![p] = p]
            /\ Step(p, "dead", "records",
                    [NoJob EXCEPT !.who = p, !.after = "register",
                                  !.recs = IF owner[p].active THEN RecordsOf(p)
                                           ELSE {}])
    /\ UNCHANGED <<laneVars, regVars, laneHold, wakeVars, histVars>>

-----------------------------------------------------------------------------
Next ==
    \/ \E p \in Procs :
          \/ Bump(p) \/ LookForWaiters(p) \/ WakeWord(p) \/ SwapReactor(p)
          \/ Ring(p) \/ Crash(p) \/ Restart(p)
          \/ HelpClaim(p) \/ HelpIntent(p) \/ HelpTurn(p) \/ HelpAgain(p)
          \/ HelpAdmit(p)
          \/ NextRecord(p) \/ RecTurn(p) \/ RecClaim(p) \/ RecCancel(p)
          \/ RecRollBack(p) \/ RecUnwrite(p) \/ RecordsDone(p)
    \/ \E p \in Writers :
          \/ Write(p) \/ TryAgain(p) \/ LoadRead(p) \/ LoadReserve(p)
          \/ LoadClaim(p) \/ Progress(p) \/ TakeRecord(p)
          \/ IntentStore(p) \/ ClaimSlot(p) \/ CheckTurn(p)
          \/ RollBack(p) \/ DropIntent(p) \/ Admit(p) \/ StorePayload(p)
          \/ Commit(p) \/ Unwrite(p) \/ DirectoryMoves(p)
    \/ \E p \in Readers :
          \/ NextOwner(p) \/ JoinStarts(p) \/ LaneCheck(p) \/ ReleaseLane(p)
          \/ AnnounceLeave(p) \/ Retired(p) \/ JoinLook(p) \/ JoinHold(p) \/ JoinLoses(p)
          \/ JoinClaims(p) \/ PublishIdentity(p) \/ Serve(p)
          \/ ResetFresh(p) \/ ResetLook(p) \/ ResetTurn(p) \/ ResetLate(p)
          \/ ResetClaim(p) \/ ResetEpoch(p)
          \/ ConsumeTurn(p) \/ ConsumeFree(p) \/ ConsumeHead(p)
          \/ ReportDirectory(p) \/ TakeGeneration(p)
          \/ ReadHead(p) \/ ReadClaim(p) \/ ReadIntent(p)
          \/ CopyOut(p) \/ Disarm(p) \/ Drain(p) \/ Arm(p) \/ Recheck(p)
          \/ Awake(p) \/ Register(p) \/ EnterWait(p) \/ Unpark(p)
          \/ LeaveStarts(p) \/ Left(p)

Spec == Init /\ [][Next]_vars

-----------------------------------------------------------------------------
(***************************************************************************)
(* Properties                                                              *)
(***************************************************************************)

\* Messages are handed out in the order of their turns, each at most once and
\* as its writer committed it, though writers are helped, overtaken and die,
\* and readers are replaced between any two stores.
DeliveredOnceInTurn ==
    /\ \A i \in DOMAIN delivered :
          LET d == delivered[i] IN d.msg # 0 /\ fate[d.msg].pos = d.pos
    /\ \A i, j \in DOMAIN delivered :
          i < j => delivered[i].pos < delivered[j].pos

\* The record behind a claim that was committed or cancelled stays what it was
\* until the claim is freed: neither a reader nor a recovery meets an intent
\* that is unstable or of another turn.
NeverMalformed == ~malformed

\* Is message m still in the lane?
Queued(m) ==
    /\ fate[m].pos \in lane.read .. lane.reserve - 1
    /\ LET s == slot[At(fate[m].pos)] IN
          s.body = m /\ s.claim.state = "committed" /\ s.seq = fate[m].pos

\* What was committed for the present claim of the lane is not lost: the reader
\* has had it or will find it.
AcceptedNotLost ==
    Serving # {} =>
       \A m \in 1 .. sent :
          fate[m].pos >= 0 /\ fate[m].epoch = lane.epoch
             => Queued(m) \/ \E i \in DOMAIN delivered : delivered[i].msg = m

\* Has the reader something to do?
HeadReady ==
    LET s == slot[At(lane.read)] IN
    lane.read < lane.reserve /\ s.seq = lane.read /\ Done(s.claim)

\* A record its writer died with, which no recovery has come past yet.
Unrecovered == \E r \in Records : record[r].writing /\ job[r[1]].msg = 0

Asleep == {r \in Readers : pc[r] = "parked" \/ (pc[r] = "asleep" /\ ~bell)}

\* Threads between a change and the end of its wake.
Waking == {p \in up : pc[p] \in {"bump", "waiters", "futex", "swap", "ring"}}

\* A wake that took the interest of a receiver and died before it rang.
InterestTaken == bound.form = "socket" /\ count.crashes > 0 /\ ~lane.reactor

\* The reader does not sleep over a frame it could take but for a wake under
\* way, a dead writer nobody has recovered or an interest taken by the dead; a
\* receiver does not sleep over a directory it has not reported, unless the
\* announcer died.
NoSleepOverFrame ==
    Asleep # {} =>
       /\ HeadReady => Waking # {} \/ Unrecovered \/ InterestTaken
       /\ bound.form = "socket" /\ lane.directory # reported
             => Waking # {} \/ count.crashes > 0

\* The recovery of a dead writer "preserves committed frames and repeats their
\* wake" (link/README.md): once it is past, the reader does not sleep over one.
RecoveryRepeatsWake ==
    Asleep # {} /\ HeadReady => Waking # {} \/ Unrecovered

\* Nothing is under way.
Quiet ==
    /\ \A p \in up : pc[p] \in {"idle", "parked", "asleep"}
    /\ Serving # {} /\ ~Unrecovered

\* When nothing is under way no turn is stuck: every admitted turn is
\* committed or cancelled, and every other slot is free for the turn to come.
NoTurnStuck ==
    Quiet => \A i \in 0 .. Capacity - 1 :
                LET pos == lane.read + i
                    s == slot[At(pos)]
                IN  s.seq = pos /\ IF pos < lane.reserve THEN Done(s.claim)
                                   ELSE s.claim = Free

\* Turns are kept: what readers get is in turn, once and whole, and no record
\* of a claim is ever met unstable (admit, commit and take of inbox.rs).
TurnsKept == DeliveredOnceInTurn /\ NeverMalformed

\* Nobody is stuck, neither a reader asleep over a frame nor a turn that no
\* recovery will come past (wake, recover and consume of inbox.rs).
NobodyStuck == NoSleepOverFrame /\ NoTurnStuck
=============================================================================
